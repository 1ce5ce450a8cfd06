-------------------------- MODULE EventQueueProofs ---------------------------
(***************************************************************************)
(* Proofs about EventQueue, for any poppers, the scheduler among them or   *)
(* not, any events and any number of slots.                                *)
(***************************************************************************)
EXTENDS EventQueue, TLAPS

Wrap(n) == n % Capacity

-----------------------------------------------------------------------------
(* How counts of events fall on slots *)

LEMMA Division ==
  \A n \in Nat : /\ n % Capacity \in Int /\ n \div Capacity \in Int
                 /\ 0 <= n % Capacity /\ n % Capacity < Capacity
                 /\ n = Capacity * (n \div Capacity) + (n % Capacity)
  BY CapacityAssumption, Z3

LEMMA WrapInSlots == \A n \in Nat : Wrap(n) \in Slots
  BY Division, CapacityAssumption DEF Wrap, Slots

\* Counts less than one lap apart fall on different slots.
LEMMA WrapApart ==
  ASSUME NEW m \in Nat, NEW n \in Nat, m < n, n < m + Capacity
  PROVE  Wrap(m) # Wrap(n)
  <1> DEFINE a == m \div Capacity
             b == n \div Capacity
             r == m % Capacity
  <1> SUFFICES ASSUME n % Capacity = r PROVE FALSE
    BY DEF Wrap
  <1>1. /\ a \in Int /\ b \in Int /\ r \in Int
        /\ m = Capacity * a + r /\ n = Capacity * b + r
    BY Division
  <1> HIDE DEF a, b, r
  <1>2. n - m = Capacity * (b - a)
    BY <1>1, CapacityAssumption, Z3
  <1>3. b - a >= 1 => Capacity * (b - a) >= Capacity
    BY <1>1, CapacityAssumption, Z3
  <1>4. b - a <= 0 => Capacity * (b - a) <= 0
    BY <1>1, CapacityAssumption, Z3
  <1> QED
    BY <1>1, <1>2, <1>3, <1>4, CapacityAssumption

\* Offset and lap of a count are unique.
LEMMA WrapUnique ==
  ASSUME NEW n \in Nat, NEW l \in Int, NEW r \in Int,
         0 <= r, r < Capacity, n = Capacity * l + r
  PROVE  Wrap(n) = r
  <1> DEFINE b == n \div Capacity
             s == n % Capacity
  <1>1. /\ b \in Int /\ s \in Int /\ 0 <= s /\ s < Capacity
        /\ n = Capacity * b + s
    BY Division
  <1> HIDE DEF b, s
  <1>2. Capacity * (l - b) = s - r
    BY <1>1, CapacityAssumption, Z3
  <1>3. l - b >= 1 => Capacity * (l - b) >= Capacity
    BY <1>1, CapacityAssumption, Z3
  <1>4. l - b <= -1 => Capacity * (l - b) <= -Capacity
    BY <1>1, CapacityAssumption, Z3
  <1>5. l - b = 0 => Capacity * (l - b) = 0
    BY <1>1, CapacityAssumption, Z3
  <1>6. s = r
    BY <1>1, <1>2, <1>3, <1>4, <1>5, CapacityAssumption
  <1> QED
    BY <1>6 DEF s, Wrap

\* The index after that of n events is that of n + 1 events.
LEMMA NextWraps == \A n \in Nat : next_index(Wrap(n)) = Wrap(n + 1)
  <1> TAKE n \in Nat
  <1> DEFINE b == n \div Capacity
             s == n % Capacity
  <1>1. /\ b \in Int /\ s \in Int /\ 0 <= s /\ s < Capacity
        /\ n = Capacity * b + s
    BY Division
  <1> HIDE DEF b, s
  <1>2. CASE s + 1 < Capacity
    <2>1. s + 1 = Capacity * 0 + (s + 1) /\ n + 1 = Capacity * b + (s + 1)
      BY <1>1, CapacityAssumption, Z3
    <2>2. Wrap(s + 1) = s + 1 /\ Wrap(n + 1) = s + 1
      BY <1>1, <1>2, <2>1, WrapUnique, CapacityAssumption
    <2> QED
      BY <2>2 DEF next_index, Wrap, s
  <1>3. CASE s + 1 = Capacity
    <2>1. s + 1 = Capacity * 1 + 0 /\ n + 1 = Capacity * (b + 1) + 0
      BY <1>1, <1>3, CapacityAssumption, Z3
    <2>2. s + 1 \in Nat /\ n + 1 \in Nat /\ b + 1 \in Int /\ 0 < Capacity
      BY <1>1, CapacityAssumption
    <2>3. Wrap(s + 1) = 0
      BY <2>1, <2>2, WrapUnique
    <2>4. Wrap(n + 1) = 0
      BY <2>1, <2>2, WrapUnique
    <2> QED
      BY <2>3, <2>4 DEF next_index, Wrap, s
  <1> QED
    BY <1>1, <1>2, <1>3, CapacityAssumption

\* One lap later the same slot comes round again.
LEMMA WrapAfterLap == \A n \in Nat : Wrap(n + Capacity) = Wrap(n)
  <1> TAKE n \in Nat
  <1> DEFINE b == n \div Capacity
             s == n % Capacity
  <1>1. /\ b \in Int /\ s \in Int /\ 0 <= s /\ s < Capacity
        /\ n = Capacity * b + s
    BY Division
  <1> HIDE DEF b, s
  <1>2. n + Capacity = Capacity * (b + 1) + s
    BY <1>1, CapacityAssumption, Z3
  <1>3. n + Capacity \in Nat /\ b + 1 \in Int
    BY <1>1, CapacityAssumption
  <1>4. Wrap(n + Capacity) = s
    BY <1>1, <1>2, <1>3, WrapUnique
  <1> QED
    BY <1>4 DEF Wrap, s

LEMMA WrapZero == Wrap(0) = 0
  <1>1. 0 = Capacity * 0 + 0
    BY CapacityAssumption, Z3
  <1> QED
    BY <1>1, WrapUnique, CapacityAssumption

\* In the first lap a count is its slot.
LEMMA WrapFirstLap == ASSUME NEW n \in Nat, n < Capacity PROVE Wrap(n) = n
  <1>1. n = Capacity * 0 + n
    BY CapacityAssumption, Z3
  <1> QED
    BY <1>1, WrapUnique, CapacityAssumption

-----------------------------------------------------------------------------
(* Initial states *)

LEMMA InitInv == Init => IInv
  <1> SUFFICES ASSUME Init PROVE IInv
    OBVIOUS
  <1>1. 0 \in Slots
    BY CapacityAssumption DEF Slots
  <1>2. TypeOK
    BY <1>1 DEF Init, TypeOK
  <1>3. Written /\ \A t \in Poppers : ReaderInv(t)
    BY WrapZero, CapacityAssumption DEF Init, Written, ReaderInv, ReadsAreWritten, Wrap, Slots
  <1>4. Cursors
    BY WrapZero, CapacityAssumption DEF Init, Cursors, Wrap
  <1>5. Contents /\ FifoOrder /\ SlotStaysFree /\ \A t \in Poppers : PopperInv(t)
    BY DEF Init, Contents, FifoOrder, SlotStaysFree, PopperInv
  <1> QED
    BY <1>2, <1>3, <1>4, <1>5 DEF IInv, Orderly

-----------------------------------------------------------------------------
(* The scheduler's steps *)

LEMMA StepLoadTail ==
  ASSUME IInv, NEW e \in Events, PushLoadTail(e)
  PROVE  IInv'
  <1>1. TypeOK'
    BY DEF PushLoadTail, popVars, history, IInv, TypeOK
  <1>2. Written' /\ \A t \in Poppers : ReaderInv(t)'
    BY DEF PushLoadTail, popVars, history, IInv, Written, ReaderInv, ReadsAreWritten
  <1>3. ASSUME ~ clashed' PROVE Orderly'
    BY <1>3 DEF PushLoadTail, popVars, history, IInv, Orderly, Cursors, Contents,
       FifoOrder, SlotOf, SlotStaysFree, PopperInv
  <1> QED
    BY <1>1, <1>2, <1>3 DEF IInv

LEMMA StepLoadHead ==
  ASSUME IInv, PushLoadHead
  PROVE  IInv'
  <1>1. TypeOK'
    BY DEF PushLoadHead, popVars, history, IInv, TypeOK
  <1>2. Written' /\ \A t \in Poppers : ReaderInv(t)'
    BY DEF PushLoadHead, popVars, history, IInv, Written, ReaderInv, ReadsAreWritten
  <1>3. ASSUME ~ clashed' PROVE Orderly'
    <2>0. Orderly
      BY <1>3 DEF PushLoadHead, history, IInv
    <2>1. Cursors' /\ Contents' /\ FifoOrder' /\ \A t \in Poppers : PopperInv(t)'
      BY <2>0 DEF PushLoadHead, popVars, history, Orderly, Cursors, Contents, FifoOrder,
         SlotOf, PopperInv
    <2>2. SlotStaysFree'
      <3> DEFINE m == Len(popped)
                 n == Len(pushed)
      <3>1. m \in Nat /\ n \in Nat /\ wtail = Wrap(n) /\ head = Wrap(m) /\ n < m + Capacity
        BY <2>0 DEF PushLoadHead, IInv, TypeOK, Written, Orderly, Cursors, Wrap
      <3> HIDE DEF m, n
      <3>2. ASSUME next_index(wtail) # head PROVE n + 1 < m + Capacity
        <4> SUFFICES ASSUME n + 1 = m + Capacity PROVE FALSE
          BY <3>1, CapacityAssumption
        <4>1. next_index(wtail) = Wrap(n + 1)
          BY <3>1, NextWraps
        <4>2. Wrap(n + 1) = Wrap(m)
          BY <3>1, WrapAfterLap
        <4> QED
          BY <3>1, <3>2, <4>1, <4>2
      <3> QED
        BY <3>2 DEF PushLoadHead, history, SlotStaysFree, m, n
    <2> QED
      BY <2>1, <2>2 DEF Orderly
  <1> QED
    BY <1>1, <1>2, <1>3 DEF IInv

LEMMA StepWrite ==
  ASSUME IInv, PushWrite
  PROVE  IInv'
  <1>0. wtail = tail /\ tail \in Slots /\ event \in Events
    BY DEF PushWrite, IInv, Written, TypeOK
  <1>1. TypeOK'
    BY <1>0 DEF PushWrite, popVars, history, IInv, TypeOK
  <1>2. Written' /\ \A t \in Poppers : ReaderInv(t)'
    BY <1>0 DEF PushWrite, popVars, history, IInv, TypeOK, Written, ReaderInv, ReadsAreWritten
  <1>3. ASSUME ~ clashed' PROVE Orderly'
    <2>0. Orderly
      BY <1>3 DEF PushWrite, history, IInv
    <2>1. Cursors' /\ FifoOrder' /\ SlotStaysFree' /\ \A t \in Poppers : PopperInv(t)'
      BY <2>0 DEF PushWrite, popVars, history, Orderly, Cursors, FifoOrder, SlotStaysFree,
         PopperInv
    <2>2. Contents'
      <3> DEFINE m == Len(popped)
                 n == Len(pushed)
      <3> SUFFICES ASSUME NEW i \in m + 1 .. n PROVE slots'[SlotOf(i)] = pushed[i]
        BY DEF PushWrite, history, Contents, SlotOf
      <3>1. m \in Nat /\ n \in Nat /\ tail = Wrap(n) /\ n < m + Capacity
        BY <2>0 DEF IInv, TypeOK, Written, Orderly, Cursors, Wrap
      <3>2. slots[SlotOf(i)] = pushed[i]
        BY <2>0 DEF Orderly, Contents
      <3> HIDE DEF m, n
      <3>3. i - 1 \in Nat /\ i - 1 < n /\ n < (i - 1) + Capacity
        BY <3>1, CapacityAssumption
      <3>4. Wrap(i - 1) # Wrap(n) /\ Wrap(i - 1) \in Slots
        BY <3>1, <3>3, WrapApart, WrapInSlots
      <3>5. SlotOf(i) \in Slots /\ SlotOf(i) # wtail
        BY <3>1, <3>4, <1>0 DEF SlotOf, Wrap
      <3> QED
        BY <3>2, <3>5 DEF PushWrite, IInv, TypeOK
    <2> QED
      BY <2>1, <2>2 DEF Orderly
  <1> QED
    BY <1>1, <1>2, <1>3 DEF IInv

LEMMA StepPublish ==
  ASSUME IInv, PushPublish
  PROVE  IInv'
  <1> DEFINE n == Len(pushed)
  <1>0. /\ n \in Nat /\ wtail = tail /\ tail = Wrap(n) /\ slots[tail] = event
        /\ event \in Events /\ pushed \in Seq(Events) /\ head \in Slots
    BY DEF PushPublish, IInv, TypeOK, Written, Wrap
  <1>1. /\ pushed' = Append(pushed, event) /\ popped' = popped /\ slots' = slots
        /\ head' = head /\ cpc' = cpc /\ rhead' = rhead /\ read' = read
        /\ ppc' = "idle" /\ clashed' = clashed
    BY DEF PushPublish, popVars
  <1>2. /\ pushed' \in Seq(Events) /\ Len(pushed') = n + 1
        /\ \A i \in 1 .. n : pushed'[i] = pushed[i]
        /\ pushed'[n + 1] = event
    BY <1>0, <1>1
  <1>3. tail' = Wrap(n + 1) /\ tail' \in Slots
    BY <1>0, NextWraps, WrapInSlots DEF PushPublish
  <1>4. TypeOK'
    BY <1>2, <1>3 DEF PushPublish, popVars, IInv, TypeOK
  <1>5. Written'
    <2>1. ASSUME NEW s \in Slots, s < n + 1 PROVE slots[s] \in Events
      <3>1. CASE s < n
        BY <3>1 DEF IInv, Written
      <3>2. CASE s = n
        <4>1. s \in Nat /\ s < Capacity
          BY CapacityAssumption DEF Slots
        <4>2. Wrap(s) = s
          BY <4>1, WrapFirstLap
        <4> QED
          BY <1>0, <3>2, <4>2
      <3> QED
        BY <1>0, <2>1, <3>1, <3>2, CapacityAssumption DEF Slots
    <2>2. n + 1 < Capacity => head <= n + 1
      BY <1>0, CapacityAssumption DEF IInv, Written, Slots
    <2>3. ReadsAreWritten'
      BY <1>1 DEF IInv, Written, ReadsAreWritten
    <2> QED
      BY <1>1, <1>2, <1>3, <2>1, <2>2, <2>3 DEF Written, Wrap
  <1>6. ASSUME NEW t \in Poppers PROVE ReaderInv(t)'
    <2>1. ReaderInv(t) /\ rhead[t] \in Slots
      BY DEF IInv, TypeOK
    <2> QED
      BY <1>0, <1>1, <1>2, <2>1, CapacityAssumption DEF ReaderInv, Slots
  <1>7. ASSUME ~ clashed' PROVE Orderly'
    <2> DEFINE m == Len(popped)
    <2>0. /\ Orderly /\ m \in Nat /\ m <= n /\ n + 1 < m + Capacity
      BY <1>1, <1>7 DEF PushPublish, IInv, TypeOK, Orderly, Cursors, SlotStaysFree
    <2>1. Cursors'
      BY <1>0, <1>1, <1>2, <2>0 DEF Orderly, Cursors
    <2>2. Contents'
      <3> SUFFICES ASSUME NEW i \in m + 1 .. n + 1 PROVE slots[SlotOf(i)] = pushed'[i]
        BY <1>1, <1>2 DEF Contents, SlotOf
      <3>1. CASE i = n + 1
        <4>1. SlotOf(i) = tail
          BY <1>0, <3>1 DEF SlotOf, Wrap
        <4> QED
          BY <1>0, <1>2, <3>1, <4>1
      <3>2. CASE i # n + 1
        <4>1. i \in m + 1 .. n /\ i \in 1 .. n
          BY <1>0, <2>0, <3>2
        <4>2. slots[SlotOf(i)] = pushed[i]
          BY <2>0, <4>1 DEF Orderly, Contents
        <4> QED
          BY <1>2, <4>1, <4>2
      <3> QED
        BY <3>1, <3>2
    <2>3. SlotStaysFree'
      BY <1>1 DEF SlotStaysFree
    <2>4. ASSUME NEW t \in Poppers PROVE PopperInv(t)'
      <3>1. PopperInv(t)
        BY <2>0 DEF Orderly
      <3>2. m < n => pushed'[m + 1] = pushed[m + 1] /\ m < Len(pushed')
        BY <1>0, <1>2, <2>0
      <3> QED
        BY <1>1, <3>1, <3>2 DEF PopperInv
    <2>5. FifoOrder'
      BY <1>0, <1>1, <1>2, <2>0 DEF Orderly, FifoOrder
    <2> QED
      BY <2>1, <2>2, <2>3, <2>4, <2>5 DEF Orderly
  <1> QED
    BY <1>4, <1>5, <1>6, <1>7 DEF IInv

-----------------------------------------------------------------------------
(* The steps of a popper *)

LEMMA StepPopLoadHead ==
  ASSUME IInv, NEW t \in Poppers, PopLoadHead(t)
  PROVE  IInv'
  <1>1. TypeOK'
    BY DEF PopLoadHead, Goto, pushVars, history, IInv, TypeOK
  <1>2. Written'
    BY DEF PopLoadHead, pushVars, history, IInv, Written, ReadsAreWritten
  <1>3. ASSUME NEW u \in Poppers PROVE ReaderInv(u)'
    BY DEF PopLoadHead, Goto, history, IInv, TypeOK, Written, ReaderInv
  <1>4. ASSUME ~ clashed' PROVE Orderly'
    <2>0. Orderly
      BY <1>4 DEF PopLoadHead, history, IInv
    <2>1. Cursors' /\ Contents' /\ FifoOrder' /\ SlotStaysFree'
      BY <2>0 DEF PopLoadHead, pushVars, history, Orderly, Cursors, Contents, FifoOrder,
         SlotOf, SlotStaysFree
    <2>2. ASSUME NEW u \in Poppers PROVE PopperInv(u)'
      BY <2>0 DEF PopLoadHead, Goto, history, IInv, TypeOK, Orderly, PopperInv
    <2> QED
      BY <2>1, <2>2 DEF Orderly
  <1> QED
    BY <1>1, <1>2, <1>3, <1>4 DEF IInv

LEMMA StepPopLoadTail ==
  ASSUME IInv, NEW t \in Poppers, PopLoadTail(t)
  PROVE  IInv'
  <1>1. TypeOK'
    BY DEF PopLoadTail, Goto, pushVars, history, IInv, TypeOK
  <1>2. Written'
    BY DEF PopLoadTail, pushVars, history, IInv, Written, ReadsAreWritten
  <1>3. ASSUME NEW u \in Poppers PROVE ReaderInv(u)'
    <2> DEFINE n == Len(pushed)
    <2>1. n \in Nat /\ rhead[t] \in Slots /\ tail = Wrap(n)
      BY DEF IInv, TypeOK, Written, Wrap
    <2>2. n < Capacity => tail = n
      BY <2>1, WrapFirstLap
    <2>3. rhead[t] # tail => rhead[t] < n
      BY <2>1, <2>2, CapacityAssumption DEF PopLoadTail, IInv, ReaderInv, Slots
    <2> QED
      BY <2>3 DEF PopLoadTail, Goto, history, IInv, TypeOK, ReaderInv
  <1>4. ASSUME ~ clashed' PROVE Orderly'
    <2>0. Orderly
      BY <1>4 DEF PopLoadTail, history, IInv
    <2>1. Cursors' /\ Contents' /\ FifoOrder' /\ SlotStaysFree'
      BY <2>0 DEF PopLoadTail, pushVars, history, Orderly, Cursors, Contents, FifoOrder,
         SlotOf, SlotStaysFree
    <2>2. rhead[t] # tail => Len(popped) < Len(pushed)
      <3>1. Len(popped) \in Nat /\ Len(pushed) \in Nat /\ rhead[t] = head
        BY <2>0 DEF PopLoadTail, IInv, TypeOK, Orderly, PopperInv
      <3> QED
        BY <3>1, <2>0 DEF IInv, Written, Orderly, Cursors
    <2>3. ASSUME NEW u \in Poppers PROVE PopperInv(u)'
      BY <2>0, <2>2 DEF PopLoadTail, Goto, history, IInv, TypeOK, Orderly, PopperInv
    <2> QED
      BY <2>1, <2>3 DEF Orderly
  <1> QED
    BY <1>1, <1>2, <1>3, <1>4 DEF IInv

LEMMA StepPopRead ==
  ASSUME IInv, NEW t \in Poppers, PopRead(t)
  PROVE  IInv'
  <1>1. TypeOK'
    BY DEF PopRead, Goto, pushVars, history, IInv, TypeOK
  <1>2. Written'
    BY DEF PopRead, pushVars, history, IInv, Written, ReadsAreWritten
  <1>3. ASSUME NEW u \in Poppers PROVE ReaderInv(u)'
    <2>1. slots[rhead[t]] \in Events
      BY DEF PopRead, IInv, TypeOK, Written, ReaderInv
    <2> QED
      BY <2>1 DEF PopRead, Goto, history, IInv, TypeOK, ReaderInv
  <1>4. ASSUME ~ clashed' PROVE Orderly'
    <2>0. Orderly
      BY <1>4 DEF PopRead, history, IInv
    <2>1. Cursors' /\ Contents' /\ FifoOrder' /\ SlotStaysFree'
      BY <2>0 DEF PopRead, pushVars, history, Orderly, Cursors, Contents, FifoOrder,
         SlotOf, SlotStaysFree
    <2>2. slots[rhead[t]] = pushed[Len(popped) + 1]
      <3>1. /\ Len(popped) \in Nat /\ Len(pushed) \in Nat
            /\ rhead[t] = head /\ Len(popped) < Len(pushed)
        BY <2>0 DEF PopRead, IInv, TypeOK, Orderly, PopperInv
      <3>2. SlotOf(Len(popped) + 1) = head
        BY <3>1, <2>0 DEF Orderly, Cursors, SlotOf
      <3>3. Len(popped) + 1 \in Len(popped) + 1 .. Len(pushed)
        BY <3>1
      <3> QED
        BY <2>0, <3>1, <3>2, <3>3 DEF Orderly, Contents
    <2>3. ASSUME NEW u \in Poppers PROVE PopperInv(u)'
      BY <2>0, <2>2 DEF PopRead, Goto, history, IInv, TypeOK, Orderly, PopperInv
    <2> QED
      BY <2>1, <2>3 DEF Orderly
  <1> QED
    BY <1>1, <1>2, <1>3, <1>4 DEF IInv

\* The head moves on from the one that was loaded: under a clash that may be back.
LEMMA StepPopRelease ==
  ASSUME IInv, NEW t \in Poppers, PopRelease(t)
  PROVE  IInv'
  <1> DEFINE m == Len(popped)
             n == Len(pushed)
  <1>0. /\ m \in Nat /\ n \in Nat /\ rhead[t] \in Slots
        /\ rhead[t] < n /\ read[t] \in Events
        /\ popped \in Seq(Events \cup {Unset}) /\ pushed \in Seq(Events)
    BY DEF PopRelease, IInv, TypeOK, ReaderInv
  <1>1. /\ popped' = Append(popped, read[t]) /\ pushed' = pushed
        /\ slots' = slots /\ tail' = tail /\ head' = next_index(rhead[t])
        /\ ppc' = ppc /\ event' = event /\ wtail' = wtail
        /\ rhead' = rhead /\ read' = read
        /\ cpc' = [cpc EXCEPT ![t] = "idle"]
    BY DEF PopRelease, Goto, pushVars
  <1>2. /\ popped' \in Seq(Events \cup {Unset}) /\ Len(popped') = m + 1
        /\ \A i \in 1 .. m : popped'[i] = popped[i]
        /\ popped'[m + 1] = read[t]
    BY <1>0, <1>1
  <1>a. \A i \in 1 .. m + 1 : i \in 1 .. m \/ i = m + 1
    BY <1>0
  <1>3. head' \in Slots /\ (n < Capacity => head' <= n)
    <2>1. rhead[t] \in Nat /\ rhead[t] < Capacity
      BY <1>0, CapacityAssumption DEF Slots
    <2>2. head' = Wrap(rhead[t] + 1)
      BY <1>1 DEF next_index, Wrap
    <2>3. n < Capacity => rhead[t] + 1 < Capacity /\ rhead[t] + 1 <= n
      BY <1>0, <2>1, CapacityAssumption
    <2> QED
      BY <2>1, <2>2, <2>3, WrapInSlots, WrapFirstLap
  <1>4. TypeOK'
    BY <1>2, <1>3 DEF PopRelease, Goto, pushVars, IInv, TypeOK
  <1>5. Written'
    <2>1. ReadsAreWritten'
      BY <1>0, <1>2, <1>a DEF IInv, Written, ReadsAreWritten
    <2> QED
      BY <1>1, <1>3, <2>1 DEF IInv, Written
  <1>6. ASSUME NEW u \in Poppers PROVE ReaderInv(u)'
    BY <1>1 DEF IInv, TypeOK, ReaderInv
  <1>7. ASSUME ~ clashed' PROVE Orderly'
    <2>0. /\ Orderly /\ m < n /\ n < m + Capacity
          /\ rhead[t] = head /\ head = Wrap(m) /\ read[t] = pushed[m + 1]
      BY <1>7 DEF PopRelease, IInv, Orderly, Cursors, PopperInv, Wrap
    <2>1. head' = Wrap(m + 1)
      <3>1. head' = next_index(Wrap(m)) /\ m \in Nat
        BY <1>0, <1>1, <2>0
      <3> HIDE DEF m, n
      <3> QED
        BY <3>1, NextWraps
    <2>2. Cursors'
      <3>1. m + 1 <= n /\ n < (m + 1) + Capacity
        BY <1>0, <2>0, CapacityAssumption
      <3>2. head' = Len(popped') % Capacity
        BY <1>2, <2>1 DEF Wrap
      <3> QED
        BY <1>1, <1>2, <3>1, <3>2 DEF Cursors
    <2>3. Contents'
      <3> SUFFICES ASSUME NEW i \in (m + 1) + 1 .. n PROVE slots[SlotOf(i)] = pushed[i]
        BY <1>1, <1>2 DEF Contents, SlotOf
      <3>1. i \in m + 1 .. n
        BY <1>0
      <3> QED
        BY <2>0, <3>1 DEF Orderly, Contents
    <2>4. SlotStaysFree'
      <3>1. n + 1 < m + Capacity => n + 1 < (m + 1) + Capacity
        BY <1>0, CapacityAssumption
      <3> QED
        BY <1>1, <1>2, <2>0, <3>1 DEF Orderly, SlotStaysFree
    <2>5. ASSUME NEW u \in Poppers PROVE PopperInv(u)'
      <3>1. cpc'[u] = "idle"
        BY <1>1, <1>7 DEF PopRelease, IInv, TypeOK
      <3> QED
        BY <3>1 DEF PopperInv
    <2>6. FifoOrder'
      BY <1>0, <1>1, <1>2, <1>a, <2>0 DEF Orderly, FifoOrder
    <2> QED
      BY <2>2, <2>3, <2>4, <2>5, <2>6 DEF Orderly
  <1> QED
    BY <1>4, <1>5, <1>6, <1>7 DEF IInv

-----------------------------------------------------------------------------
(* The theorems *)

LEMMA NextInv == IInv /\ [Next]_vars => IInv'
  <1> SUFFICES ASSUME IInv, [Next]_vars PROVE IInv'
    OBVIOUS
  <1>1. ASSUME NEW e \in Events, PushLoadTail(e) PROVE IInv'
    BY <1>1, StepLoadTail
  <1>2. CASE PushStep
    BY <1>2, StepLoadHead, StepWrite, StepPublish DEF PushStep
  <1>3. ASSUME NEW t \in Poppers, PopStep(t) PROVE IInv'
    BY <1>3, StepPopLoadHead, StepPopLoadTail, StepPopRead, StepPopRelease DEF PopStep
  <1>4. CASE UNCHANGED vars
    BY <1>4 DEF vars, IInv, TypeOK, Written, ReaderInv, ReadsAreWritten, Orderly, Cursors,
       Contents, SlotStaysFree, PopperInv, FifoOrder, SlotOf
  <1> QED
    BY <1>1, <1>2, <1>3, <1>4 DEF Next

\* The inductive invariant holds in every reachable state, whoever pops.
THEOREM InvariantHolds == Spec => []IInv
  BY InitInv, NextInv, PTL DEF Spec

\* Types, in particular that both indices stay inside the ring, clash or not.
THEOREM TypeCorrect == Spec => []TypeOK
  <1>1. IInv => TypeOK
    BY DEF IInv
  <1> QED
    BY <1>1, InvariantHolds, PTL

\* pop never takes a slot for initialised that is not, not even when the
\* scheduler's clear and the callback's pop overlap.
THEOREM NothingUnwrittenIsRead == Spec => []ReadsAreWritten
  <1>1. IInv => ReadsAreWritten
    BY DEF IInv, Written
  <1> QED
    BY <1>1, InvariantHolds, PTL

\* Events are popped in the order of their pushes, each of them once, until a
\* pop ends inside another: only a clash can bring disorder.
THEOREM EventsInOrder == Spec => []OnlyClashesDisorder
  <1>1. IInv => OnlyClashesDisorder
    BY DEF IInv, Orderly, OnlyClashesDisorder
  <1> QED
    BY <1>1, InvariantHolds, PTL

\* Until a pop ends inside another, the slot being written is never being read.
THEOREM SlotsAreExclusive == Spec => []NoSlotRace
  <1>1. IInv => NoSlotRace
    <2> SUFFICES ASSUME IInv, ~ clashed, NEW t \in Poppers, cpc[t] = "read",
                        ppc \in {"write", "publish"}
                 PROVE  rhead[t] # wtail
      BY DEF NoSlotRace
    <2>1. /\ Len(popped) \in Nat /\ Len(pushed) \in Nat
          /\ Len(popped) < Len(pushed) /\ Len(pushed) < Len(popped) + Capacity
          /\ rhead[t] = Wrap(Len(popped)) /\ wtail = Wrap(Len(pushed))
      BY DEF IInv, TypeOK, Written, Orderly, Cursors, PopperInv, Wrap
    <2> QED
      BY <2>1, WrapApart
  <1> QED
    BY <1>1, InvariantHolds, PTL

\* Every push and pop is one of the bounded FIFO queue, the pop that clashes
\* with another included; those after it need not be.
THEOREM ImplementsFifo == Spec => FifoSpec
  <1>1. Init => Fifo!Init
    BY DEF Init, Fifo!Init
  <1>2. IInv /\ [Next]_vars => [clashed \/ Fifo!Next]_(Fifo!vars)
    <2> SUFFICES ASSUME IInv, [Next]_vars, ~ clashed PROVE [Fifo!Next]_(Fifo!vars)
      OBVIOUS
    <2>0. Orderly
      BY DEF IInv
    <2>1. CASE PushPublish
      <3>1. event \in Events /\ Len(pushed) + 1 < Len(popped) + Capacity
        BY <2>0, <2>1 DEF PushPublish, IInv, Written, Orderly, SlotStaysFree
      <3>2. Len(pushed) \in Nat /\ Len(popped) \in Nat
        BY DEF IInv, TypeOK
      <3>3. Len(pushed) - Len(popped) < Capacity - 1
        BY <3>1, <3>2, CapacityAssumption
      <3>4. Fifo!Push(event)
        BY <2>1, <3>3 DEF PushPublish, Fifo!Push
      <3> QED
        BY <3>1, <3>4 DEF Fifo!Next
    <2>2. ASSUME NEW t \in Poppers, PopRelease(t) PROVE Fifo!Pop
      BY <2>0, <2>2 DEF PopRelease, Orderly, PopperInv, Fifo!Pop
    <2>3. ASSUME NEW e \in Events, PushLoadTail(e) PROVE UNCHANGED Fifo!vars
      BY <2>3 DEF PushLoadTail, history, Fifo!vars
    <2>4. CASE PushLoadHead \/ PushWrite
      BY <2>4 DEF PushLoadHead, PushWrite, history, Fifo!vars
    <2>5. ASSUME NEW t \in Poppers, PopLoadHead(t) \/ PopLoadTail(t) \/ PopRead(t)
          PROVE  UNCHANGED Fifo!vars
      BY <2>5 DEF PopLoadHead, PopLoadTail, PopRead, history, Fifo!vars
    <2>6. CASE UNCHANGED vars
      BY <2>6 DEF vars, Fifo!vars
    <2> QED
      BY <2>1, <2>2, <2>3, <2>4, <2>5, <2>6 DEF Next, PushStep, PopStep, Fifo!Next
  <1> QED
    BY <1>1, <1>2, InvariantHolds, PTL DEF Spec, FifoSpec
=============================================================================
