--------------------------- MODULE MpmcQueueProofs ---------------------------
(***************************************************************************)
(* Proofs about MpmcQueue, for any number of threads, values and cells.    *)
(***************************************************************************)
EXTENDS MpmcQueue, TLAPS

-----------------------------------------------------------------------------
(* How positions fall on cells *)

\* A position is so many laps of the ring and an offset into it.
LEMMA LapAndOffset ==
  \A p \in Nat : /\ p % Capacity \in Int /\ p \div Capacity \in Int
                 /\ 0 <= p % Capacity /\ p % Capacity < Capacity
                 /\ p = Capacity * (p \div Capacity) + (p % Capacity)
  BY CapacityAssumption, Z3

\* Laps and offset of a position are unique.
LEMMA LapAndOffsetUnique ==
  ASSUME NEW a \in Int, NEW b \in Int, NEW r \in Int, NEW s \in Int,
         0 <= r, r < Capacity, 0 <= s, s < Capacity,
         Capacity * a + r = Capacity * b + s
  PROVE  a = b /\ r = s
  <1>1. Capacity * (a - b) = s - r
    BY CapacityAssumption, Z3
  <1>2. a - b >= 1 => Capacity * (a - b) >= Capacity
    BY CapacityAssumption, Z3
  <1>3. a - b <= -1 => Capacity * (a - b) <= -Capacity
    BY CapacityAssumption, Z3
  <1> QED
    BY <1>1, <1>2, <1>3, CapacityAssumption, Z3

\* A position maps to a cell of the ring.
LEMMA CellInRange == \A p \in Nat : Cell(p) \in Cells
  BY LapAndOffset, CapacityAssumption DEF Cell, Cells

\* The same cell comes round again after one lap ...
LEMMA CellAfterLap == \A p \in Nat : Cell(p + Capacity) = Cell(p)
  <1> TAKE p \in Nat
  <1> DEFINE a == (p + Capacity) \div Capacity
             r == (p + Capacity) % Capacity
             b == p \div Capacity
             s == p % Capacity
  <1>1. a \in Int /\ r \in Int /\ 0 <= r /\ r < Capacity /\ p + Capacity = Capacity * a + r
    BY LapAndOffset, CapacityAssumption
  <1>2. b \in Int /\ s \in Int /\ 0 <= s /\ s < Capacity /\ p = Capacity * b + s
    BY LapAndOffset
  <1> HIDE DEF a, r, b, s
  <1>3. Capacity * (b + 1) = Capacity * b + Capacity
    BY <1>2, CapacityAssumption, Z3
  <1>4. Capacity * a + r = Capacity * (b + 1) + s
    BY <1>1, <1>2, <1>3, CapacityAssumption
  <1>5. r = s
    BY <1>1, <1>2, <1>4, LapAndOffsetUnique
  <1> QED
    BY <1>5 DEF r, s, Cell

\* ... and not at the next position (this needs Capacity >= 2).
LEMMA CellOfSuccessor == \A p \in Nat : Cell(p + 1) # Cell(p)
  <1> TAKE p \in Nat
  <1> DEFINE a == (p + 1) \div Capacity
             r == (p + 1) % Capacity
             b == p \div Capacity
             s == p % Capacity
  <1>1. a \in Int /\ r \in Int /\ 0 <= r /\ r < Capacity /\ p + 1 = Capacity * a + r
    BY LapAndOffset, CapacityAssumption
  <1>2. b \in Int /\ s \in Int /\ 0 <= s /\ s < Capacity /\ p = Capacity * b + s
    BY LapAndOffset
  <1> HIDE DEF a, r, b, s
  <1>3. SUFFICES ASSUME r = s PROVE FALSE
    BY DEF r, s, Cell
  <1>4. Capacity * (a - b) = 1
    BY <1>1, <1>2, <1>3, CapacityAssumption, Z3
  <1>5. a - b >= 1 => Capacity * (a - b) >= Capacity
    BY <1>1, <1>2, CapacityAssumption, Z3
  <1>6. a - b <= 0 => Capacity * (a - b) <= 0
    BY <1>1, <1>2, CapacityAssumption, Z3
  <1> QED
    BY <1>1, <1>2, <1>4, <1>5, <1>6, CapacityAssumption

\* In the first lap a position is its own cell.
LEMMA CellOfFirstLap == \A c \in Cells : Cell(c) = c
  <1> TAKE c \in Cells
  <1>1. c \in Nat /\ c < Capacity
    BY CapacityAssumption DEF Cells
  <1>2. Capacity * 0 + c = Capacity * (c \div Capacity) + (c % Capacity)
    BY <1>1, LapAndOffset, CapacityAssumption
  <1> QED
    BY <1>1, <1>2, LapAndOffset, LapAndOffsetUnique, CapacityAssumption DEF Cell

-----------------------------------------------------------------------------
(* Type correctness *)

LEMMA InitType == Init => TypeOK
  BY CapacityAssumption DEF Init, TypeOK, Cells, Pcs, PushPcs, PopPcs

LEMMA NextType == TypeOK /\ [Next]_vars => TypeOK'
  <1> SUFFICES ASSUME TypeOK, [Next]_vars PROVE TypeOK'
    OBVIOUS
  <1> USE CapacityAssumption, CellInRange DEF TypeOK, Pcs, PushPcs, PopPcs, Goto
  <1>1. ASSUME NEW t \in Threads, NEW v \in Values, PushLoadHead(t, v) PROVE TypeOK'
    BY <1>1 DEF PushLoadHead
  <1>2. ASSUME NEW t \in Threads, PushLoadSeq(t) PROVE TypeOK'
    BY <1>2 DEF PushLoadSeq
  <1>3. ASSUME NEW t \in Threads, PushCas(t) PROVE TypeOK'
    <2>1. pc' \in [Threads -> Pcs]
      BY <1>3 DEF PushCas
    <2>2. \/ head' = head + 1 /\ log' = Append(log, arg[t]) /\ pos' = pos
          \/ head' = head /\ log' = log /\ pos' = [pos EXCEPT ![t] = head]
      BY <1>3 DEF PushCas
    <2>3. head' \in Nat /\ pos' \in [Threads -> Nat] /\ log' \in Seq(Values)
      <3>1. arg[t] \in Values
        OBVIOUS
      <3>2. CASE head' = head + 1 /\ log' = Append(log, arg[t]) /\ pos' = pos
        <4>1. log' \in Seq(Values)
          BY <3>1, <3>2
        <4>2. head' \in Nat
          BY <3>2
        <4> QED
          BY <3>2, <4>1, <4>2
      <3>3. CASE head' = head /\ log' = log /\ pos' = [pos EXCEPT ![t] = head]
        BY <3>3
      <3> QED
        BY <2>2, <3>2, <3>3
    <2> QED
      BY <1>3, <2>1, <2>2, <2>3 DEF PushCas
  <1>4. ASSUME NEW t \in Threads, PushWrite(t) PROVE TypeOK'
    BY <1>4 DEF PushWrite
  <1>5. ASSUME NEW t \in Threads, PushPublish(t) PROVE TypeOK'
    <2>1. pos[t] + 1 \in Nat
      OBVIOUS
    <2>2. seq' \in [Cells -> Nat]
      BY <1>5, <2>1 DEF PushPublish
    <2> QED
      BY <1>5, <2>2 DEF PushPublish
  <1>6. ASSUME NEW t \in Threads, PopLoadTail(t) PROVE TypeOK'
    BY <1>6 DEF PopLoadTail
  <1>7. ASSUME NEW t \in Threads, PopLoadSeq(t) PROVE TypeOK'
    BY <1>7 DEF PopLoadSeq
  <1>8. ASSUME NEW t \in Threads, PopCas(t) PROVE TypeOK'
    <2>1. pc' \in [Threads -> Pcs]
      BY <1>8 DEF PopCas
    <2>2. tail' \in Nat /\ pos' \in [Threads -> Nat]
      BY <1>8, SMTT(20) DEF PopCas
    <2> QED
      BY <1>8, <2>1, <2>2 DEF PopCas
  <1>9. ASSUME NEW t \in Threads, PopRead(t) PROVE TypeOK'
    BY <1>9 DEF PopRead
  <1>10. ASSUME NEW t \in Threads, PopRelease(t) PROVE TypeOK'
    <2>1. pos[t] + Capacity \in Nat
      OBVIOUS
    <2> QED BY <1>10, <2>1 DEF PopRelease
  <1>11. CASE UNCHANGED vars
    BY <1>11 DEF vars
  <1> QED
    BY <1>1, <1>2, <1>3, <1>4, <1>5, <1>6, <1>7, <1>8, <1>9, <1>10, <1>11
       DEF Next, Push, Pop

-----------------------------------------------------------------------------
(* The inductive invariant *)

\* A cell is never both awaiting a push and holding a value.
LEMMA CellStates ==
  ASSUME TypeOK, NEW c \in Cells, seq[c] >= 1, Cell(seq[c] - 1) = c
  PROVE  Cell(seq[c]) # c
  <1>1. seq[c] - 1 \in Nat /\ (seq[c] - 1) + 1 = seq[c]
    BY DEF TypeOK
  <1> QED
    BY <1>1, CellOfSuccessor

LEMMA InitInv == Init => IInv
  <1> SUFFICES ASSUME Init PROVE IInv
    OBVIOUS
  <1>1. TypeOK
    BY InitType
  <1>2. ASSUME NEW c \in Cells PROVE CellInv(c)
    <2>1. seq[c] = c /\ c \in Nat /\ c < Capacity
      BY CapacityAssumption DEF Init, Cells
    <2>2. Cell(seq[c]) = c
      BY <2>1, CellOfFirstLap
    <2>3. head <= seq[c] /\ seq[c] < tail + Capacity
      BY <2>1, CapacityAssumption DEF Init
    <2> QED
      BY <2>2, <2>3 DEF CellInv
  <1>3. ASSUME NEW t \in Threads PROVE WriterInv(t) /\ ReaderInv(t) /\ SawInv(t)
    BY DEF Init, WriterInv, ReaderInv, SawInv
  <1> QED
    BY <1>1, <1>2, <1>3, CapacityAssumption DEF Init, IInv, CursorsInOrder, ClaimsDiffer, Owns

\* Two owners own different cells.
LEMMA OwnersApart == IInv => NoCellRace
  <1> SUFFICES ASSUME IInv, NEW t \in Threads, NEW u \in Threads,
                      t # u, Owns(t), Owns(u), Cell(pos[t]) = Cell(pos[u])
               PROVE  FALSE
    BY DEF NoCellRace
  <1>1. pos[t] \in Nat /\ pos[u] \in Nat /\ pos[t] # pos[u]
    BY DEF IInv, TypeOK, ClaimsDiffer
  <1>2. WriterInv(t) /\ WriterInv(u) /\ ReaderInv(t) /\ ReaderInv(u)
    BY DEF IInv
  <1>3. pos[t] + 1 = pos[u] \/ pos[u] + 1 = pos[t]
    BY <1>1, <1>2 DEF Owns, WriterInv, ReaderInv
  <1> QED
    BY <1>1, <1>3, CellOfSuccessor

\* A step that leaves the ring alone, and makes no thread an owner.
LEMMA RingUntouched ==
  ASSUME IInv, TypeOK', NEW t \in Threads,
         UNCHANGED <<head, tail, seq, value, log>>,
         ~ Owns(t), ~ Owns(t)', SawInv(t)',
         \A u \in Threads \ {t} : pc'[u] = pc[u] /\ pos'[u] = pos[u] /\ arg'[u] = arg[u]
  PROVE  IInv'
  <1>1. \A c \in Cells : CellInv(c)'
    BY DEF IInv, CellInv
  <1>2. ASSUME NEW u \in Threads PROVE WriterInv(u)' /\ ReaderInv(u)' /\ SawInv(u)'
    <2>1. CASE u = t
      BY <2>1 DEF Owns, WriterInv, ReaderInv
    <2>2. CASE u # t
      BY <2>2 DEF IInv, WriterInv, ReaderInv, SawInv
    <2> QED
      BY <2>1, <2>2
  <1>3. ClaimsDiffer'
    BY DEF IInv, ClaimsDiffer, Owns
  <1> QED
    BY <1>1, <1>2, <1>3 DEF IInv, CursorsInOrder

\* A push that wins the cursor owns the cell it saw free.
LEMMA StepPushClaim ==
  \A t \in Threads :
    /\ IInv /\ TypeOK' /\ PushCas(t)
    /\ head = pos[t] /\ head' = head + 1 /\ log' = Append(log, arg[t])
    /\ pos' = pos /\ pc' = [pc EXCEPT ![t] = "pushWrite"]
    => IInv'
  <1> USE CapacityAssumption, CellInRange
  <1>h. SUFFICES ASSUME NEW t \in Threads, IInv, TypeOK', PushCas(t),
                        head = pos[t], head' = head + 1, log' = Append(log, arg[t]),
                        pos' = pos, pc' = [pc EXCEPT ![t] = "pushWrite"]
                 PROVE  IInv'
    OBVIOUS
  <1>0. /\ UNCHANGED <<tail, seq, value, arg>>
        /\ pc[t] = "pushCas" /\ head \in Nat /\ tail \in Nat /\ Len(log) = head
        /\ seq \in [Cells -> Nat] /\ log \in Seq(Values) /\ arg \in [Threads -> Values]
        /\ pos \in [Threads -> Nat] /\ pc \in [Threads -> Pcs]
    BY <1>h DEF PushCas, IInv, TypeOK
  <1>n. head \in Nat /\ tail \in Nat /\ head' = head + 1 /\ tail' = tail
    BY <1>h, <1>0
  <1>1. seq[Cell(head)] = head /\ Cell(head) \in Cells
    BY <1>h, <1>0 DEF IInv, SawInv
  <1>2. head < tail + Capacity /\ tail <= head
    <2>1. CellInv(Cell(head))
      BY <1>h, <1>1 DEF IInv
    <2>2. ~ (head >= 1 /\ Cell(head - 1) = Cell(head))
      BY <1>0, CellOfSuccessor
    <2> QED
      BY <1>h, <1>0, <1>1, <2>1, <2>2 DEF CellInv, IInv, CursorsInOrder
  <1>3. /\ Len(log') = head'
        /\ log'[head + 1] = arg[t]
        /\ \A i \in 1 .. head : log'[i] = log[i]
    BY <1>h, <1>0
  <1>4. CursorsInOrder'
    BY <1>n, <1>2 DEF CursorsInOrder
  <1>5. ASSUME NEW c \in Cells PROVE CellInv(c)'
    <2>1. CellInv(c) /\ seq'[c] = seq[c] /\ value'[c] = value[c] /\ seq[c] \in Nat
      BY <1>h, <1>0 DEF IInv
    <2>2. CASE c = Cell(head)
      <3>1. /\ seq'[c] = head /\ Cell(seq'[c]) = c /\ tail' <= seq'[c]
            /\ seq'[c] < head' /\ head' <= seq'[c] + Capacity
        BY <1>n, <1>1, <1>2, <2>1, <2>2
      <3> QED
        BY <3>1 DEF CellInv
    <2>3. CASE c # Cell(head)
      <3>1. CASE Cell(seq[c]) = c /\ head <= seq[c] /\ seq[c] < tail + Capacity
        <4>1. seq[c] # head
          BY <2>3, <3>1
        <4>2. Cell(seq'[c]) = c /\ head' <= seq'[c] /\ seq'[c] < tail' + Capacity
          BY <1>n, <2>1, <3>1, <4>1
        <4> QED
          BY <4>2 DEF CellInv
      <3>2. CASE Cell(seq[c]) = c /\ tail <= seq[c] /\ seq[c] < head /\ head <= seq[c] + Capacity
        <4>1. head # seq[c] + Capacity
          BY <2>1, <2>3, <3>2, CellAfterLap
        <4>2. /\ Cell(seq'[c]) = c /\ tail' <= seq'[c] /\ seq'[c] < head'
              /\ head' <= seq'[c] + Capacity
          BY <1>n, <2>1, <3>2, <4>1
        <4> QED
          BY <4>2 DEF CellInv
      <3>3. CASE /\ seq[c] >= 1 /\ Cell(seq[c] - 1) = c
                 /\ seq[c] - 1 < head /\ head <= seq[c] - 1 + Capacity
                 /\ value[c] = log[seq[c]]
        <4>1. head # (seq[c] - 1) + Capacity
          <5>1. seq[c] - 1 \in Nat
            BY <2>1, <3>3
          <5> QED
            BY <5>1, <2>3, <3>3, CellAfterLap
        <4>2. log'[seq[c]] = log[seq[c]]
          BY <1>n, <1>3, <2>1, <3>3
        <4>3. /\ seq'[c] >= 1 /\ Cell(seq'[c] - 1) = c /\ seq'[c] - 1 < head'
              /\ head' <= seq'[c] - 1 + Capacity
          BY <1>n, <2>1, <3>3, <4>1
        <4>4. value'[c] = log'[seq'[c]]
          BY <2>1, <3>3, <4>2
        <4> QED
          BY <4>3, <4>4 DEF CellInv
      <3> QED
        BY <2>1, <3>1, <3>2, <3>3 DEF CellInv
    <2> QED
      BY <2>2, <2>3
  <1>6. ASSUME NEW u \in Threads PROVE WriterInv(u)' /\ ReaderInv(u)' /\ SawInv(u)'
    <2>1. pos[u] \in Nat /\ pos'[u] = pos[u] /\ arg'[u] = arg[u] /\ UNCHANGED <<tail, seq, value>>
      BY <1>h, <1>0
    <2>2. CASE u = t
      BY <1>h, <1>0, <1>1, <1>2, <1>3, <2>2 DEF WriterInv, ReaderInv, SawInv
    <2>3. CASE u # t
      <3>1. pc'[u] = pc[u] /\ WriterInv(u) /\ ReaderInv(u) /\ SawInv(u)
        BY <1>h, <1>0, <2>3 DEF IInv
      <3>a. pos[u] < head => log'[pos[u] + 1] = log[pos[u] + 1]
        BY <1>n, <1>3, <2>1
      <3>2. WriterInv(u)'
        BY <1>n, <2>1, <3>a, <3>1 DEF WriterInv
      <3>3. ReaderInv(u)'
        BY <1>n, <1>2, <2>1, <3>a, <3>1 DEF ReaderInv
      <3>4. SawInv(u)'
        BY <1>n, <2>1, <3>1 DEF SawInv
      <3> QED
        BY <3>2, <3>3, <3>4
    <2> QED
      BY <2>2, <2>3
  <1>7. ClaimsDiffer'
    <2>1. ASSUME NEW u \in Threads, u # t, Owns(u) PROVE pos[u] # head
      <3>1. WriterInv(u) /\ ReaderInv(u) /\ pos[u] \in Nat
        BY <1>h, <1>0 DEF IInv
      <3> QED
        BY <1>0, <1>2, <2>1, <3>1 DEF Owns, WriterInv, ReaderInv
    <2> QED
      BY <1>h, <1>0, <2>1 DEF IInv, ClaimsDiffer, Owns
  <1> QED
    BY <1>h, <1>3, <1>4, <1>5, <1>6, <1>7 DEF IInv

\* A pop that wins the cursor owns the cell it saw full.
LEMMA StepPopClaim ==
  \A t \in Threads :
    /\ IInv /\ TypeOK' /\ PopCas(t)
    /\ tail = pos[t] /\ tail' = tail + 1
    /\ pos' = pos /\ pc' = [pc EXCEPT ![t] = "popRead"]
    => IInv'
  <1> USE CapacityAssumption, CellInRange
  <1>h. SUFFICES ASSUME NEW t \in Threads, IInv, TypeOK', PopCas(t),
                        tail = pos[t], tail' = tail + 1,
                        pos' = pos, pc' = [pc EXCEPT ![t] = "popRead"]
                 PROVE  IInv'
    OBVIOUS
  <1>0. /\ UNCHANGED <<head, seq, value, arg, log>>
        /\ pc[t] = "popCas" /\ Len(log) = head
        /\ seq \in [Cells -> Nat] /\ pos \in [Threads -> Nat] /\ pc \in [Threads -> Pcs]
    BY <1>h DEF PopCas, IInv, TypeOK
  <1>n. head \in Nat /\ tail \in Nat /\ head' = head /\ tail' = tail + 1
    BY <1>h, <1>0 DEF IInv, TypeOK
  <1>1. seq[Cell(tail)] = tail + 1 /\ Cell(tail) \in Cells
    BY <1>h, <1>0, <1>n DEF IInv, SawInv
  <1>2. tail < head /\ head <= tail + Capacity
    <2>1. CellInv(Cell(tail))
      BY <1>h, <1>1 DEF IInv
    <2>2. Cell(tail + 1) # Cell(tail)
      BY <1>n, CellOfSuccessor
    <2> QED
      BY <1>n, <1>1, <2>1, <2>2 DEF CellInv
  <1>3. CursorsInOrder'
    BY <1>n, <1>2 DEF CursorsInOrder
  <1>4. ASSUME NEW c \in Cells PROVE CellInv(c)'
    <2>1. CellInv(c) /\ seq[c] \in Nat /\ UNCHANGED <<seq, value, log>>
      BY <1>h, <1>0 DEF IInv
    <2>2. ~ (Cell(seq[c]) = c /\ seq[c] = tail)
      <3>1. SUFFICES ASSUME Cell(seq[c]) = c, seq[c] = tail PROVE FALSE
        OBVIOUS
      <3> QED
        BY <1>n, <1>1, <3>1
    <2> QED
      BY <1>n, <2>1, <2>2 DEF CellInv
  <1>5. ASSUME NEW u \in Threads, u # t, Owns(u) PROVE pos[u] # tail
    <2>1. WriterInv(u) /\ ReaderInv(u) /\ pos[u] \in Nat
      BY <1>h, <1>0 DEF IInv
    <2>2. CASE pc[u] \in {"pushWrite", "pushPublish"}
      BY <1>n, <1>1, <2>1, <2>2 DEF WriterInv
    <2>3. CASE pc[u] \in {"popRead", "popRelease"}
      BY <1>n, <2>1, <2>3 DEF ReaderInv
    <2> QED
      BY <1>5, <2>2, <2>3 DEF Owns
  <1>6. ASSUME NEW u \in Threads PROVE WriterInv(u)' /\ ReaderInv(u)' /\ SawInv(u)'
    <2>1. pos[u] \in Nat /\ UNCHANGED <<pos, arg, seq, value, log>>
      BY <1>h, <1>0
    <2>2. CASE u = t
      BY <1>h, <1>0, <1>n, <1>1, <2>2 DEF WriterInv, ReaderInv, SawInv
    <2>3. CASE u # t
      <3>1. pc'[u] = pc[u] /\ WriterInv(u) /\ ReaderInv(u) /\ SawInv(u)
        BY <1>h, <1>0, <2>3 DEF IInv
      <3>2. WriterInv(u)'
        BY <1>n, <1>5, <2>1, <2>3, <3>1 DEF WriterInv, Owns
      <3>3. ReaderInv(u)'
        BY <1>n, <2>1, <3>1 DEF ReaderInv
      <3>4. SawInv(u)'
        BY <1>n, <2>1, <3>1 DEF SawInv
      <3> QED
        BY <3>2, <3>3, <3>4
    <2> QED
      BY <2>2, <2>3
  <1>7. ClaimsDiffer'
    BY <1>h, <1>0, <1>5 DEF IInv, ClaimsDiffer, Owns
  <1> QED
    BY <1>h, <1>0, <1>3, <1>4, <1>6, <1>7 DEF IInv

\* The owner of a free cell fills it.
LEMMA StepPushWrite ==
  \A t \in Threads : IInv /\ TypeOK' /\ PushWrite(t) => IInv'
  <1> USE CellInRange
  <1>h. SUFFICES ASSUME NEW t \in Threads, IInv, TypeOK', PushWrite(t) PROVE IInv'
    OBVIOUS
  <1>0. /\ UNCHANGED <<head, tail, seq, pos, arg, log>>
        /\ pc[t] = "pushWrite" /\ pc' = [pc EXCEPT ![t] = "pushPublish"]
        /\ value' = [value EXCEPT ![Cell(pos[t])] = arg[t]]
        /\ value \in [Cells -> Values] /\ pc \in [Threads -> Pcs] /\ pos \in [Threads -> Nat]
        /\ seq \in [Cells -> Nat]
    BY <1>h DEF PushWrite, Goto, IInv, TypeOK
  <1>1. seq[Cell(pos[t])] = pos[t] /\ Cell(pos[t]) \in Cells
    BY <1>h, <1>0 DEF IInv, WriterInv
  <1>2. ASSUME NEW c \in Cells PROVE CellInv(c)'
    <2>1. CellInv(c)
      BY <1>h DEF IInv
    <2>2. CASE c = Cell(pos[t])
      <3>1. Cell(seq[c]) = c
        BY <1>1, <2>2
      <3>2. ~ (seq[c] >= 1 /\ Cell(seq[c] - 1) = c)
        BY <1>h, <3>1, CellStates DEF IInv
      <3> QED
        BY <1>0, <2>1, <3>2 DEF CellInv
    <2>3. CASE c # Cell(pos[t])
      BY <1>0, <2>1, <2>3 DEF CellInv
    <2> QED
      BY <2>2, <2>3
  <1>3. ASSUME NEW u \in Threads PROVE WriterInv(u)' /\ ReaderInv(u)' /\ SawInv(u)'
    <2>0. WriterInv(u) /\ ReaderInv(u) /\ SawInv(u) /\ Cell(pos[u]) \in Cells
      BY <1>h, <1>0 DEF IInv
    <2>1. CASE u = t
      BY <1>0, <1>1, <2>0, <2>1 DEF WriterInv, ReaderInv, SawInv
    <2>2. CASE u # t
      <3>1. Owns(u) => Cell(pos[u]) # Cell(pos[t])
        BY <1>h, <1>0, <2>2, OwnersApart DEF NoCellRace, Owns
      <3> QED
        BY <1>0, <2>0, <2>2, <3>1 DEF WriterInv, ReaderInv, SawInv, Owns
    <2> QED
      BY <2>1, <2>2
  <1>4. ClaimsDiffer'
    BY <1>h, <1>0 DEF IInv, ClaimsDiffer, Owns
  <1> QED
    BY <1>h, <1>0, <1>2, <1>3, <1>4 DEF IInv, CursorsInOrder

\* The owner of a filled cell hands it over to the poppers.
LEMMA StepPushPublish ==
  \A t \in Threads : IInv /\ TypeOK' /\ PushPublish(t) => IInv'
  <1> USE CellInRange, CapacityAssumption
  <1>h. SUFFICES ASSUME NEW t \in Threads, IInv, TypeOK', PushPublish(t) PROVE IInv'
    OBVIOUS
  <1>0. /\ UNCHANGED <<head, tail, value, pos, arg, log>>
        /\ pc[t] = "pushPublish" /\ pc' = [pc EXCEPT ![t] = "idle"]
        /\ seq' = [seq EXCEPT ![Cell(pos[t])] = pos[t] + 1]
        /\ pc \in [Threads -> Pcs] /\ pos \in [Threads -> Nat] /\ seq \in [Cells -> Nat]
    BY <1>h DEF PushPublish, Goto, IInv, TypeOK
  <1>n. head \in Nat /\ tail \in Nat /\ pos[t] \in Nat /\ Cell(pos[t]) \in Cells
    BY <1>h, <1>0 DEF IInv, TypeOK
  <1>1. /\ seq[Cell(pos[t])] = pos[t] /\ tail <= pos[t] /\ pos[t] < head
        /\ value[Cell(pos[t])] = log[pos[t] + 1]
    BY <1>h, <1>0 DEF IInv, WriterInv
  <1>2. head <= pos[t] + Capacity
    <2>1. CellInv(Cell(pos[t]))
      BY <1>h, <1>n DEF IInv
    <2>2. ~ (pos[t] >= 1 /\ Cell(pos[t] - 1) = Cell(pos[t]))
      BY <1>h, <1>n, <1>1, CellStates DEF IInv
    <2> QED
      BY <1>n, <1>1, <2>1, <2>2 DEF CellInv
  <1>3. ASSUME NEW c \in Cells PROVE CellInv(c)'
    <2>1. CellInv(c)
      BY <1>h DEF IInv
    <2>2. CASE c = Cell(pos[t])
      <3>1. seq'[c] = pos[t] + 1 /\ value'[c] = log'[pos[t] + 1] /\ head' = head
        BY <1>0, <1>1, <2>2
      <3>2. seq'[c] >= 1 /\ seq'[c] - 1 = pos[t]
        BY <1>n, <3>1
      <3> QED
        BY <1>1, <1>2, <2>2, <3>1, <3>2 DEF CellInv
    <2>3. CASE c # Cell(pos[t])
      BY <1>0, <2>1, <2>3 DEF CellInv
    <2> QED
      BY <2>2, <2>3
  <1>4. ASSUME NEW u \in Threads PROVE WriterInv(u)' /\ ReaderInv(u)' /\ SawInv(u)'
    <2>0. /\ WriterInv(u) /\ ReaderInv(u) /\ SawInv(u)
          /\ pos[u] \in Nat /\ Cell(pos[u]) \in Cells
      BY <1>h, <1>0 DEF IInv
    <2>1. CASE u = t
      BY <1>0, <2>1 DEF WriterInv, ReaderInv, SawInv
    <2>2. CASE u # t
      <3>0. pc'[u] = pc[u]
        BY <1>0, <2>2
      <3>1. Cell(pos[u]) # Cell(pos[t]) => seq'[Cell(pos[u])] = seq[Cell(pos[u])]
        BY <1>0, <2>0
      <3>2. Owns(u) => Cell(pos[u]) # Cell(pos[t])
        BY <1>h, <1>0, <2>2, OwnersApart DEF NoCellRace, Owns
      <3>3. WriterInv(u)' /\ ReaderInv(u)'
        BY <1>0, <2>0, <3>0, <3>1, <3>2 DEF WriterInv, ReaderInv, Owns
      <3>4. (pc[u] = "pushCas" /\ head = pos[u]) => Cell(pos[u]) # Cell(pos[t])
        BY <1>n, <1>1, <2>0 DEF SawInv
      <3>5. (pc[u] = "popCas" /\ tail = pos[u]) => Cell(pos[u]) # Cell(pos[t])
        <4>1. SUFFICES ASSUME pc[u] = "popCas", tail = pos[u], Cell(pos[u]) = Cell(pos[t])
                       PROVE  FALSE
          OBVIOUS
        <4>2. pos[t] = pos[u] + 1
          BY <1>1, <2>0, <4>1 DEF SawInv
        <4> QED
          BY <2>0, <4>1, <4>2, CellOfSuccessor
      <3>6. SawInv(u)'
        BY <1>0, <2>0, <3>0, <3>1, <3>4, <3>5 DEF SawInv
      <3> QED
        BY <3>3, <3>6
    <2> QED
      BY <2>1, <2>2
  <1>5. ClaimsDiffer'
    BY <1>h, <1>0 DEF IInv, ClaimsDiffer, Owns
  <1> QED
    BY <1>h, <1>0, <1>3, <1>4, <1>5 DEF IInv, CursorsInOrder

\* The owner of a full cell reads what was pushed there.
LEMMA StepPopRead ==
  \A t \in Threads : IInv /\ TypeOK' /\ PopRead(t) => IInv'
  <1> USE CellInRange
  <1>h. SUFFICES ASSUME NEW t \in Threads, IInv, TypeOK', PopRead(t) PROVE IInv'
    OBVIOUS
  <1>0. /\ UNCHANGED <<head, tail, seq, value, pos, log>>
        /\ pc[t] = "popRead" /\ pc' = [pc EXCEPT ![t] = "popRelease"]
        /\ arg' = [arg EXCEPT ![t] = value[Cell(pos[t])]]
        /\ pc \in [Threads -> Pcs] /\ pos \in [Threads -> Nat] /\ seq \in [Cells -> Nat]
        /\ arg \in [Threads -> Values]
    BY <1>h DEF PopRead, Goto, IInv, TypeOK
  <1>1. /\ seq[Cell(pos[t])] = pos[t] + 1 /\ pos[t] < tail
        /\ pos[t] \in Nat /\ Cell(pos[t]) \in Cells
    BY <1>h, <1>0 DEF IInv, ReaderInv
  <1>2. value[Cell(pos[t])] = log[pos[t] + 1]
    <2>1. CellInv(Cell(pos[t]))
      BY <1>h, <1>1 DEF IInv
    <2>2. Cell(pos[t] + 1) # Cell(pos[t])
      BY <1>1, CellOfSuccessor
    <2> QED
      BY <1>1, <2>1, <2>2 DEF CellInv
  <1>3. ASSUME NEW c \in Cells PROVE CellInv(c)'
    BY <1>h, <1>0 DEF IInv, CellInv
  <1>4. ASSUME NEW u \in Threads PROVE WriterInv(u)' /\ ReaderInv(u)' /\ SawInv(u)'
    <2>0. WriterInv(u) /\ ReaderInv(u) /\ SawInv(u)
      BY <1>h DEF IInv
    <2>1. CASE u = t
      BY <1>0, <1>1, <1>2, <2>1 DEF WriterInv, ReaderInv, SawInv
    <2>2. CASE u # t
      BY <1>0, <2>0, <2>2 DEF WriterInv, ReaderInv, SawInv
    <2> QED
      BY <2>1, <2>2
  <1>5. ClaimsDiffer'
    BY <1>h, <1>0 DEF IInv, ClaimsDiffer, Owns
  <1> QED
    BY <1>h, <1>0, <1>3, <1>4, <1>5 DEF IInv, CursorsInOrder

\* The owner of a cell it has read frees it for the next lap.
LEMMA StepPopRelease ==
  \A t \in Threads : IInv /\ TypeOK' /\ PopRelease(t) => IInv'
  <1> USE CellInRange, CapacityAssumption
  <1>h. SUFFICES ASSUME NEW t \in Threads, IInv, TypeOK', PopRelease(t) PROVE IInv'
    OBVIOUS
  <1>0. /\ UNCHANGED <<head, tail, value, pos, arg, log>>
        /\ pc[t] = "popRelease" /\ pc' = [pc EXCEPT ![t] = "idle"]
        /\ seq' = [seq EXCEPT ![Cell(pos[t])] = pos[t] + Capacity]
        /\ pc \in [Threads -> Pcs] /\ pos \in [Threads -> Nat] /\ seq \in [Cells -> Nat]
    BY <1>h DEF PopRelease, Goto, IInv, TypeOK
  <1>n. head \in Nat /\ tail \in Nat /\ pos[t] \in Nat /\ Cell(pos[t]) \in Cells
    BY <1>h, <1>0 DEF IInv, TypeOK
  <1>1. seq[Cell(pos[t])] = pos[t] + 1 /\ pos[t] < tail
    BY <1>h, <1>0 DEF IInv, ReaderInv
  <1>2. head <= pos[t] + Capacity
    <2>1. CellInv(Cell(pos[t]))
      BY <1>h, <1>n DEF IInv
    <2>2. Cell(pos[t] + 1) # Cell(pos[t])
      BY <1>n, CellOfSuccessor
    <2> QED
      BY <1>n, <1>1, <2>1, <2>2 DEF CellInv
  <1>3. ASSUME NEW c \in Cells PROVE CellInv(c)'
    <2>1. CellInv(c)
      BY <1>h DEF IInv
    <2>2. CASE c = Cell(pos[t])
      <3>1. seq'[c] = pos[t] + Capacity /\ Cell(pos[t] + Capacity) = c
        BY <1>0, <1>n, <2>2, CellAfterLap
      <3>2. head' <= seq'[c] /\ seq'[c] < tail' + Capacity
        BY <1>0, <1>n, <1>1, <1>2, <3>1
      <3> QED
        BY <3>1, <3>2 DEF CellInv
    <2>3. CASE c # Cell(pos[t])
      BY <1>0, <2>1, <2>3 DEF CellInv
    <2> QED
      BY <2>2, <2>3
  <1>4. ASSUME NEW u \in Threads PROVE WriterInv(u)' /\ ReaderInv(u)' /\ SawInv(u)'
    <2>0. /\ WriterInv(u) /\ ReaderInv(u) /\ SawInv(u)
          /\ pos[u] \in Nat /\ Cell(pos[u]) \in Cells
      BY <1>h, <1>0 DEF IInv
    <2>1. CASE u = t
      BY <1>0, <2>1 DEF WriterInv, ReaderInv, SawInv
    <2>2. CASE u # t
      <3>0. pc'[u] = pc[u]
        BY <1>0, <2>2
      <3>1. Cell(pos[u]) # Cell(pos[t]) => seq'[Cell(pos[u])] = seq[Cell(pos[u])]
        BY <1>0, <2>0
      <3>2. Owns(u) => Cell(pos[u]) # Cell(pos[t])
        BY <1>h, <1>0, <2>2, OwnersApart DEF NoCellRace, Owns
      <3>3. WriterInv(u)' /\ ReaderInv(u)'
        BY <1>0, <2>0, <3>0, <3>1, <3>2 DEF WriterInv, ReaderInv, Owns
      <3>4. (pc[u] = "pushCas" /\ head = pos[u]) => Cell(pos[u]) # Cell(pos[t])
        <4>1. SUFFICES ASSUME pc[u] = "pushCas", head = pos[u], Cell(pos[u]) = Cell(pos[t])
                       PROVE  FALSE
          OBVIOUS
        <4>2. pos[u] = pos[t] + 1
          BY <1>1, <2>0, <4>1 DEF SawInv
        <4> QED
          BY <1>n, <4>1, <4>2, CellOfSuccessor
      <3>5. (pc[u] = "popCas" /\ tail = pos[u]) => Cell(pos[u]) # Cell(pos[t])
        BY <1>n, <1>1, <2>0 DEF SawInv
      <3>6. SawInv(u)'
        BY <1>0, <2>0, <3>0, <3>1, <3>4, <3>5 DEF SawInv
      <3> QED
        BY <3>3, <3>6
    <2> QED
      BY <2>1, <2>2
  <1>5. ClaimsDiffer'
    BY <1>h, <1>0 DEF IInv, ClaimsDiffer, Owns
  <1> QED
    BY <1>h, <1>0, <1>3, <1>4, <1>5 DEF IInv, CursorsInOrder

\* Every step preserves the invariant.
LEMMA NextInv == IInv /\ [Next]_vars => IInv'
  <1>h. SUFFICES ASSUME IInv, [Next]_vars PROVE IInv'
    OBVIOUS
  <1>t. TypeOK /\ TypeOK'
    BY <1>h, NextType DEF IInv
  <1>1. ASSUME NEW t \in Threads, NEW v \in Values, PushLoadHead(t, v) PROVE IInv'
    <2>1. ~ Owns(t) /\ ~ Owns(t)' /\ SawInv(t)'
      BY <1>1, <1>t DEF PushLoadHead, Goto, Owns, SawInv, TypeOK
    <2> QED
      BY <1>h, <1>t, <1>1, <2>1, RingUntouched DEF PushLoadHead, Goto, TypeOK
  <1>2. ASSUME NEW t \in Threads, PushLoadSeq(t) PROVE IInv'
    <2>1. ~ Owns(t) /\ ~ Owns(t)'
      BY <1>2, <1>t DEF PushLoadSeq, Goto, Owns, TypeOK
    <2>2. SawInv(t)'
      <3>1. pos[t] \in Nat /\ head \in Nat /\ pos[t] <= head /\ Cell(pos[t]) \in Cells
        BY <1>h, <1>t, <1>2, CellInRange DEF PushLoadSeq, IInv, SawInv, TypeOK
      <3>2. \/ pc'[t] = "pushCas" /\ pos' = pos /\ seq[Cell(pos[t])] - pos[t] = 0
            \/ pc'[t] = "idle"
            \/ pc'[t] = "pushSeq" /\ pos'[t] = head
        BY <1>2, <1>t DEF PushLoadSeq, Goto, TypeOK
      <3>3. seq[Cell(pos[t])] \in Nat
        BY <1>t, <3>1 DEF TypeOK
      <3>4. UNCHANGED <<head, seq>>
        BY <1>2 DEF PushLoadSeq
      <3> QED
        BY <3>1, <3>2, <3>3, <3>4 DEF SawInv
    <2>3. \A u \in Threads \ {t} : pc'[u] = pc[u] /\ pos'[u] = pos[u] /\ arg'[u] = arg[u]
      BY <1>2, <1>t DEF PushLoadSeq, Goto, TypeOK
    <2> QED
      BY <1>h, <1>t, <1>2, <2>1, <2>2, <2>3, RingUntouched DEF PushLoadSeq
  <1>3. ASSUME NEW t \in Threads, PushCas(t) PROVE IInv'
    <2>1. CASE /\ head = pos[t] /\ head' = head + 1 /\ log' = Append(log, arg[t])
               /\ Goto(t, "pushWrite") /\ UNCHANGED pos
      BY <1>h, <1>t, <1>3, <2>1, StepPushClaim DEF Goto
    <2>2. CASE pos' = [pos EXCEPT ![t] = head] /\ Goto(t, "pushSeq") /\ UNCHANGED <<head, log>>
      <3>1. ~ Owns(t) /\ ~ Owns(t)' /\ SawInv(t)'
        BY <1>3, <1>t, <2>2 DEF PushCas, Goto, Owns, SawInv, TypeOK
      <3> QED
        BY <1>h, <1>t, <1>3, <2>2, <3>1, RingUntouched DEF PushCas, Goto, TypeOK
    <2> QED
      BY <1>3, <2>1, <2>2 DEF PushCas
  <1>4. ASSUME NEW t \in Threads, PopLoadTail(t) PROVE IInv'
    <2>1. ~ Owns(t) /\ ~ Owns(t)' /\ SawInv(t)'
      BY <1>4, <1>t DEF PopLoadTail, Goto, Owns, SawInv, TypeOK
    <2> QED
      BY <1>h, <1>t, <1>4, <2>1, RingUntouched DEF PopLoadTail, Goto, TypeOK
  <1>5. ASSUME NEW t \in Threads, PopLoadSeq(t) PROVE IInv'
    <2>1. ~ Owns(t) /\ ~ Owns(t)'
      BY <1>5, <1>t DEF PopLoadSeq, Goto, Owns, TypeOK
    <2>2. SawInv(t)'
      <3>1. pos[t] \in Nat /\ tail \in Nat /\ pos[t] <= tail /\ Cell(pos[t]) \in Cells
        BY <1>h, <1>t, <1>5, CellInRange DEF PopLoadSeq, IInv, SawInv, TypeOK
      <3>2. \/ pc'[t] = "popCas" /\ pos' = pos /\ seq[Cell(pos[t])] - (pos[t] + 1) = 0
            \/ pc'[t] = "idle"
            \/ pc'[t] = "popSeq" /\ pos'[t] = tail
        BY <1>5, <1>t DEF PopLoadSeq, Goto, TypeOK
      <3>3. seq[Cell(pos[t])] \in Nat
        BY <1>t, <3>1 DEF TypeOK
      <3>4. UNCHANGED <<tail, seq>>
        BY <1>5 DEF PopLoadSeq
      <3> QED
        BY <3>1, <3>2, <3>3, <3>4 DEF SawInv
    <2>3. \A u \in Threads \ {t} : pc'[u] = pc[u] /\ pos'[u] = pos[u] /\ arg'[u] = arg[u]
      BY <1>5, <1>t DEF PopLoadSeq, Goto, TypeOK
    <2> QED
      BY <1>h, <1>t, <1>5, <2>1, <2>2, <2>3, RingUntouched DEF PopLoadSeq
  <1>6. ASSUME NEW t \in Threads, PopCas(t) PROVE IInv'
    <2>1. CASE tail = pos[t] /\ tail' = tail + 1 /\ Goto(t, "popRead") /\ UNCHANGED pos
      BY <1>h, <1>t, <1>6, <2>1, StepPopClaim DEF Goto
    <2>2. CASE pos' = [pos EXCEPT ![t] = tail] /\ Goto(t, "popSeq") /\ UNCHANGED tail
      <3>1. ~ Owns(t) /\ ~ Owns(t)' /\ SawInv(t)'
        BY <1>6, <1>t, <2>2 DEF PopCas, Goto, Owns, SawInv, TypeOK
      <3> QED
        BY <1>h, <1>t, <1>6, <2>2, <3>1, RingUntouched DEF PopCas, Goto, TypeOK
    <2> QED
      BY <1>6, <2>1, <2>2 DEF PopCas
  <1>7. ASSUME NEW t \in Threads, PushWrite(t) \/ PushPublish(t) \/ PopRead(t) \/ PopRelease(t)
        PROVE  IInv'
    BY <1>h, <1>t, <1>7, StepPushWrite, StepPushPublish, StepPopRead, StepPopRelease
  <1>8. CASE UNCHANGED vars
    BY <1>h, <1>8 DEF vars, IInv, TypeOK, CursorsInOrder, CellInv, WriterInv, ReaderInv,
                      SawInv, ClaimsDiffer, Owns
  <1> QED
    BY <1>h, <1>1, <1>2, <1>3, <1>4, <1>5, <1>6, <1>7, <1>8 DEF Next, Push, Pop

-----------------------------------------------------------------------------
(* The theorems *)

\* The inductive invariant holds in every reachable state.
THEOREM InvariantHolds == Spec => []IInv
  <1> QED
    BY InitInv, NextInv, PTL DEF Spec

\* Every variable keeps its type, for any number of threads and cells.
THEOREM TypeCorrect == Spec => []TypeOK
  <1>1. IInv => TypeOK
    BY DEF IInv
  <1> QED
    BY <1>1, InvariantHolds, PTL

\* The unsynchronised accesses of a cell's payload never race.
THEOREM CellsAreExclusive == Spec => []NoCellRace
  BY InvariantHolds, OwnersApart, PTL

\* Every pop returns the value pushed at the position it claimed.
THEOREM PopsArePushes == Spec => []PopsWhatWasPushed
  <1>1. IInv => PopsWhatWasPushed
    <2> SUFFICES ASSUME IInv, NEW t \in Threads, pc[t] = "popRelease"
                 PROVE  pos[t] < Len(log) /\ arg[t] = log[pos[t] + 1]
      BY DEF PopsWhatWasPushed
    <2>1. ReaderInv(t) /\ tail <= head /\ Len(log) = head
      BY DEF IInv, CursorsInOrder
    <2>2. pos[t] \in Nat /\ head \in Nat /\ tail \in Nat
      BY DEF IInv, TypeOK
    <2> QED
      BY <2>1, <2>2 DEF ReaderInv
  <1> QED
    BY <1>1, InvariantHolds, PTL

\* The consumer cursor never passes the producer cursor, which never laps it.
THEOREM CursorsStayInOrder == Spec => []CursorsInOrder
  <1>1. IInv => CursorsInOrder
    BY DEF IInv
  <1> QED
    BY <1>1, InvariantHolds, PTL
=============================================================================
