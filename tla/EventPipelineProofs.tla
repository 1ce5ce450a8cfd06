------------------------- MODULE EventPipelineProofs --------------------------
(***************************************************************************)
(* The event pipeline for every length of chunks, callbacks and steps,     *)
(* every room of the queue and every number of operations:                 *)
(*                                                                         *)
(* - The state stays in its types, the queue within its room.              *)
(*                                                                         *)
(* - Starts, stops and switches lose no event of the pattern that plays    *)
(*   afterwards.  The UI publishes the transport under ever later epochs,  *)
(*   and the scheduler and the callback know older and older versions of   *)
(*   it.  The invariant says that who knows the same epoch knows the same  *)
(*   transport, and that an event is one of an epoch that played.          *)
(*                                                                         *)
(* - With starts, stops and switches only, the steps of an epoch sound in  *)
(*   turn, as long as the queue never overflows.  What has been dispatched *)
(*   and what is on its way (the heap, then the queue) are one sequence    *)
(*   of steps per epoch, later and later in time, and the clock stands at  *)
(*   the end of it: the invariant (Turns) joins the three.                 *)
(*                                                                         *)
(* - A switch or a live note does not disturb the musical phase, as long   *)
(*   as no chunk is given up and the scheduler is never a whole horizon    *)
(*   late.  The invariant (Phased) says that a seek finds as much to set   *)
(*   the clock back by as it needs.                                        *)
(*                                                                         *)
(* - A track is deleted while the scheduler stands still.                  *)
(*   The UI waits until the scheduler has acknowledged its edit.  From     *)
(*   then on the scheduler has to stay away from the queue although it     *)
(*   goes on with its loop: each pass reads the ids of the edit, then its  *)
(*   kind, and acts on both much later.  The invariant says of the values  *)
(*   it holds in between that they still tell it to stand still, and of    *)
(*   those it holds when the edit is requested that they cannot            *)
(*   acknowledge it.                                                       *)
(***************************************************************************)
EXTENDS EventPipeline, DataLemmas, FiniteSetTheorems, TLAPS

-----------------------------------------------------------------------------
(* Lists in order *)

\* R orders the members of S.
Orders(R, S) ==
  /\ \A x, y \in S : <<x, y>> \in R \/ <<y, x>> \in R
  /\ \A x, y \in S : <<x, y>> \in R /\ <<y, x>> \in R => x = y
  /\ \A x, y, z \in S : <<x, y>> \in R /\ <<y, z>> \in R => <<x, z>> \in R

\* InOrder lists each member of a set once and in the order R: the number of
\* members up to one of them is a bijection to its places.
LEMMA InOrderLists ==
  ASSUME NEW S, NEW R, IsFiniteSet(S), Orders(R, S)
  PROVE  /\ Cardinality(S) \in Nat
         /\ InOrder(S, R) \in [1..Cardinality(S) -> S]
         /\ \A x \in S : \E k \in 1..Cardinality(S) : InOrder(S, R)[k] = x
         /\ \A k, l \in 1..Cardinality(S) :
              k < l => /\ <<InOrder(S, R)[k], InOrder(S, R)[l]>> \in R
                       /\ InOrder(S, R)[k] # InOrder(S, R)[l]
<1> DEFINE n == Cardinality(S)
           Down(x) == {y \in S : <<y, x>> \in R}
           rank == [x \in S |-> Cardinality(Down(x))]
           f == InOrder(S, R)
<1>1. n \in Nat /\ IsFiniteSet(1..n) /\ Cardinality(1..n) = n
  BY FS_CardinalityType, FS_Interval
<1>2. \A x \in S : /\ IsFiniteSet(Down(x)) /\ Down(x) \subseteq S /\ x \in Down(x)
                   /\ Cardinality(Down(x)) \in 1..n
  <2> SUFFICES ASSUME NEW x \in S
               PROVE  /\ IsFiniteSet(Down(x)) /\ Down(x) \subseteq S /\ x \in Down(x)
                      /\ Cardinality(Down(x)) \in 1..n
    OBVIOUS
  <2>1. Down(x) \in SUBSET S /\ x \in Down(x)
    BY DEF Orders
  <2> HIDE DEF Down
  <2>2. IsFiniteSet(Down(x)) /\ Cardinality(Down(x)) <= n
    BY <2>1, FS_Subset
  <2>3. Cardinality(Down(x)) \in Nat /\ Cardinality(Down(x)) # 0
    BY <2>1, <2>2, FS_CardinalityType, FS_EmptySet
  <2>. QED  BY <1>1, <2>1, <2>2, <2>3
<1>3. ASSUME NEW x \in S, NEW y \in S, <<x, y>> \in R
      PROVE  /\ rank[x] <= rank[y]
             /\ rank[x] = rank[y] => x = y
  <2>1. Down(x) \in SUBSET Down(y)
    BY <1>3 DEF Orders
  <2>2. y \in Down(x) => x = y
    BY <1>3 DEF Orders
  <2> HIDE DEF Down
  <2>3. /\ Cardinality(Down(x)) <= Cardinality(Down(y))
        /\ Cardinality(Down(y)) = Cardinality(Down(x)) => Down(y) = Down(x)
    BY <1>2, <2>1, FS_Subset
  <2>. QED  BY <1>2, <2>2, <2>3
<1>4. rank \in [S -> 1..n]
  <2> HIDE DEF Down, n
  <2>. QED  BY <1>2
<1> HIDE DEF rank
<1>5. \A x, y \in S : rank[x] = rank[y] => x = y
  BY <1>3 DEF Orders
<1>6. rank \in Surjection(S, 1..n)
  <2>1. rank \in Injection(S, 1..n)
    BY <1>4, <1>5 DEF Injection, IsInjective
  <2>. QED  BY <1>1, <2>1, FS_Injection
<1>7. ASSUME NEW k \in 1..n PROVE f[k] \in S /\ rank[f[k]] = k
  <2>1. PICK x \in S : rank[x] = k
    BY <1>6 DEF Surjection
  <2>2. f[k] = CHOOSE z \in S : Cardinality(Down(z)) = k
    BY DEF InOrder
  <2> HIDE DEF Down, f
  <2>3. \A z \in S : rank[z] = Cardinality(Down(z))
    BY DEF rank
  <2>4. Cardinality(Down(x)) = k
    BY <2>1, <2>3
  <2>. QED  BY <2>2, <2>3, <2>4
<1>8. f \in [1..n -> S]
  <2> DEFINE place(k) == CHOOSE z \in S : Cardinality(Down(z)) = k
  <2>1. f = [k \in 1..n |-> place(k)]
    BY DEF InOrder
  <2> HIDE DEF f, n, place
  <2>. QED  BY <1>7, <2>1
<1> HIDE DEF f
<1>9. ASSUME NEW x \in S PROVE \E k \in 1..n : f[k] = x
  BY <1>4, <1>5, <1>7
<1>10. ASSUME NEW k \in 1..n, NEW l \in 1..n, k < l
       PROVE  <<f[k], f[l]>> \in R /\ f[k] # f[l]
  <2>1. /\ f[k] \in S /\ f[l] \in S /\ rank[f[k]] = k /\ rank[f[l]] = l
    BY <1>7
  <2>2. ~ (<<f[l], f[k]>> \in R)
    BY <1>1, <1>3, <1>10, <2>1
  <2>. QED  BY <1>1, <1>10, <2>1, <2>2 DEF Orders
<1>. QED  BY <1>1, <1>8, <1>9, <1>10 DEF f

\* InOrder is the enumeration that goes up in R, if there is one.
LEMMA InOrderIs ==
  ASSUME NEW S, NEW R, NEW n \in Nat, NEW g \in [1..n -> S],
         \A x \in S : \E k \in 1..n : g[k] = x,
         \A k, l \in 1..n : <<g[k], g[l]>> \in R <=> k <= l
  PROVE  Cardinality(S) = n /\ InOrder(S, R) = g
<1>1. \A k, l \in 1..n : g[k] = g[l] => k = l
  <2> SUFFICES ASSUME NEW k \in 1..n, NEW l \in 1..n, g[k] = g[l] PROVE k = l
    OBVIOUS
  <2>1. <<g[k], g[l]>> \in R <=> k <= l
    OBVIOUS
  <2>2. <<g[l], g[k]>> \in R <=> l <= k
    OBVIOUS
  <2>3. <<g[k], g[k]>> \in R <=> k <= k
    OBVIOUS
  <2>. QED  BY <2>1, <2>2, <2>3
<1>2. Cardinality(S) = n
  <2>1. g \in Bijection(1..n, S)
    BY <1>1 DEF Bijection, Injection, IsInjective, Surjection
  <2>. QED  BY <2>1, FS_CountingElements DEF ExistsBijection
<1> DEFINE Down(x) == {y \in S : <<y, x>> \in R}
<1>3. ASSUME NEW k \in 1..n PROVE Cardinality(Down(g[k])) = k
  <2> DEFINE h == [l \in 1..k |-> g[l]]
             D == Down(g[k])
  <2>1. k \in Nat /\ 1..k \subseteq 1..n
    OBVIOUS
  <2>2. \A l \in 1..k : g[l] \in D
    BY <2>1
  <2>3. \A y \in D : \E l \in 1..k : g[l] = y
    <3> SUFFICES ASSUME NEW y \in D PROVE \E l \in 1..k : g[l] = y
      OBVIOUS
    <3>1. PICK l \in 1..n : g[l] = y
      OBVIOUS
    <3>2. l <= k
      BY <3>1
    <3>. QED  BY <3>1, <3>2
  <2> HIDE DEF D
  <2>4. h \in Bijection(1..k, D)
    <3>1. h \in [1..k -> D] /\ \A l \in 1..k : h[l] = g[l]
      BY <2>2
    <3> HIDE DEF h
    <3>. QED
      BY <1>1, <2>1, <2>3, <3>1 DEF Bijection, Injection, IsInjective, Surjection
  <2>5. Cardinality(D) = k
    BY <2>1, <2>4, FS_CountingElements DEF ExistsBijection
  <2>. QED  BY <2>5 DEF D
<1> DEFINE place(k) == CHOOSE x \in S : Cardinality(Down(x)) = k
<1>4. InOrder(S, R) = [k \in 1..n |-> place(k)]
  BY <1>2 DEF InOrder
<1> HIDE DEF Down
<1>5. \A k \in 1..n : place(k) = g[k]
  <2> SUFFICES ASSUME NEW k \in 1..n PROVE place(k) = g[k]
    OBVIOUS
  <2>1. g[k] \in S /\ Cardinality(Down(g[k])) = k
    BY <1>3
  <2>2. place(k) \in S /\ Cardinality(Down(place(k))) = k
    BY <2>1
  <2> HIDE DEF place
  <2>3. PICK l \in 1..n : g[l] = place(k)
    BY <2>2
  <2>. QED  BY <1>3, <2>2, <2>3
<1> HIDE DEF place
<1>6. InOrder(S, R) = g
  BY <1>4, <1>5
<1>. QED  BY <1>2, <1>6

\* The positions up to a set of numbers are listed upwards.
LEMMA UpwardsLists ==
  ASSUME NEW a \in Nat, NEW b \in Nat, NEW P \in SUBSET (a..b)
  PROVE  /\ Cardinality(P) \in Nat
         /\ Upwards(P) \in Seq(P)
         /\ Len(Upwards(P)) = Cardinality(P)
         /\ DOMAIN Upwards(P) = 1..Cardinality(P)
<1> DEFINE R == {pq \in P \X P : pq[1] <= pq[2]}
<1>1. IsFiniteSet(P)
  <2>1. IsFiniteSet(a..b)
    BY FS_Interval
  <2>. QED  BY <2>1, FS_Subset
<1>2. Orders(R, P)
  <2>1. \A p, q \in P : <<p, q>> \in R <=> p <= q
    OBVIOUS
  <2> HIDE DEF R
  <2>. QED  BY <2>1 DEF Orders
<1> HIDE DEF R
<1>3. Cardinality(P) \in Nat /\ InOrder(P, R) \in [1..Cardinality(P) -> P]
  BY <1>1, <1>2, InOrderLists
<1>. QED  BY <1>3, FunctionIsSeq DEF Upwards, R

\* The heap pops what it is asked for.
LEMMA PoppedLists ==
  ASSUME NEW s \in Seq(Events), NEW I \in SUBSET DOMAIN s
  PROVE  /\ Popped(s, I) \in Seq(Events)
         /\ \A i \in I : \E k \in DOMAIN Popped(s, I) : Popped(s, I)[k] = s[i]
         /\ \A k \in DOMAIN Popped(s, I) : \E i \in I : Popped(s, I)[k] = s[i]
<1> DEFINE R == {ij \in I \X I : PopsBefore(s, ij[1], ij[2])}
           o == InOrder(I, R)
           n == Cardinality(I)
<1>1. IsFiniteSet(I)
  <2>1. DOMAIN s = 1..Len(s) /\ Len(s) \in Nat
    BY LenProperties
  <2>2. IsFiniteSet(DOMAIN s)
    BY <2>1, FS_Interval
  <2>. QED  BY <2>2, FS_Subset
<1>2. Orders(R, I)
  <2>1. \A i \in I : i \in Nat /\ s[i] \in Events
    BY LenProperties
  <2>2. \A i \in I : i \in Nat /\ s[i].time \in Nat
    BY <2>1 DEF Events
  <2>3. \A i, j \in I : <<i, j>> \in R <=> PopsBefore(s, i, j)
    OBVIOUS
  <2> HIDE DEF R
  <2> DEFINE t == [i \in I |-> s[i].time]
  <2>4. /\ t \in [I -> Nat] /\ I \subseteq Nat
        /\ \A i, j \in I : <<i, j>> \in R <=> t[i] < t[j] \/ (t[i] = t[j] /\ i <= j)
    BY <2>2, <2>3 DEF PopsBefore
  <2> HIDE DEF t
  <2>5. ASSUME NEW i \in I, NEW j \in I PROVE <<i, j>> \in R \/ <<j, i>> \in R
    <3>1. {i, j, t[i], t[j]} \subseteq Nat
      BY <2>4
    <3>2. \/ t[i] < t[j] \/ (t[i] = t[j] /\ i <= j)
          \/ t[j] < t[i] \/ (t[j] = t[i] /\ j <= i)
      BY <3>1
    <3>. QED  BY <2>4, <3>2
  <2>6. \A i, j \in I : <<i, j>> \in R /\ <<j, i>> \in R => i = j
    BY <2>4
  <2>7. ASSUME NEW i \in I, NEW j \in I, NEW k \in I, <<i, j>> \in R, <<j, k>> \in R
        PROVE  <<i, k>> \in R
    <3>1. /\ t[i] < t[j] \/ (t[i] = t[j] /\ i <= j)
          /\ t[j] < t[k] \/ (t[j] = t[k] /\ j <= k)
      BY <2>4, <2>7
    <3>2. {i, j, k, t[i], t[j], t[k]} \subseteq Nat
      BY <2>4
    <3>3. t[i] < t[k] \/ (t[i] = t[k] /\ i <= k)
      BY <3>1, <3>2
    <3>. QED  BY <2>4, <3>3
  <2>. QED  BY <2>5, <2>6, <2>7 DEF Orders
<1> HIDE DEF R
<1>3. /\ n \in Nat /\ o \in [1..n -> I]
      /\ \A i \in I : \E k \in 1..n : o[k] = i
  BY <1>1, <1>2, InOrderLists
<1>4. Popped(s, I) = [k \in 1..n |-> s[o[k]]]
  BY DEF Popped, R
<1> HIDE DEF n, o
<1>5. Popped(s, I) \in [1..n -> Events]
  <2>1. \A k \in 1..n : s[o[k]] \in Events
    BY <1>3, LenProperties
  <2>. QED  BY <1>4, <2>1
<1>6. Popped(s, I) \in Seq(Events) /\ DOMAIN Popped(s, I) = 1..n
  BY <1>3, <1>5, FunctionIsSeq
<1>7. \A k \in 1..n : Popped(s, I)[k] = s[o[k]] /\ o[k] \in I
  BY <1>3, <1>4
<1>8. \A i \in I : \E k \in 1..n : Popped(s, I)[k] = s[i]
  <2> SUFFICES ASSUME NEW i \in I PROVE \E k \in 1..n : Popped(s, I)[k] = s[i]
    OBVIOUS
  <2>1. PICK k \in 1..n : o[k] = i
    BY <1>3
  <2>. QED  BY <1>7, <2>1
<1>. QED  BY <1>6, <1>7, <1>8

-----------------------------------------------------------------------------
(* The clock: the steps that its positions stand for *)

\* The sizes of chunks, blocks, steps and cycles are positive.
LEMMA SizesAre ==
  /\ Chunk \in Nat \ {0} /\ Block \in Nat \ {0}
  /\ StepLen \in Nat \ {0} /\ NumSteps \in Nat \ {0}
  /\ Cycle \in Nat \ {0} /\ Lookahead \in Nat \ {0}
<1>1. Chunk \in Nat \ {0} /\ StepLen \in Nat \ {0} /\ NumSteps \in Nat \ {0} /\ Block \in Nat \ {0}
  BY SizesAssumption
<1>2. Cycle \in Nat /\ Cycle # 0
  BY <1>1 DEF Cycle
<1>. QED  BY <1>1, <1>2 DEF Lookahead

\* The clock shows the step that the number of whole steps stands for.
LEMMA StepAtIs ==
  ASSUME NEW p \in Nat
  PROVE  /\ StepAt(p) = (p \div StepLen) % NumSteps
         /\ StepAt(p) \in 0..NumSteps - 1
<1> DEFINE q == p \div StepLen
           r == p % StepLen
           a == q \div NumSteps
           b == q % NumSteps
<1>1. StepLen \in Nat \ {0} /\ NumSteps \in Nat \ {0} /\ Cycle \in Nat \ {0}
  BY SizesAre
<1>2. q \in Nat /\ r \in 0..StepLen - 1 /\ p = StepLen * q + r
  BY <1>1, DivBounds
<1> HIDE DEF q, r
<1>3. a \in Nat /\ b \in 0..NumSteps - 1 /\ q = NumSteps * a + b
  BY <1>1, <1>2, DivBounds
<1> HIDE DEF a, b
<1>4. p = Cycle * a + (StepLen * b + r)
  <2>1. StepLen * (NumSteps * a + b) = NumSteps * StepLen * a + StepLen * b
    BY <1>1, <1>3
  <2>. QED  BY <1>1, <1>2, <1>3, <2>1 DEF Cycle
<1>5. StepLen * b + r \in 0..Cycle - 1
  <2>1. PICK e \in Nat : b + 1 + e = NumSteps
    <3>1. NumSteps - 1 - b \in Nat /\ b + 1 + (NumSteps - 1 - b) = NumSteps
      BY <1>1, <1>3
    <3>. QED  BY <3>1
  <2>2. Cycle = StepLen * b + StepLen + StepLen * e
    BY <1>1, <1>3, <2>1 DEF Cycle
  <2>3. StepLen * e \in Nat /\ StepLen * b \in Nat
    BY <1>1, <1>3
  <2>. QED  BY <1>1, <1>2, <2>2, <2>3
<1>6. p % Cycle = StepLen * b + r
  BY <1>1, <1>3, <1>4, <1>5, DivIs
<1>7. StepAt(p) = b
  <2>1. (StepLen * b + r) \div StepLen = b
    BY <1>1, <1>2, <1>3, DivIs
  <2>. QED  BY <1>6, <2>1 DEF StepAt
<1>. QED  BY <1>3, <1>7 DEF b, q

\* With more than one step, the step changes where the number of whole steps does.
LEMMA StepChanges ==
  ASSUME NEW p \in Nat
  PROVE  StepAt(p + 1) # StepAt(p)
           <=> NumSteps > 1 /\ (p + 1) \div StepLen # p \div StepLen
<1> DEFINE q == p \div StepLen
<1>1. q \in Nat /\ NumSteps \in Nat \ {0} /\ StepLen \in Nat \ {0} /\ p + 1 \in Nat
  BY SizesAre, DivBounds
<1>2. /\ StepAt(p) = q % NumSteps /\ StepAt(p + 1) = ((p + 1) \div StepLen) % NumSteps
      /\ StepAt(p) \in 0..NumSteps - 1 /\ StepAt(p + 1) \in 0..NumSteps - 1
  BY <1>1, StepAtIs
<1>3. (p + 1) \div StepLen \in {q, q + 1}
  BY <1>1, DivNext
<1> HIDE DEF q
<1>4. ASSUME NumSteps > 1 PROVE (q + 1) % NumSteps # q % NumSteps
  <2> DEFINE a == q \div NumSteps
             b == q % NumSteps
  <2>1. a \in Nat /\ b \in 0..NumSteps - 1 /\ q = NumSteps * a + b
    BY <1>1, DivBounds
  <2> HIDE DEF a, b
  <2>2. CASE b < NumSteps - 1
    <3>1. b + 1 \in 0..NumSteps - 1 /\ q + 1 = NumSteps * a + (b + 1)
      BY <1>1, <2>1, <2>2
    <3>2. (q + 1) % NumSteps = b + 1
      BY <1>1, <2>1, <3>1, DivIs
    <3>. QED  BY <2>1, <3>2 DEF b
  <2>3. CASE b = NumSteps - 1
    <3>1. 0 \in 0..NumSteps - 1 /\ q + 1 = NumSteps * (a + 1) + 0 /\ a + 1 \in Nat
      BY <1>1, <2>1, <2>3
    <3>2. (q + 1) % NumSteps = 0
      BY <1>1, <3>1, DivIs
    <3>3. b # 0
      BY <1>1, <1>4, <2>3
    <3>. QED  BY <3>2, <3>3 DEF b
  <2>. QED  BY <1>1, <2>1, <2>2, <2>3
<1>5. CASE NumSteps = 1
  BY <1>2, <1>5
<1>6. CASE NumSteps > 1
  BY <1>2, <1>3, <1>4, <1>6 DEF q
<1>. QED  BY <1>1, <1>5, <1>6

-----------------------------------------------------------------------------
(* The triggers of a chunk *)

\* The number of whole steps before the first trigger of a chunk; after a reset
\* the first position is one, whatever the length of a step.
Base(c) == IF c.step = -1 THEN (1 \div StepLen) - 1 ELSE c.total \div StepLen

\* Where the clock stands: at a step, or after a reset.
Stands(c) ==
  /\ c.total \in Nat
  /\ c.step = StepAt(c.total) \/ (c.step = -1 /\ c.total = 0)

\* The positions of a chunk whose step is a new one.
NewSteps(c) == {p \in Positions(c) : StepAt(p) # StepBefore(c, p)}

\* A position has a new step after a reset, and where the number of whole steps
\* changes, if the pattern has more than one.
LEMMA NewStepsAre ==
  ASSUME NEW c, Stands(c)
  PROVE  NewSteps(c) = {p \in Positions(c) :
            \/ c.step = -1 /\ p = 1
            \/ NumSteps > 1 /\ p \div StepLen # (p - 1) \div StepLen}
<1>1. Chunk \in Nat \ {0} /\ c.total \in Nat
  BY SizesAre DEF Stands
<1>0. c.step = -1 => c.total = 0
  BY <1>1, StepAtIs, SizesAre DEF Stands
<1>2. ASSUME NEW p \in Positions(c)
      PROVE  StepAt(p) # StepBefore(c, p)
              <=> \/ c.step = -1 /\ p = 1
                  \/ NumSteps > 1 /\ p \div StepLen # (p - 1) \div StepLen
  <2>1. p - 1 \in Nat /\ (p - 1) + 1 = p /\ c.total + 1 <= p /\ p \in Nat
    BY <1>1 DEF Positions
  <2>2. StepAt(p) # StepAt(p - 1)
          <=> NumSteps > 1 /\ p \div StepLen # (p - 1) \div StepLen
    BY <2>1, StepChanges
  <2>3. StepAt(p) \in 0..NumSteps - 1
    BY <2>1, StepAtIs
  <2>4. CASE p = c.total + 1 /\ c.step = -1
    <3>1. StepBefore(c, p) = -1 /\ p = 1
      BY <1>1, <1>0, <2>4 DEF StepBefore
    <3>. QED  BY <2>3, <2>4, <3>1, SizesAre
  <2>5. CASE ~ (p = c.total + 1 /\ c.step = -1)
    <3>1. StepBefore(c, p) = StepAt(p - 1)
      BY <1>1, <2>1, <2>5 DEF StepBefore, Stands
    <3>2. ~ (c.step = -1 /\ p = 1)
      <4> SUFFICES ASSUME c.step = -1, p = 1 PROVE FALSE
        OBVIOUS
      <4>. QED  BY <1>0, <2>5
    <3>. QED  BY <2>2, <3>1, <3>2
  <2>. QED  BY <2>4, <2>5
<1>. QED  BY <1>2 DEF NewSteps

\* The k-th new step of a chunk: a multiple of the length of a step, or the first
\* position of all.
NewStep(c, k) == IF c.step = -1 /\ k = 1 THEN 1 ELSE StepLen * (Base(c) + k)

\* The number of triggers of a chunk.
HowMany(c) == ((c.total + Chunk) \div StepLen) - Base(c)

\* The number of whole steps changes at the multiples of the length of a step.
LEMMA MultipleIs ==
  ASSUME NEW p \in Nat, p >= 1
  PROVE  p \div StepLen # (p - 1) \div StepLen <=> p = StepLen * (p \div StepLen)
<1> DEFINE x == p - 1
<1>1. x \in Nat /\ x + 1 = p /\ StepLen \in Nat \ {0}
  BY SizesAre
<1>2. \/ p \div StepLen = x \div StepLen
      \/ p \div StepLen = (x \div StepLen) + 1 /\ p = StepLen * ((x \div StepLen) + 1)
  BY <1>1, DivNext
<1>3. /\ x \div StepLen \in Nat /\ x % StepLen \in 0..StepLen - 1
      /\ x = StepLen * (x \div StepLen) + (x % StepLen)
      /\ p \div StepLen \in Nat
  BY <1>1, DivBounds
<1>4. CASE p \div StepLen = x \div StepLen
  <2>1. x >= StepLen * (x \div StepLen)
    BY <1>1, <1>3
  <2>2. p > StepLen * (p \div StepLen)
    BY <1>1, <1>3, <1>4, <2>1
  <2>. QED  BY <1>4, <2>2
<1>5. CASE p \div StepLen = (x \div StepLen) + 1 /\ p = StepLen * ((x \div StepLen) + 1)
  BY <1>3, <1>5
<1>. QED  BY <1>2, <1>4, <1>5

\* With more than one step, the new steps of a chunk are numbered one after the
\* other from its base on.
LEMMA NewStepIs ==
  ASSUME NEW c, Stands(c), NumSteps > 1
  PROVE  /\ HowMany(c) \in Nat /\ Base(c) \in Int
         /\ \A k \in 1..HowMany(c) : /\ NewStep(c, k) \in NewSteps(c)
                                     /\ NewStep(c, k) \div StepLen = Base(c) + k
         /\ \A p \in NewSteps(c) : \E k \in 1..HowMany(c) : NewStep(c, k) = p
<1> DEFINE t == c.total
           q == t \div StepLen
           z == (t + Chunk) \div StepLen
<1>1. /\ Chunk \in Nat \ {0} /\ StepLen \in Nat \ {0} /\ NumSteps \in Nat
      /\ t \in Nat /\ t + Chunk \in Nat
  BY SizesAre DEF Stands
<1>2. c.step = -1 => t = 0
  BY <1>1, StepAtIs DEF Stands
<1>3. /\ q \in Nat /\ z \in Nat /\ q <= z
      /\ StepLen * q <= t /\ t < StepLen * (q + 1) /\ StepLen * z <= t + Chunk
  <2>1. /\ q \in Nat /\ t % StepLen \in 0..StepLen - 1
        /\ t = StepLen * q + (t % StepLen)
    BY <1>1, DivBounds
  <2>2. /\ z \in Nat /\ (t + Chunk) % StepLen \in 0..StepLen - 1
        /\ t + Chunk = StepLen * z + ((t + Chunk) % StepLen)
    BY <1>1, DivBounds
  <2>3. q <= z
    BY <1>1, DivMonotone
  <2> HIDE DEF q, z
  <2>. QED  BY <1>1, <2>1, <2>2, <2>3
<1> DEFINE one == 1 \div StepLen
<1>4. /\ one \in Nat
      /\ c.step = -1 => /\ one <= z
                        /\ one = IF StepLen = 1 THEN 1 ELSE 0
  <2>1. one \in Nat /\ one = IF StepLen = 1 THEN 1 ELSE 0
    <3>1. CASE StepLen = 1
      BY <3>1
    <3>2. CASE StepLen > 1
      BY <3>2, <1>1, DivIs, SMTT(20)
    <3>. QED  BY <1>1, <3>1, <3>2
  <2>2. t = 0 => one <= z
    BY <1>1, DivMonotone
  <2>. QED  BY <1>2, <2>1, <2>2
<1>5. /\ Base(c) = IF c.step = -1 THEN one - 1 ELSE q
      /\ HowMany(c) = z - Base(c)
  BY DEF Base, HowMany
<1>6. \A p : p \in NewSteps(c)
        <=> /\ p \in Nat /\ t + 1 <= p /\ p <= t + Chunk
            /\ (c.step = -1 /\ p = 1) \/ p = StepLen * (p \div StepLen)
  <2> SUFFICES ASSUME NEW p PROVE p \in NewSteps(c)
        <=> /\ p \in Nat /\ t + 1 <= p /\ p <= t + Chunk
            /\ (c.step = -1 /\ p = 1) \/ p = StepLen * (p \div StepLen)
    OBVIOUS
  <2>1. p \in Positions(c) <=> p \in Nat /\ t + 1 <= p /\ p <= t + Chunk
    <3> DEFINE lo == t + 1
               hi == t + Chunk
    <3>1. lo \in Nat /\ hi \in Nat /\ Positions(c) = lo..hi
      BY <1>1 DEF Positions
    <3> HIDE DEF lo, hi
    <3>2. p \in lo..hi => p \in Nat /\ lo <= p /\ p <= hi
      BY <3>1
    <3>3. p \in Nat /\ lo <= p /\ p <= hi => p \in lo..hi
      BY <3>1
    <3>. QED  BY <3>1, <3>2, <3>3 DEF lo, hi
  <2>2. p \in Positions(c) =>
          (p \div StepLen # (p - 1) \div StepLen <=> p = StepLen * (p \div StepLen))
    <3>1. p \in Positions(c) => p \in Nat /\ p >= 1
      BY <1>1, <2>1
    <3>. QED  BY <3>1, MultipleIs
  <2>3. NumSteps > 1
    OBVIOUS
  <2> HIDE DEF t, q, z, one
  <2>. QED  BY <2>1, <2>2, NewStepsAre
<1> HIDE DEF t, q, z, one
<1>7. HowMany(c) \in Nat /\ Base(c) \in Int
  BY <1>3, <1>4, <1>5
<1>8. \A m \in Nat : StepLen * m \in Nat /\ (StepLen * m) \div StepLen = m
  <2> SUFFICES ASSUME NEW m \in Nat
               PROVE  StepLen * m \in Nat /\ (StepLen * m) \div StepLen = m
    OBVIOUS
  <2>1. (StepLen * m + 0) \div StepLen = m /\ StepLen * m \in Nat
    BY <1>1, DivIs
  <2>2. StepLen * m + 0 = StepLen * m
    BY <2>1
  <2>. QED  BY <2>1, <2>2
<1>9. \A m, l \in Nat : m <= l => StepLen * m <= StepLen * l
  <2> SUFFICES ASSUME NEW m \in Nat, NEW l \in Nat, m <= l
               PROVE  StepLen * m <= StepLen * l
    OBVIOUS
  <2>1. l - m \in Nat /\ l = m + (l - m)
    OBVIOUS
  <2>2. PICK d \in Nat : l = m + d
    BY <2>1
  <2>3. StepLen * l = StepLen * m + StepLen * d /\ StepLen * d \in Nat /\ StepLen * m \in Nat
    BY <1>1, <2>2
  <2>. QED  BY <2>3
<1>10. ASSUME NEW k \in 1..HowMany(c)
       PROVE  /\ NewStep(c, k) \in NewSteps(c)
              /\ NewStep(c, k) \div StepLen = Base(c) + k
  <2>1. CASE c.step = -1 /\ k = 1
    <3>1. NewStep(c, k) = 1 /\ Base(c) + k = one
      BY <1>4, <1>5, <2>1 DEF NewStep
    <3>. QED  BY <1>1, <1>2, <1>6, <2>1, <3>1 DEF one
  <2>2. CASE ~ (c.step = -1 /\ k = 1)
    <3> DEFINE m == Base(c) + k
    <3>1. NewStep(c, k) = StepLen * m
      BY <2>2 DEF NewStep
    <3>2. m \in Nat /\ m <= z /\ m >= q + 1
      <4>1. CASE c.step = -1
        <5>1. q = 0
          BY <1>1, <1>2, <4>1, DivIs, <1>3
        <5>. QED  BY <1>3, <1>4, <1>5, <1>7, <2>2, <4>1, <5>1
      <4>2. CASE c.step # -1
        BY <1>3, <1>5, <1>7, <4>2
      <4>. QED  BY <4>1, <4>2
    <3> HIDE DEF m
    <3>3. /\ StepLen * m \in Nat /\ (StepLen * m) \div StepLen = m
          /\ StepLen * (q + 1) <= StepLen * m /\ StepLen * m <= StepLen * z
      BY <1>3, <1>8, <1>9, <3>2
    <3>4. StepLen * (q + 1) \in Nat /\ StepLen * z \in Nat
      BY <1>3, <1>8
    <3>5. StepLen * m >= t + 1 /\ StepLen * m <= t + Chunk
      BY <1>1, <1>3, <3>3, <3>4
    <3>6. StepLen * m \in NewSteps(c)
      BY <1>6, <3>3, <3>5
    <3>. QED  BY <3>1, <3>3, <3>6 DEF m
  <2>. QED  BY <2>1, <2>2
<1>11. ASSUME NEW p \in NewSteps(c)
       PROVE  \E k \in 1..HowMany(c) : NewStep(c, k) = p
  <2>1. /\ p \in Nat /\ t + 1 <= p /\ p <= t + Chunk
        /\ (c.step = -1 /\ p = 1) \/ p = StepLen * (p \div StepLen)
    BY <1>6
  <2> DEFINE m == p \div StepLen
  <2>2. m \in Nat /\ m <= z
    BY <1>1, <2>1, DivBounds, DivMonotone DEF z
  <2>3. CASE c.step = -1 /\ p = 1
    <3>1. HowMany(c) >= 1
      BY <1>3, <1>4, <1>5, <2>3
    <3>2. NewStep(c, 1) = 1
      BY <2>3 DEF NewStep
    <3>. QED  BY <1>7, <2>3, <3>1, <3>2
  <2>4. CASE p = StepLen * m /\ ~ (c.step = -1 /\ p = 1)
    <3> HIDE DEF m
    <3>1. m >= q + 1
      <4>1. m <= q => StepLen * m <= StepLen * q
        BY <1>3, <1>9, <2>2
      <4>2. StepLen * m \in Nat /\ StepLen * q \in Nat
        BY <1>3, <1>8, <2>2
      <4>. QED  BY <1>1, <1>3, <2>1, <2>2, <2>4, <4>1, <4>2
    <3>2. m - Base(c) \in 1..HowMany(c) /\ ~ (c.step = -1 /\ m - Base(c) = 1)
      <4>1. CASE c.step # -1
        BY <1>3, <1>5, <1>7, <2>2, <3>1, <4>1
      <4>2. CASE c.step = -1
        <5>1. m > one
          <6>1. CASE StepLen = 1
            <7>1. p = m
              BY <2>2, <2>4, <6>1
            <7>. QED  BY <1>2, <1>1, <1>4, <2>1, <2>2, <2>4, <4>2, <6>1, <7>1
          <6>2. CASE StepLen # 1
            BY <1>3, <1>4, <2>2, <3>1, <4>2, <6>2
          <6>. QED  BY <6>1, <6>2
        <5>. QED  BY <1>3, <1>4, <1>5, <1>7, <2>2, <4>2, <5>1
      <4>. QED  BY <4>1, <4>2
    <3>3. NewStep(c, m - Base(c)) = StepLen * (Base(c) + (m - Base(c)))
      BY <3>2 DEF NewStep
    <3>4. Base(c) + (m - Base(c)) = m
      BY <1>7, <2>2
    <3>. QED  BY <2>4, <3>2, <3>3, <3>4
  <2>. QED  BY <2>1, <2>3, <2>4
<1>. QED  BY <1>7, <1>10, <1>11

\* The triggers of a chunk are positions of it.
LEMMA TriggersType ==
  ASSUME NEW c, c.total \in Nat
  PROVE  /\ NewSteps(c) \in SUBSET Positions(c)
         /\ Cardinality(NewSteps(c)) \in Nat
         /\ Triggers(c) \in Seq(Positions(c))
         /\ Len(Triggers(c)) = Cardinality(NewSteps(c))
<1> DEFINE P == NewSteps(c)
           lo == c.total + 1
           hi == c.total + Chunk
           u == Upwards(P)
<1>1. /\ lo \in Nat /\ hi \in Nat /\ Positions(c) = lo..hi /\ P \in SUBSET (lo..hi)
      /\ Triggers(c) = u
  BY SizesAre DEF Positions, NewSteps, Triggers
<1> HIDE DEF P, lo, hi, u
<1>2. Cardinality(P) \in Nat /\ u \in Seq(P) /\ Len(u) = Cardinality(P)
  BY <1>1, UpwardsLists DEF u
<1>3. u \in [1..Len(u) -> P] /\ Len(u) \in Nat
  BY <1>2, LenProperties
<1>4. u \in [1..Len(u) -> lo..hi]
  BY <1>1, <1>3
<1>5. u \in Seq(lo..hi)
  BY <1>3, <1>4, FunctionIsSeq
<1>. QED  BY <1>1, <1>2, <1>5 DEF P

\* The triggers of a chunk are the new steps, one after the other.
LEMMA TriggersAre ==
  ASSUME NEW c, Stands(c)
  PROVE  /\ Triggers(c) \in Seq(Positions(c))
         /\ NumSteps > 1 =>
              /\ HowMany(c) \in Nat /\ Base(c) \in Int
              /\ Len(Triggers(c)) = HowMany(c)
              /\ \A k \in 1..HowMany(c) : Triggers(c)[k] \div StepLen = Base(c) + k
         /\ NumSteps = 1 => Len(Triggers(c)) = IF c.step = -1 THEN 1 ELSE 0
<1> DEFINE P == NewSteps(c)
           R == {pq \in P \X P : pq[1] <= pq[2]}
           lo == c.total + 1
           hi == c.total + Chunk
<1>1. /\ lo \in Nat /\ hi \in Nat /\ Positions(c) = lo..hi /\ P \in SUBSET (lo..hi)
      /\ StepLen \in Nat \ {0} /\ NumSteps \in Nat \ {0} /\ lo <= hi
  BY SizesAre DEF Stands, Positions, NewSteps
<1>2. Triggers(c) = Upwards(P) /\ Upwards(P) = InOrder(P, R)
  BY DEF Triggers, NewSteps, Upwards
<1>3. \A p, q \in P : <<p, q>> \in R <=> p <= q
  OBVIOUS
<1> HIDE DEF P, R, lo, hi
<1>4. Cardinality(P) \in Nat /\ Len(Triggers(c)) = Cardinality(P)
  BY TriggersType DEF Stands, P
<1>5. Triggers(c) \in Seq(Positions(c))
  BY TriggersType DEF Stands
<1>6. ASSUME NumSteps > 1
      PROVE  /\ HowMany(c) \in Nat /\ Base(c) \in Int
             /\ Len(Triggers(c)) = HowMany(c)
             /\ \A k \in 1..HowMany(c) : Triggers(c)[k] \div StepLen = Base(c) + k
  <2> DEFINE n == HowMany(c)
             g == [k \in 1..n |-> NewStep(c, k)]
  <2>1. /\ n \in Nat /\ Base(c) \in Int
        /\ \A k \in 1..n : NewStep(c, k) \in P /\ NewStep(c, k) \div StepLen = Base(c) + k
        /\ \A p \in P : \E k \in 1..n : NewStep(c, k) = p
    BY <1>6, NewStepIs DEF P
  <2> HIDE DEF n
  <2>2. /\ g \in [1..n -> P] /\ \A k \in 1..n : g[k] \div StepLen = Base(c) + k
        /\ \A p \in P : \E k \in 1..n : g[k] = p
    BY <2>1
  <2> HIDE DEF g
  <2>3. ASSUME NEW k \in 1..n, NEW l \in 1..n
        PROVE  <<g[k], g[l]>> \in R <=> k <= l
    <3> DEFINE p == g[k]
               q == g[l]
    <3>0. /\ p \in P /\ q \in P
          /\ p \div StepLen = Base(c) + k /\ q \div StepLen = Base(c) + l
      BY <2>2
    <3> HIDE DEF p, q
    <3>1. p \in Nat /\ q \in Nat
      <4>1. \A x \in lo..hi : x \in Nat
        BY <1>1
      <4>. QED  BY <1>1, <3>0, <4>1
    <3>2. /\ p <= q => Base(c) + k <= Base(c) + l
          /\ q <= p => Base(c) + l <= Base(c) + k
      BY <1>1, <3>0, <3>1, DivMonotone
    <3>3. p <= q <=> k <= l
      <4>1. k \in Nat /\ l \in Nat
        BY <2>1
      <4>2. k = l => p = q
        BY DEF p, q
      <4>. QED  BY <2>1, <3>1, <3>2, <4>1, <4>2
    <3>. QED  BY <1>3, <3>0, <3>3 DEF p, q
  <2>4. Cardinality(P) = n /\ InOrder(P, R) = g
    BY <2>1, <2>2, <2>3, InOrderIs, ZenonT(40)
  <2>. QED  BY <1>2, <1>4, <2>1, <2>2, <2>4 DEF n
<1>7. ASSUME NumSteps = 1
      PROVE  Len(Triggers(c)) = IF c.step = -1 THEN 1 ELSE 0
  <2>1. P = {p \in Positions(c) : c.step = -1 /\ p = 1}
    BY <1>7, NewStepsAre DEF P
  <2>2. CASE c.step = -1
    <3>1. c.total = 0
      BY <2>2, StepAtIs DEF Stands
    <3>2. P = {1}
      BY <1>1, <2>1, <2>2, <3>1 DEF lo
    <3>3. Cardinality({1}) = 1
      BY FS_Singleton
    <3>. QED  BY <1>2, <1>4, <2>2, <3>2, <3>3
  <2>3. CASE c.step # -1
    <3>1. P = {}
      BY <2>1, <2>3
    <3>. QED  BY <1>2, <1>4, <2>3, <3>1, FS_EmptySet
  <2>. QED  BY <2>2, <2>3
<1>. QED  BY <1>5, <1>6, <1>7

-----------------------------------------------------------------------------
(* Types *)

\* What the UI does a bounded number of times.
Operations == {"toggle", "switch", "delete", "live"}

\* The type invariant in parts: what the UI writes.
TypeUI ==
  /\ setup \in Setups /\ left \in [Operations -> Nat]
  /\ playing \in BOOLEAN /\ epoch \in Nat /\ topo \in Nat /\ tracks \in Nat \ {0}
  /\ edit \in EditType
  /\ published \in SnapshotType
  /\ live \in BOOLEAN
  /\ ui \in {"idle", "publish", "publishDeletion", "wait", "complete", "unmark"}

\* A clock at a position and its step.
Clocks == [total : Nat, step : -1 .. NumSteps - 1, started : BOOLEAN]

\* The scheduler thread's state.
TypeSched ==
  /\ spc \in {"read", "load", "kind", "plan", "fill", "filled"}
  /\ seen \in [snap : SnapshotType, rendered : Nat, edit : EditType]
  /\ clock \in Clocks
  /\ until \in Nat
  /\ last \in [playing : BOOLEAN, epoch : Int, topo : Int, live : BOOLEAN]

\* The audio callback's state.
TypeAudio ==
  /\ apc \in {"idle", "started", "transport", "turn", "render"}
  /\ got \in [playing : BOOLEAN, epoch : Nat]
  /\ cur \in Nat /\ rendered \in Nat
  /\ heap \in Seq(Events) /\ history \in Seq(Events)
  /\ known \in [tracks : Nat, topo : Nat, playing : BOOLEAN]

\* The queue holds events, and no more than it has room for.
TypeQueue == queue \in Seq(Events) /\ Len(queue) <= setup.room

\* The parts together.
TypeInv == TypeUI /\ TypeSched /\ TypeAudio /\ TypeQueue

\* The parts are the type invariant.
LEMMA TypesAreTypes == TypeInv => TypeOK
  BY DEF TypeInv, TypeUI, TypeSched, TypeAudio, TypeQueue, TypeOK, Clocks

\* What a setup holds.
LEMMA SetupIs ==
  ASSUME setup \in Setups
  PROVE  /\ setup.ops \in [Operations -> Nat]
         /\ setup.room \in Nat \ {0} /\ setup.time \in Nat \ {0}
         /\ setup.punctual \in BOOLEAN
  BY SizesAssumption DEF Operations

\* The empty sequence is one of events.
LEMMA EmptyIs == << >> \in Seq(Events) /\ Len(<< >>) = 0
  OBVIOUS

\* The initial state is one of the types.
LEMMA TypeInit == Init => TypeInv
<1> SUFFICES ASSUME Init PROVE TypeInv
  OBVIOUS
<1> USE DEF Init
<1>1. /\ setup.ops \in [Operations -> Nat] /\ setup.ops["delete"] \in Nat
      /\ setup.room \in Nat \ {0}
  BY SetupIs DEF Operations
<1>2. TypeUI
  <2>1. tracks \in Nat \ {0}
    BY <1>1
  <2>2. edit \in EditType /\ published \in SnapshotType
    BY DEF EditType, SnapshotType, NoEdit, Snapshot
  <2>. QED  BY <1>1, <2>1, <2>2 DEF TypeUI
<1>3. TypeSched
  <2>1. clock \in Clocks
    BY SizesAre DEF Clocks
  <2>2. seen.snap \in SnapshotType /\ seen.edit \in EditType
    BY DEF EditType, SnapshotType, NoEdit, Snapshot
  <2>3. seen \in [snap : SnapshotType, rendered : Nat, edit : EditType]
    BY <2>2
  <2>. QED  BY <2>1, <2>3 DEF TypeSched
<1>4. TypeAudio
  BY <1>1, EmptyIs DEF TypeAudio
<1>5. TypeQueue
  BY <1>1, EmptyIs DEF TypeQueue
<1>. QED  BY <1>2, <1>3, <1>4, <1>5 DEF TypeInv

\* The UI counts its epochs and ids up from zero.
LEMMA TypeOfUI == TypeInv /\ UI => TypeInv'
<1> SUFFICES ASSUME TypeInv, UI PROVE TypeInv'
  OBVIOUS
<1>1. UNCHANGED <<setup, schedVars, audioVars, queue>>
  BY DEF UI, UiElse, TogglePlay, SwitchPattern, Publish, LiveNote, RequestDelete,
         DeleteTrack, DeletionFails, ApplyEdit, UnmarkEdit
<1>2. TypeSched' /\ TypeAudio' /\ TypeQueue'
  BY <1>1 DEF TypeInv, TypeSched, TypeAudio, TypeQueue, schedVars, audioVars
<1> USE DEF TogglePlay, SwitchPattern, Publish, LiveNote, RequestDelete, DeleteTrack,
            DeletionFails, ApplyEdit, UnmarkEdit
<1>3. left' \in [Operations -> Nat]
  <2>1. UNCHANGED left \/ \E what \in Operations : May(what)
    BY DEF UI, Operations
  <2>2. left \in [Operations -> Nat]
    BY DEF TypeInv, TypeUI
  <2>3. ASSUME NEW what \in Operations, May(what) PROVE left' \in [Operations -> Nat]
    <3>1. left[what] - 1 \in Nat
      BY <2>2, <2>3 DEF May
    <3>. QED  BY <2>2, <2>3, <3>1 DEF May
  <2>. QED  BY <2>1, <2>2, <2>3
<1>4. edit' \in EditType /\ published' \in SnapshotType
  <2>1. /\ edit \in EditType /\ published \in SnapshotType
        /\ playing \in BOOLEAN /\ epoch \in Nat /\ topo \in Nat
    BY DEF TypeInv, TypeUI
  <2>2. published' = published \/ published' = Snapshot
    BY DEF UI
  <2>3. Snapshot \in SnapshotType
    BY <2>1 DEF Snapshot, SnapshotType
  <2>4. edit' \in EditType
    <3>1. edit' = edit \/ RequestDelete \/ ApplyEdit \/ UnmarkEdit
      BY DEF UI
    <3>2. /\ edit = [on |-> edit.on, request |-> edit.request,
                     ready |-> edit.ready, applied |-> edit.applied]
          /\ edit.on \in BOOLEAN /\ {edit.request, edit.ready, edit.applied} \subseteq Nat
      BY <2>1 DEF EditType
    <3>3. ASSUME RequestDelete PROVE edit' \in EditType
      <4>1. edit' = [on |-> TRUE, request |-> edit.request + 1,
                     ready |-> edit.ready, applied |-> edit.applied]
        BY <3>2, <3>3
      <4>. QED  BY <3>2, <4>1 DEF EditType
    <3>4. ASSUME ApplyEdit PROVE edit' \in EditType
      <4>1. edit' = [on |-> edit.on, request |-> edit.request,
                     ready |-> edit.ready, applied |-> edit.applied + 1]
        BY <3>2, <3>4
      <4>. QED  BY <3>2, <4>1 DEF EditType
    <3>5. ASSUME UnmarkEdit PROVE edit' \in EditType
      <4>1. edit' = [on |-> FALSE, request |-> edit.request,
                     ready |-> edit.ready, applied |-> edit.applied]
        BY <3>2, <3>5
      <4>. QED  BY <3>2, <4>1 DEF EditType
    <3>. QED  BY <2>1, <3>1, <3>3, <3>4, <3>5
  <2>. QED  BY <2>1, <2>2, <2>3, <2>4
<1>5. /\ playing' \in BOOLEAN /\ epoch' \in Nat /\ topo' \in Nat /\ tracks' \in Nat \ {0}
      /\ live' \in BOOLEAN
      /\ ui' \in {"idle", "publish", "publishDeletion", "wait", "complete", "unmark"}
  <2>1. playing' \in BOOLEAN /\ live' \in BOOLEAN
    BY DEF TypeInv, TypeUI, UI
  <2>2. epoch' \in Nat /\ topo' \in Nat /\ tracks' \in Nat \ {0}
    BY DEF TypeInv, TypeUI, UI
  <2>3. ui' \in {"idle", "publish", "publishDeletion", "wait", "complete", "unmark"}
    BY DEF UI
  <2>. QED  BY <2>1, <2>2, <2>3
<1>6. TypeUI'
  BY <1>1, <1>3, <1>4, <1>5 DEF TypeInv, TypeUI
<1>. QED  BY <1>2, <1>6 DEF TypeInv

\* The clock stays a clock.
LEMMA ClockTypes ==
  ASSUME setup \in Setups, NEW c \in Clocks
  PROVE  /\ ResetClock \in Clocks /\ Started(c) \in Clocks /\ Advanced(c) \in Clocks
         /\ \A ahead \in Int : Sought(c, ahead) \in Clocks
<1>1. /\ Chunk \in Nat \ {0} /\ NumSteps \in Nat \ {0} /\ Cycle \in Nat \ {0}
      /\ setup.time \in Nat /\ Lookahead \in Nat
  BY SizesAre, SetupIs
<1>2. /\ c.total \in Nat /\ c.step \in -1 .. NumSteps - 1 /\ c.started \in BOOLEAN
      /\ c = [total |-> c.total, step |-> c.step, started |-> c.started]
  BY DEF Clocks
<1>3. \A p \in Nat : StepAt(p) \in -1 .. NumSteps - 1
  BY <1>1, StepAtIs
<1>4. ResetClock \in Clocks /\ Started(c) \in Clocks
  <2>1. ResetClock \in Clocks
    BY <1>1 DEF ResetClock, Clocks
  <2>2. [ResetClock EXCEPT !.started = TRUE] \in Clocks
    BY <2>1 DEF Clocks
  <2>. QED  BY <2>1, <2>2 DEF Started
<1>5. Advanced(c) \in Clocks
  <2>1. Bounded(c.total + Chunk) \in Nat
    BY <1>1, <1>2 DEF Bounded, MaxTotal
  <2>2. Advanced(c) = [total |-> Bounded(c.total + Chunk), step |-> StepAt(c.total + Chunk),
                       started |-> c.started]
    <3> DEFINE b == Bounded(c.total + Chunk)
               a == StepAt(c.total + Chunk)
    <3>1. Advanced(c) = [c EXCEPT !.total = b, !.step = a]
      BY DEF Advanced
    <3> HIDE DEF a, b
    <3>2. Advanced(c) = [total |-> b, step |-> a, started |-> c.started]
      BY <1>2, <3>1
    <3>. QED  BY <3>2 DEF a, b
  <2>. QED  BY <1>1, <1>2, <1>3, <2>1, <2>2 DEF Clocks
<1>6. ASSUME NEW ahead \in Int PROVE Sought(c, ahead) \in Clocks
  <2> DEFINE p == IF ahead < 0 THEN c.total ELSE IF ahead > c.total THEN 0 ELSE c.total - ahead
  <2>1. p \in Nat
    BY <1>2
  <2>2. Sought(c, ahead) = [total |-> p, step |-> StepAt(p), started |-> TRUE]
    BY DEF Sought
  <2> HIDE DEF p
  <2>. QED  BY <1>3, <2>1, <2>2 DEF Clocks
<1>. QED  BY <1>4, <1>5, <1>6

\* What is scheduled are events.
LEMMA ScheduledTypes ==
  ASSUME TypeInv, NEW c \in Clocks
  PROVE  Scheduled(c) \in Seq(Events) /\ Len(Scheduled(c)) = Len(Triggers(c))
<1>1. c.total \in Nat
  BY DEF Clocks
<1>2. /\ Triggers(c) \in Seq(Positions(c)) /\ Chunk \in Nat
      /\ until \in Nat /\ seen.snap.epoch \in Nat /\ seen.snap.topo \in Nat
  BY <1>1, TriggersType, SizesAre DEF TypeInv, TypeSched, SnapshotType
<1> DEFINE n == Len(Triggers(c))
<1>3. n \in Nat /\ DOMAIN Triggers(c) = 1..n /\ \A i \in 1..n : Triggers(c)[i] \in Positions(c)
  BY <1>2, LenProperties
<1>4. \A i \in 1..n : Triggers(c)[i] \in Nat /\ Triggers(c)[i] >= c.total + 1
  BY <1>1, <1>2, <1>3 DEF Positions
<1> HIDE DEF n
<1>5. Scheduled(c) \in [1..n -> Events]
  BY <1>1, <1>2, <1>3, <1>4 DEF Scheduled, Events
<1>. QED  BY <1>3, <1>5, FunctionIsSeq DEF n

\* What becomes of the clock in the first branch of the loop.
LEMMA LiveTypes ==
  ASSUME TypeInv
  PROVE  LiveClock \in Clocks /\ LiveUntil \in Nat /\ Acknowledged \in EditType
<1>1. /\ setup \in Setups /\ clock \in Clocks /\ until \in Nat /\ seen.rendered \in Nat
      /\ edit \in EditType /\ seen.edit \in EditType
  BY DEF TypeInv, TypeUI, TypeSched
<1>2. LiveClock \in Clocks /\ LiveUntil \in Nat
  BY <1>1, ClockTypes DEF LiveClock, LiveUntil
<1>3. Acknowledged \in EditType
  <2>1. /\ edit = [on |-> edit.on, request |-> edit.request,
                   ready |-> edit.ready, applied |-> edit.applied]
        /\ edit.on \in BOOLEAN /\ {edit.request, edit.ready, edit.applied} \subseteq Nat
        /\ seen.edit.request \in Nat
    BY <1>1 DEF EditType
  <2>2. \/ Acknowledged = edit
        \/ Acknowledged = [on |-> edit.on, request |-> edit.request,
                           ready |-> seen.edit.request, applied |-> edit.applied]
    BY <2>1 DEF Acknowledged
  <2>3. CASE Acknowledged = edit
    BY <1>1, <2>3
  <2>4. CASE Acknowledged = [on |-> edit.on, request |-> edit.request,
                             ready |-> seen.edit.request, applied |-> edit.applied]
    BY <2>1, <2>4 DEF EditType
  <2>. QED  BY <2>2, <2>3, <2>4
<1>. QED  BY <1>2, <1>3

\* The scheduler reads what is typed.
LEMMA TypeOfReads ==
  TypeInv /\ (ReadSnapshot \/ LoadRendered \/ LoadKind \/ EndPass) => TypeInv'
<1> SUFFICES ASSUME TypeInv, ReadSnapshot \/ LoadRendered \/ LoadKind \/ EndPass
             PROVE  TypeInv'
  OBVIOUS
<1> USE DEF ReadSnapshot, LoadRendered, LoadKind, EndPass, SchedElse
<1>1. UNCHANGED <<setup, playing, epoch, topo, tracks, published, live, ui, left, edit,
                  audioVars, queue, clock, until>>
  OBVIOUS
<1>2. TypeUI' /\ TypeAudio' /\ TypeQueue'
  BY <1>1 DEF TypeInv, TypeUI, TypeAudio, TypeQueue, audioVars
<1>3. /\ seen \in [snap : SnapshotType, rendered : Nat, edit : EditType]
      /\ published \in SnapshotType /\ rendered \in Nat /\ edit \in EditType
      /\ last \in [playing : BOOLEAN, epoch : Int, topo : Int, live : BOOLEAN]
  BY DEF TypeInv, TypeUI, TypeSched, TypeAudio
<1>4. seen' \in [snap : SnapshotType, rendered : Nat, edit : EditType]
  <2>1. /\ seen = [snap |-> seen.snap, rendered |-> seen.rendered, edit |-> seen.edit]
        /\ seen.snap \in SnapshotType /\ seen.rendered \in Nat /\ seen.edit \in EditType
    BY <1>3
  <2>2. CASE ReadSnapshot
    BY <1>3, <2>1, <2>2
  <2>3. CASE LoadRendered
    <3>1. [edit EXCEPT !.on = FALSE] \in EditType
      BY <1>3 DEF EditType
    <3>. QED  BY <1>3, <2>1, <2>3, <3>1
  <2>4. CASE LoadKind
    <3> DEFINE e == [seen.edit EXCEPT !.on = edit.on]
    <3>1. e \in EditType
      BY <1>3, <2>1 DEF EditType
    <3>2. seen' = [seen EXCEPT !.edit = e]
      BY <1>3, <2>1, <2>4
    <3> HIDE DEF e
    <3>. QED  BY <2>1, <3>1, <3>2
  <2>. QED  BY <1>3, <2>2, <2>3, <2>4
<1>5. last' \in [playing : BOOLEAN, epoch : Int, topo : Int, live : BOOLEAN]
  <2>1. seen.snap.playing \in BOOLEAN /\ seen.snap.epoch \in Int /\ seen.snap.topo \in Int
    BY <1>3 DEF SnapshotType
  <2>2. UNCHANGED last \/ EndPass
    OBVIOUS
  <2>3. EndPass => last' = [playing |-> seen.snap.playing, epoch |-> seen.snap.epoch,
                            topo |-> seen.snap.topo, live |-> last.live]
    BY <1>3
  <2>4. last.live \in BOOLEAN
    BY <1>3
  <2>. QED  BY <1>3, <2>1, <2>2, <2>3, <2>4
<1>6. spc' \in {"read", "load", "kind", "plan", "fill", "filled"}
  OBVIOUS
<1>7. TypeSched'
  BY <1>1, <1>4, <1>5, <1>6 DEF TypeInv, TypeSched
<1>. QED  BY <1>2, <1>7 DEF TypeInv

\* The queue is left alone or emptied.
LEMMA QueueTypes ==
  ASSUME TypeInv, UNCHANGED setup, queue' \in {queue, << >>}
  PROVE  TypeQueue'
<1>1. setup.room \in Nat /\ setup' = setup
  BY SetupIs DEF TypeInv, TypeUI
<1>2. CASE queue' = queue
  BY <1>1, <1>2 DEF TypeInv, TypeQueue
<1>3. CASE queue' = << >>
  <2>1. queue' \in Seq(Events) /\ Len(queue') = 0
    BY <1>3, EmptyIs
  <2>. QED  BY <1>1, <2>1 DEF TypeQueue
<1>. QED  BY <1>2, <1>3

\* A plan moves the clock to a position and leaves the queue or empties it.
LEMMA TypeOfPlans ==
  TypeInv /\ (PlanStopped \/ PlanFrozen \/ PlanPlaying) => TypeInv'
<1> SUFFICES ASSUME TypeInv, PlanStopped \/ PlanFrozen \/ PlanPlaying
             PROVE  TypeInv'
  OBVIOUS
<1>1. UNCHANGED <<setup, playing, epoch, topo, tracks, published, live, ui, left, audioVars, seen>>
  BY DEF PlanStopped, PlanFrozen, PlanPlaying, SchedElse
<1>2. edit' \in {edit, Acknowledged} /\ queue' \in {queue, << >>} /\ spc' \in {"read", "fill"}
  BY DEF PlanStopped, PlanFrozen, PlanPlaying
<1>3. TypeAudio'
  BY <1>1 DEF TypeInv, TypeAudio, audioVars
<1>4. TypeUI'
  BY <1>1, <1>2, LiveTypes DEF TypeInv, TypeUI
<1>5. TypeQueue'
  BY <1>1, <1>2, QueueTypes
<1>6. /\ setup \in Setups /\ clock \in Clocks /\ until \in Nat
      /\ seen \in [snap : SnapshotType, rendered : Nat, edit : EditType]
      /\ seen.rendered \in Nat /\ live \in BOOLEAN
      /\ last \in [playing : BOOLEAN, epoch : Int, topo : Int, live : BOOLEAN]
  BY DEF TypeInv, TypeUI, TypeSched
<1>7. clock' \in Clocks /\ until' \in Nat
  <2>1. CASE PlanStopped
    BY <1>6, <2>1, ClockTypes DEF PlanStopped
  <2>2. CASE PlanFrozen
    BY <1>6, <2>2, LiveTypes DEF PlanFrozen
  <2>3. CASE PlanPlaying
    <3> DEFINE u == IF seen.edit.on THEN seen.rendered ELSE LiveUntil
    <3>1. u \in Nat
      BY <1>6, LiveTypes
    <3>2. /\ clock' \in {ResetClock, Sought(LiveClock, u - seen.rendered), LiveClock}
          /\ until' \in {seen.rendered, u}
      BY <2>3 DEF PlanPlaying
    <3> HIDE DEF u
    <3>. QED  BY <1>6, <3>1, <3>2, LiveTypes, ClockTypes
  <2>. QED  BY <2>1, <2>2, <2>3
<1>8. last' \in [playing : BOOLEAN, epoch : Int, topo : Int, live : BOOLEAN]
  <2>1. seen.snap.epoch \in Int /\ seen.snap.topo \in Int
    BY <1>6 DEF SnapshotType
  <2>2. \/ last' = [playing |-> FALSE, epoch |-> seen.snap.epoch, topo |-> seen.snap.topo,
                    live |-> live]
        \/ last' = [last EXCEPT !.live = live]
    BY DEF PlanStopped, PlanFrozen, PlanPlaying
  <2>3. [last EXCEPT !.live = live] = [playing |-> last.playing, epoch |-> last.epoch,
                                       topo |-> last.topo, live |-> live]
    BY <1>6
  <2>4. last.playing \in BOOLEAN /\ last.epoch \in Int /\ last.topo \in Int
    BY <1>6
  <2> DEFINE Lasts == [playing : BOOLEAN, epoch : Int, topo : Int, live : BOOLEAN]
  <2>5. [playing |-> FALSE, epoch |-> seen.snap.epoch, topo |-> seen.snap.topo,
         live |-> live] \in Lasts
    BY <1>6, <2>1
  <2>6. [last EXCEPT !.live = live] \in Lasts
    BY <1>6, <2>3, <2>4
  <2> HIDE DEF Lasts
  <2>7. last' \in Lasts
    BY <2>2, <2>5, <2>6
  <2>. QED  BY <2>7 DEF Lasts
<1>9. TypeSched'
  BY <1>1, <1>2, <1>6, <1>7, <1>8 DEF TypeSched
<1>. QED  BY <1>3, <1>4, <1>5, <1>9 DEF TypeInv

\* A chunk appends as many events as there is room for.
LEMMA TypeOfFills == TypeInv /\ (FillChunk \/ FillOverflows) => TypeInv'
<1> SUFFICES ASSUME TypeInv, FillChunk \/ FillOverflows PROVE TypeInv'
  OBVIOUS
<1> DEFINE c == Started(clock)
           events == Scheduled(c)
<1>1. /\ UNCHANGED <<setup, playing, epoch, topo, tracks, published, live, ui, left, audioVars,
                     seen, edit, last>>
      /\ until' \in {until, until + Chunk} /\ spc' \in {"fill", "filled"}
      /\ clock' = Advanced(c)
  BY DEF FillChunk, FillOverflows, Filling, SchedElse
<1>2. /\ setup \in Setups /\ clock \in Clocks /\ until \in Nat /\ until + Chunk \in Nat
      /\ queue \in Seq(Events) /\ Len(queue) <= setup.room /\ setup.room \in Nat
      /\ Len(queue) \in Nat
  BY SizesAre, SetupIs, LenProperties DEF TypeInv, TypeUI, TypeSched, TypeQueue
<1>3. c \in Clocks /\ Advanced(c) \in Clocks
  BY <1>2, ClockTypes
<1>4. events \in Seq(Events) /\ Len(events) \in Nat
  BY <1>3, ScheduledTypes, LenProperties
<1>5. TypeUI' /\ TypeAudio'
  BY <1>1 DEF TypeInv, TypeUI, TypeAudio, audioVars
<1>6. TypeSched'
  BY <1>1, <1>2, <1>3 DEF TypeInv, TypeSched
<1>7. TypeQueue'
  <2>1. CASE FillChunk
    <3>1. queue' = queue \o events /\ Len(queue) + Len(events) <= setup.room
      BY <2>1 DEF FillChunk
    <3> HIDE DEF events
    <3>2. queue \o events \in Seq(Events) /\ Len(queue \o events) = Len(queue) + Len(events)
      BY <1>2, <1>4, ConcatProperties
    <3>. QED  BY <1>1, <3>1, <3>2 DEF TypeQueue
  <2>2. CASE FillOverflows
    <3> DEFINE n == setup.room - Len(queue)
               r == SubSeq(events, 1, n)
    <3>1. queue' = queue \o r /\ Len(queue) + Len(events) > setup.room
      BY <2>2 DEF FillOverflows
    <3> HIDE DEF events
    <3>2. n \in Nat /\ n <= Len(events)
      BY <1>2, <1>4, <3>1
    <3>3. r \in Seq(Events) /\ Len(r) = n
      <4>1. \A i \in 1..n : events[i] \in Events
        BY <1>4, <3>2, LenProperties
      <4> HIDE DEF n
      <4>. QED  BY <3>2, <4>1, SubSeqProperties
    <3> HIDE DEF r
    <3>4. queue \o r \in Seq(Events) /\ Len(queue \o r) = Len(queue) + n
      BY <1>2, <3>3, ConcatProperties, ZenonT(40)
    <3>. QED  BY <1>1, <1>2, <3>1, <3>4 DEF TypeQueue
  <2>. QED  BY <2>1, <2>2
<1>. QED  BY <1>5, <1>6, <1>7 DEF TypeInv

\* The callback moves events of the queue and the heap to the history.
LEMMA TypeOfAudio == TypeInv /\ Audio => TypeInv'
<1> SUFFICES ASSUME TypeInv, Audio PROVE TypeInv'
  OBVIOUS
<1> USE DEF CallbackStart, LoadPlaying, CallbackTransport, LoadEpoch, RenderTurn, CallbackEnd
<1>1. UNCHANGED <<setup, uiVars, schedVars>> /\ queue' \in {queue, << >>}
  BY DEF Audio, AudioElse
<1>2. TypeUI' /\ TypeSched' /\ TypeQueue'
  BY <1>1, QueueTypes DEF TypeInv, TypeUI, TypeSched, uiVars, schedVars
<1>3. /\ got \in [playing : BOOLEAN, epoch : Nat] /\ got.playing \in BOOLEAN
      /\ cur \in Nat /\ rendered \in Nat /\ playing \in BOOLEAN /\ epoch \in Nat
      /\ topo \in Nat /\ tracks \in Nat /\ BlockEnd \in Nat
      /\ heap \in Seq(Events) /\ history \in Seq(Events) /\ queue \in Seq(Events)
      /\ known \in [tracks : Nat, topo : Nat, playing : BOOLEAN]
  BY SizesAre DEF TypeInv, TypeUI, TypeAudio, TypeQueue, BlockEnd
<1>4. apc' \in {"idle", "started", "transport", "turn", "render"}
  BY DEF Audio
<1>5. got' \in [playing : BOOLEAN, epoch : Nat]
  BY <1>3 DEF Audio
<1>6. known' \in [tracks : Nat, topo : Nat, playing : BOOLEAN]
  <2>1. \/ known' = known
        \/ known' = [tracks |-> tracks, topo |-> topo, playing |-> FALSE]
        \/ known' = [known EXCEPT !.playing = got.playing]
    BY DEF Audio
  <2> DEFINE Knowns == [tracks : Nat, topo : Nat, playing : BOOLEAN]
  <2>2. /\ known \in Knowns /\ [tracks |-> tracks, topo |-> topo, playing |-> FALSE] \in Knowns
        /\ [known EXCEPT !.playing = got.playing] \in Knowns
    BY <1>3
  <2> HIDE DEF Knowns
  <2>3. known' \in Knowns
    BY <2>1, <2>2
  <2>. QED  BY <2>3 DEF Knowns
<1>7. heap' \in Seq(Events) /\ history' \in Seq(Events) /\ cur' \in Nat /\ rendered' \in Nat
  <2>1. CASE RenderTurn
    <3> DEFINE all == heap \o queue
               current == {i \in DOMAIN all : all[i].epoch = got.epoch}
               due == {i \in current : all[i].time <= cur}
               rest == Popped(all, current \ due)
    <3>1. /\ history' = history \o Popped(all, due) /\ heap' = rest
          /\ cur' = IF rest # << >> /\ Head(rest).time < BlockEnd THEN Head(rest).time
                    ELSE BlockEnd
          /\ rendered' = rendered
      BY <2>1
    <3>2. /\ all \in Seq(Events) /\ due \in SUBSET DOMAIN all
          /\ current \ due \in SUBSET DOMAIN all
      BY <1>3, ConcatProperties
    <3> HIDE DEF all, current, due
    <3>3. Popped(all, due) \in Seq(Events) /\ rest \in Seq(Events)
      BY <3>2, PoppedLists
    <3> HIDE DEF rest
    <3>4. history' \in Seq(Events)
      BY <1>3, <3>1, <3>3, ConcatProperties
    <3>5. rest # << >> => Head(rest).time \in Nat
      <4>1. rest # << >> => Head(rest) \in Events
        BY <3>3
      <4>. QED  BY <4>1 DEF Events
    <3>. QED  BY <1>3, <3>1, <3>3, <3>4, <3>5
  <2>2. CASE ~ RenderTurn
    <3>1. heap' \in {heap, << >>} /\ history' = history
      BY <2>2 DEF Audio
    <3>2. cur' \in {cur, rendered} /\ rendered' \in {rendered, BlockEnd}
      BY <2>2 DEF Audio
    <3>. QED  BY <1>3, <3>1, <3>2, EmptyIs
  <2>. QED  BY <2>1, <2>2
<1>8. TypeAudio'
  BY <1>4, <1>5, <1>6, <1>7 DEF TypeAudio
<1>. QED  BY <1>2, <1>8 DEF TypeInv

\* Every step keeps the types.
LEMMA TypeNext == TypeInv /\ [Next]_vars => TypeInv'
<1>1. TypeInv /\ UNCHANGED vars => TypeInv'
  BY DEF TypeInv, TypeUI, TypeSched, TypeAudio, TypeQueue, vars, uiVars, schedVars, audioVars
<1>. QED
  BY <1>1, TypeOfUI, TypeOfReads, TypeOfPlans, TypeOfFills, TypeOfAudio DEF Next, Sched

\* The parts of the type invariant hold in every state of the pipeline.
THEOREM TypesHold == Spec => []TypeInv
  BY TypeInit, TypeNext, PTL DEF Spec

\* The state of the three threads stays in its types, and the queue of scheduled
\* events never holds more than its capacity, whatever the threads do.
THEOREM TypeInvariant == Spec => []TypeOK
  BY TypesHold, TypesAreTypes, PTL

-----------------------------------------------------------------------------
(* The versions of the transport that the threads know *)

\* There are neither live notes nor deletions, and so the tracks stay.
Undisturbed ==
  /\ left["live"] = 0 /\ left["delete"] = 0
  /\ ~ live /\ ~ last.live
  /\ ui \in {"idle", "publish"}
  /\ ~ edit.on /\ ~ seen.edit.on
  /\ topo = 0 /\ published.topo = 0 /\ seen.snap.topo = 0
  /\ last.topo = IF last.epoch = -1 THEN -1 ELSE 0
  /\ known.topo = 0 /\ known.tracks = tracks

\* What the threads know of the transport is older and older, and who knows the
\* same epoch knows the same transport.
Versions ==
  /\ -1 <= last.epoch /\ last.epoch <= seen.snap.epoch
  /\ seen.snap.epoch <= published.epoch /\ published.epoch <= epoch
  /\ last.epoch = seen.snap.epoch => last.playing = seen.snap.playing
  /\ seen.snap.epoch = published.epoch => seen.snap.playing = published.playing
  /\ published.epoch = epoch => published.playing = playing
  /\ spc \in {"fill", "filled"} => seen.snap.playing

\* The transport that the scheduler makes events for.
Source == IF spc \in {"fill", "filled"} THEN seen.snap.epoch ELSE last.epoch

\* Whether that transport plays.
SourcePlays == IF spc \in {"fill", "filled"} THEN seen.snap.playing ELSE last.playing

\* An event was made while its epoch was played.
Made(e) ==
  /\ e.topo = 0 /\ e.epoch <= Source
  /\ e.epoch = Source => SourcePlays

\* All events on their way and all events dispatched were made so, those of the
\* queue for the present source.
AllMade ==
  /\ \A i \in DOMAIN queue : Made(queue[i]) /\ queue[i].epoch = Source
  /\ \A i \in DOMAIN heap : Made(heap[i])
  /\ \A i \in DOMAIN history : Made(history[i])

\* As long as there are only starts, stops and switches.
SwitchInv == OnlySwitches => Undisturbed /\ Versions /\ AllMade

\* At the start no snapshot has been taken up and no event made.
LEMMA SwitchInit == Init => SwitchInv
<1> SUFFICES ASSUME Init, OnlySwitches PROVE Undisturbed /\ Versions /\ AllMade
  BY DEF SwitchInv
<1> USE DEF Init
<1>1. setup.ops["live"] \in Nat /\ setup.ops["delete"] \in Nat
  BY SetupIs DEF Operations
<1>2. left["live"] = 0 /\ left["delete"] = 0
  BY <1>1 DEF OnlySwitches
<1>3. Undisturbed
  BY <1>2 DEF Undisturbed, NoEdit, Snapshot
<1>4. Versions
  <2>1. /\ last.epoch = -1 /\ seen.snap.epoch = 0 /\ published.epoch = 0 /\ epoch = 0
        /\ seen.snap.playing = published.playing /\ published.playing = playing
        /\ spc = "read"
    BY DEF Snapshot
  <2>2. /\ -1 <= last.epoch /\ last.epoch <= seen.snap.epoch /\ last.epoch # seen.snap.epoch
        /\ seen.snap.epoch <= published.epoch /\ published.epoch <= epoch
    BY <2>1
  <2>. QED  BY <2>1, <2>2, Zenon DEF Versions
<1>5. AllMade
  BY DEF AllMade
<1>. QED  BY <1>3, <1>4, <1>5

\* The bounds under which the pipeline runs are constant.
LEMMA SetupStays == [Next]_vars => UNCHANGED setup /\ (OnlySwitches' <=> OnlySwitches)
<1> SUFFICES ASSUME [Next]_vars PROVE UNCHANGED setup
  BY DEF OnlySwitches
<1>. QED
  BY DEF Next, UI, TogglePlay, SwitchPattern, Publish, LiveNote, RequestDelete, DeleteTrack,
         DeletionFails, ApplyEdit, UnmarkEdit, Sched, ReadSnapshot, LoadRendered, LoadKind,
         PlanStopped, PlanFrozen, PlanPlaying, FillChunk, FillOverflows, EndPass, SchedElse,
         Audio, CallbackStart, LoadPlaying, CallbackTransport, LoadEpoch, RenderTurn,
         CallbackEnd, AudioElse, UiElse, vars

\* A step of the UI starts or stops, switches, or publishes.
LEMMA UndisturbedUI ==
  ASSUME TypeInv, Undisturbed, UI
  PROVE  /\ UNCHANGED <<setup, schedVars, audioVars, queue, topo, tracks, edit, live>>
         /\ left'["live"] = 0 /\ left'["delete"] = 0
         /\ \/ /\ epoch' = epoch + 1 /\ playing' \in BOOLEAN
               /\ UNCHANGED published /\ ui' = "publish"
            \/ UNCHANGED <<epoch, playing>> /\ published' = Snapshot /\ ui' = "idle"
<1>1. /\ left \in [Operations -> Nat] /\ left["live"] = 0 /\ left["delete"] = 0
      /\ ui \in {"idle", "publish"} /\ playing \in BOOLEAN
  BY DEF TypeInv, TypeUI, Undisturbed
<1>2. ~ May("live") /\ ~ May("delete")
  BY <1>1 DEF May
<1>3. TogglePlay \/ SwitchPattern \/ Publish
  BY <1>1, <1>2 DEF UI, LiveNote, RequestDelete, DeleteTrack, DeletionFails, ApplyEdit, UnmarkEdit
<1>4. left'["live"] = 0 /\ left'["delete"] = 0
  <2>1. UNCHANGED left \/ left' = [left EXCEPT !["toggle"] = @ - 1]
                       \/ left' = [left EXCEPT !["switch"] = @ - 1]
    BY <1>3 DEF TogglePlay, SwitchPattern, Publish, May
  <2>. QED  BY <1>1, <2>1 DEF Operations
<1>. QED  BY <1>1, <1>3, <1>4 DEF TogglePlay, SwitchPattern, Publish, UiElse

\* A new epoch is a later one.
LEMMA SwitchUI == TypeInv /\ SwitchInv /\ UI /\ OnlySwitches => Undisturbed' /\ Versions' /\ AllMade'
<1> SUFFICES ASSUME TypeInv, SwitchInv, UI, OnlySwitches PROVE Undisturbed' /\ Versions' /\ AllMade'
  OBVIOUS
<1>0. Undisturbed /\ Versions /\ AllMade
  BY DEF SwitchInv
<1>1. /\ UNCHANGED <<setup, schedVars, audioVars, queue, topo, tracks, edit, live>>
      /\ left'["live"] = 0 /\ left'["delete"] = 0
      /\ \/ /\ epoch' = epoch + 1 /\ playing' \in BOOLEAN
            /\ UNCHANGED published /\ ui' = "publish"
         \/ UNCHANGED <<epoch, playing>> /\ published' = Snapshot /\ ui' = "idle"
  BY <1>0, UndisturbedUI
<1>2. epoch \in Nat /\ published.epoch \in Nat /\ seen.snap.epoch \in Nat /\ last.epoch \in Int
  BY DEF TypeInv, TypeUI, TypeSched, SnapshotType
<1>3. Undisturbed'
  BY <1>0, <1>1 DEF Undisturbed, schedVars, audioVars, Snapshot
<1>4. Versions'
  BY <1>0, <1>1, <1>2 DEF Versions, schedVars, Snapshot
<1>5. AllMade'
  BY <1>0, <1>1 DEF AllMade, Made, Source, SourcePlays, schedVars, audioVars
<1>. QED  BY <1>3, <1>4, <1>5

\* A pass that ends leaves the transport it made events for behind.
LEMMA SwitchReads ==
  TypeInv /\ SwitchInv /\ (ReadSnapshot \/ LoadRendered \/ LoadKind \/ EndPass) /\ OnlySwitches
    => Undisturbed' /\ Versions' /\ AllMade'
<1> SUFFICES ASSUME TypeInv, SwitchInv, ReadSnapshot \/ LoadRendered \/ LoadKind \/ EndPass, OnlySwitches
             PROVE Undisturbed' /\ Versions' /\ AllMade'
  OBVIOUS
<1>0. Undisturbed /\ Versions /\ AllMade
  BY DEF SwitchInv
<1> USE DEF ReadSnapshot, LoadRendered, LoadKind, EndPass, SchedElse
<1>1. UNCHANGED <<setup, playing, epoch, topo, tracks, published, live, ui, left, edit,
                  audioVars, queue>>
  OBVIOUS
<1>2. /\ epoch \in Nat /\ published.epoch \in Nat /\ seen.snap.epoch \in Nat /\ last.epoch \in Int
      /\ seen = [snap |-> seen.snap, rendered |-> seen.rendered, edit |-> seen.edit]
      /\ seen.edit = [on |-> seen.edit.on, request |-> seen.edit.request,
                      ready |-> seen.edit.ready, applied |-> seen.edit.applied]
      /\ edit = [on |-> edit.on, request |-> edit.request,
                 ready |-> edit.ready, applied |-> edit.applied]
      /\ last = [playing |-> last.playing, epoch |-> last.epoch, topo |-> last.topo,
                 live |-> last.live]
  BY DEF TypeInv, TypeUI, TypeSched, SnapshotType, EditType
<1>3. CASE ReadSnapshot
  <2>1. /\ seen'.snap = published /\ seen'.edit = seen.edit /\ UNCHANGED last
        /\ spc = "read" /\ spc' = "load"
    BY <1>2, <1>3
  <2>2. Undisturbed'
    BY <1>0, <1>1, <2>1 DEF Undisturbed, audioVars
  <2>3. Versions'
    BY <1>0, <1>1, <1>2, <2>1 DEF Versions
  <2>4. AllMade'
    BY <1>0, <1>1, <2>1 DEF AllMade, Made, Source, SourcePlays, audioVars
  <2>. QED  BY <2>2, <2>3, <2>4
<1>4. CASE LoadRendered \/ LoadKind
  <2>1. /\ seen'.snap = seen.snap /\ seen'.edit.on = FALSE /\ UNCHANGED last
        /\ spc \in {"load", "kind"} /\ spc' \in {"kind", "plan"}
    <3>1. ~ edit.on
      BY <1>0 DEF Undisturbed
    <3>2. CASE LoadRendered
      <4>1. seen' = [snap |-> seen.snap, rendered |-> rendered,
                     edit |-> [on |-> FALSE, request |-> edit.request,
                               ready |-> edit.ready, applied |-> edit.applied]]
        BY <1>2, <3>2
      <4>2. seen'.snap = seen.snap /\ seen'.edit.on = FALSE
        BY <4>1
      <4>3. UNCHANGED last /\ spc = "load" /\ spc' = "kind"
        BY <3>2
      <4>. QED  BY <4>2, <4>3
    <3>3. CASE LoadKind
      <4>1. seen' = [snap |-> seen.snap, rendered |-> seen.rendered,
                     edit |-> [on |-> edit.on, request |-> seen.edit.request,
                               ready |-> seen.edit.ready, applied |-> seen.edit.applied]]
        BY <1>2, <3>3
      <4>2. edit.on = FALSE
        BY <3>1 DEF TypeInv, TypeUI, EditType
      <4>. QED  BY <3>3, <4>1, <4>2
    <3>. QED  BY <1>4, <3>2, <3>3
  <2>2. Undisturbed'
    BY <1>0, <1>1, <2>1 DEF Undisturbed, audioVars
  <2>3. Versions'
    BY <1>0, <1>1, <1>2, <2>1 DEF Versions
  <2>4. AllMade'
    BY <1>0, <1>1, <2>1 DEF AllMade, Made, Source, SourcePlays, audioVars
  <2>. QED  BY <2>2, <2>3, <2>4
<1>5. CASE EndPass
  <2>1. /\ last' = [playing |-> seen.snap.playing, epoch |-> seen.snap.epoch,
                    topo |-> seen.snap.topo, live |-> last.live]
        /\ UNCHANGED seen /\ spc \in {"fill", "filled"} /\ spc' = "read"
    BY <1>2, <1>5
  <2>2. Undisturbed'
    BY <1>0, <1>1, <1>2, <2>1 DEF Undisturbed, audioVars
  <2>3. Versions'
    BY <1>0, <1>1, <1>2, <2>1 DEF Versions
  <2>4. AllMade'
    BY <1>0, <1>1, <2>1 DEF AllMade, Made, Source, SourcePlays, audioVars
  <2>. QED  BY <2>2, <2>3, <2>4
<1>. QED  BY <1>3, <1>4, <1>5

\* A pass makes events for a new transport only after it has emptied the queue.
LEMMA SwitchPlans ==
  TypeInv /\ SwitchInv /\ (PlanStopped \/ PlanFrozen \/ PlanPlaying) /\ OnlySwitches
    => /\ Undisturbed' /\ Versions' /\ AllMade'
       /\ ~ PlanFrozen /\ ~ LiveChanges
       /\ Source < seen.snap.epoch \/ (Source = seen.snap.epoch /\ ~ SnapshotChanges)
<1> SUFFICES ASSUME TypeInv, SwitchInv, PlanStopped \/ PlanFrozen \/ PlanPlaying, OnlySwitches
             PROVE  /\ Undisturbed' /\ Versions' /\ AllMade'
                    /\ ~ PlanFrozen /\ ~ LiveChanges
                    /\ Source < seen.snap.epoch \/ (Source = seen.snap.epoch /\ ~ SnapshotChanges)
  OBVIOUS
<1>0. Undisturbed /\ Versions /\ AllMade
  BY DEF SwitchInv
<1>1. UNCHANGED <<setup, playing, epoch, topo, tracks, published, live, ui, left, audioVars, seen>>
      /\ spc = "plan"
  BY DEF PlanStopped, PlanFrozen, PlanPlaying, SchedElse
<1>2. /\ epoch \in Nat /\ published.epoch \in Nat /\ seen.snap.epoch \in Nat /\ last.epoch \in Int
      /\ live \in BOOLEAN /\ last.live \in BOOLEAN
      /\ last = [playing |-> last.playing, epoch |-> last.epoch, topo |-> last.topo,
                 live |-> last.live]
  BY DEF TypeInv, TypeUI, TypeSched, SnapshotType
<1>3. ~ PlanFrozen /\ ~ LiveChanges /\ edit' = edit
  BY <1>0, <1>2 DEF Undisturbed, PlanFrozen, PlanStopped, PlanPlaying, Frozen, LiveChanges, Acknowledged
<1>4. Source = last.epoch /\ SourcePlays = last.playing
  BY <1>1 DEF Source, SourcePlays
<1>5. SnapshotChanges <=> last.epoch # seen.snap.epoch
  BY <1>0, <1>2 DEF SnapshotChanges, Undisturbed, Versions
<1>6. CASE PlanStopped
  <2>1. /\ last' = [playing |-> FALSE, epoch |-> seen.snap.epoch, topo |-> seen.snap.topo,
                    live |-> live]
        /\ spc' = "read" /\ ~ seen.snap.playing
        /\ queue' = << >> \/ (queue' = queue /\ last.epoch = seen.snap.epoch)
    BY <1>5, <1>6 DEF PlanStopped
  <2>2. Undisturbed'
    BY <1>0, <1>1, <1>2, <1>3, <2>1 DEF Undisturbed, audioVars
  <2>3. seen.snap.playing \in BOOLEAN
    BY DEF TypeInv, TypeSched, SnapshotType
  <2>4. Versions'
    <3>1. last'.playing = seen.snap.playing /\ last'.epoch = seen.snap.epoch
      BY <2>1, <2>3
    <3>2. /\ -1 <= last'.epoch /\ last'.epoch <= seen'.snap.epoch
          /\ seen'.snap.epoch <= published'.epoch /\ published'.epoch <= epoch'
      BY <1>0, <1>1, <1>2, <3>1 DEF Versions
    <3>. QED  BY <1>0, <1>1, <2>1, <3>1, <3>2, Zenon DEF Versions
  <2>5. Source' = seen.snap.epoch /\ SourcePlays' = FALSE
    BY <2>1 DEF Source, SourcePlays
  <2>6. last.epoch = seen.snap.epoch => ~ last.playing
    BY <1>0, <2>1 DEF Versions
  <2>7. \A e \in Events : Made(e) => Made(e)'
    <3> SUFFICES ASSUME NEW e \in Events, Made(e) PROVE Made(e)'
      OBVIOUS
    <3>1. e.epoch \in Nat /\ last.epoch <= seen.snap.epoch
      BY <1>0 DEF Events, Versions
    <3>. QED  BY <1>2, <1>4, <2>5, <2>6, <3>1 DEF Made
  <2>8. AllMade'
    BY <1>0, <1>1, <1>4, <2>1, <2>5, <2>7, LenProperties
       DEF AllMade, TypeInv, TypeAudio, TypeQueue, audioVars
  <2>. QED  BY <1>0, <1>2, <1>3, <1>4, <1>5, <2>2, <2>4, <2>8 DEF Versions
<1>7. CASE PlanPlaying
  <2>1. /\ last' = [playing |-> last.playing, epoch |-> last.epoch, topo |-> last.topo,
                    live |-> live]
        /\ spc' = "fill" /\ seen.snap.playing
        /\ queue' = << >> \/ (queue' = queue /\ last.epoch = seen.snap.epoch)
    BY <1>2, <1>5, <1>7 DEF PlanPlaying
  <2>2. Undisturbed'
    BY <1>0, <1>1, <1>2, <1>3, <2>1 DEF Undisturbed, audioVars
  <2>4. Versions'
    BY <1>0, <1>1, <1>2, <2>1 DEF Versions
  <2>5. Source' = seen.snap.epoch /\ SourcePlays'
    BY <1>1, <2>1 DEF Source, SourcePlays
  <2>7. \A e \in Events : Made(e) => Made(e)'
    <3> SUFFICES ASSUME NEW e \in Events, Made(e) PROVE Made(e)'
      OBVIOUS
    <3>1. e.epoch \in Nat /\ last.epoch <= seen.snap.epoch
      BY <1>0 DEF Events, Versions
    <3>. QED  BY <1>2, <1>4, <2>5, <3>1 DEF Made
  <2>8. AllMade'
    BY <1>0, <1>1, <1>4, <2>1, <2>5, <2>7, LenProperties
       DEF AllMade, TypeInv, TypeAudio, TypeQueue, audioVars
  <2>. QED  BY <1>0, <1>2, <1>3, <1>4, <1>5, <2>2, <2>4, <2>8 DEF Versions
<1>. QED  BY <1>3, <1>6, <1>7

\* Filling appends events of the transport that the pass has read.
LEMMA FillAppends ==
  ASSUME TypeInv, FillChunk \/ FillOverflows
  PROVE  \E r \in Seq(Events) :
           /\ queue' = queue \o r
           /\ \A i \in DOMAIN r : r[i].epoch = seen.snap.epoch /\ r[i].topo = seen.snap.topo
<1> DEFINE c == Started(clock)
           events == Scheduled(c)
<1>1. c \in Clocks
  BY ClockTypes DEF TypeInv, TypeUI, TypeSched
<1>2. /\ events \in Seq(Events) /\ Len(events) \in Nat /\ DOMAIN events = 1..Len(events)
      /\ \A i \in DOMAIN events : /\ events[i].epoch = seen.snap.epoch
                                  /\ events[i].topo = seen.snap.topo
  <2>1. events \in Seq(Events) /\ Len(events) \in Nat /\ DOMAIN events = 1..Len(events)
    BY <1>1, ScheduledTypes, LenProperties
  <2>. QED  BY <2>1 DEF Scheduled
<1>3. /\ queue \in Seq(Events) /\ Len(queue) \in Nat /\ setup.room \in Nat
      /\ Len(queue) <= setup.room
  BY SetupIs, LenProperties DEF TypeInv, TypeUI, TypeQueue
<1> HIDE DEF events
<1>4. CASE FillChunk
  <2>1. queue' = queue \o events
    BY <1>4 DEF FillChunk, events
  <2>. QED  BY <1>2, <2>1
<1>5. CASE FillOverflows
  <2> DEFINE n == setup.room - Len(queue)
             r == SubSeq(events, 1, n)
  <2>1. queue' = queue \o r /\ Len(queue) + Len(events) > setup.room
    BY <1>5 DEF FillOverflows, events
  <2>2. n \in Nat /\ n <= Len(events)
    BY <1>2, <1>3, <2>1
  <2> HIDE DEF n
  <2>3. \A i \in 1..n : i \in DOMAIN events /\ events[i] \in Events
    BY <1>2, <2>2, LenProperties
  <2>4. r \in Seq(Events) /\ Len(r) = n /\ \A i \in 1..n : r[i] = events[i]
    BY <2>2, <2>3, SubSeqProperties
  <2> HIDE DEF r
  <2>5. DOMAIN r = 1..n
    BY <2>4, LenProperties
  <2>6. \A i \in DOMAIN r : r[i].epoch = seen.snap.epoch /\ r[i].topo = seen.snap.topo
    BY <1>2, <2>3, <2>4, <2>5
  <2>. QED  BY <2>1, <2>4, <2>6
<1>. QED  BY <1>4, <1>5

\* A chunk holds events of the transport that the pass has read, which plays.
LEMMA SwitchFills ==
  TypeInv /\ SwitchInv /\ (FillChunk \/ FillOverflows) /\ OnlySwitches
    => Undisturbed' /\ Versions' /\ AllMade'
<1> SUFFICES ASSUME TypeInv, SwitchInv, FillChunk \/ FillOverflows, OnlySwitches
             PROVE  Undisturbed' /\ Versions' /\ AllMade'
  OBVIOUS
<1>0. Undisturbed /\ Versions /\ AllMade
  BY DEF SwitchInv
<1>1. /\ UNCHANGED <<setup, playing, epoch, topo, tracks, published, live, ui, left, audioVars,
                     seen, edit, last>>
      /\ spc = "fill" /\ spc' \in {"fill", "filled"}
  BY DEF FillChunk, FillOverflows, Filling, SchedElse
<1>2. Undisturbed' /\ Versions'
  BY <1>0, <1>1 DEF Undisturbed, Versions, audioVars
<1>3. /\ Source' = Source /\ Source = seen.snap.epoch /\ SourcePlays' /\ SourcePlays
      /\ Source \in Nat /\ seen.snap.topo = 0
  BY <1>0, <1>1 DEF Source, SourcePlays, Versions, Undisturbed, TypeInv, TypeSched, SnapshotType
<1>4. PICK r \in Seq(Events) :
        /\ queue' = queue \o r
        /\ \A i \in DOMAIN r : r[i].epoch = seen.snap.epoch /\ r[i].topo = seen.snap.topo
  BY FillAppends
<1>5. ASSUME NEW i \in DOMAIN queue' PROVE queue'[i].topo = 0 /\ queue'[i].epoch = Source
  <2>1. /\ Len(r) \in Nat /\ DOMAIN r = 1..Len(r)
        /\ queue \in Seq(Events) /\ Len(queue) \in Nat /\ DOMAIN queue = 1..Len(queue)
    BY LenProperties DEF TypeInv, TypeQueue
  <2>2. /\ DOMAIN queue' = 1..Len(queue) + Len(r)
        /\ queue'[i] = IF i <= Len(queue) THEN queue[i] ELSE r[i - Len(queue)]
    BY <1>4, <2>1, ConcatProperties, LenProperties
  <2>3. CASE i <= Len(queue)
    <3>1. i \in DOMAIN queue /\ queue'[i] = queue[i]
      BY <2>1, <2>2, <2>3
    <3>. QED  BY <1>0, <3>1 DEF AllMade, Made
  <2>4. CASE ~ i <= Len(queue)
    <3>1. i - Len(queue) \in DOMAIN r /\ queue'[i] = r[i - Len(queue)]
      BY <2>1, <2>2, <2>4
    <3>. QED  BY <1>3, <1>4, <3>1
  <2>. QED  BY <2>3, <2>4
<1>6. AllMade'
  <2>1. \A e : e.topo = 0 /\ e.epoch = Source => Made(e)'
    BY <1>3 DEF Made
  <2>2. \A e : Made(e) => Made(e)'
    BY <1>3 DEF Made
  <2>3. /\ \A i \in DOMAIN heap' : heap'[i] = heap[i] /\ i \in DOMAIN heap
        /\ \A i \in DOMAIN history' : history'[i] = history[i] /\ i \in DOMAIN history
    BY <1>1 DEF audioVars
  <2>. QED  BY <1>0, <1>3, <1>5, <2>1, <2>2, <2>3 DEF AllMade
<1>. QED  BY <1>2, <1>6

\* The callback makes no events.
LEMMA SwitchAudio ==
  TypeInv /\ SwitchInv /\ Audio /\ OnlySwitches => Undisturbed' /\ Versions' /\ AllMade'
<1> SUFFICES ASSUME TypeInv, SwitchInv, Audio, OnlySwitches
             PROVE  Undisturbed' /\ Versions' /\ AllMade'
  OBVIOUS
<1>0. Undisturbed /\ Versions /\ AllMade
  BY DEF SwitchInv
<1> USE DEF CallbackStart, LoadPlaying, CallbackTransport, LoadEpoch, RenderTurn, CallbackEnd
<1>1. UNCHANGED <<setup, uiVars, schedVars>> /\ queue' \in {queue, << >>}
  BY DEF Audio, AudioElse
<1>2. known'.topo = 0 /\ known'.tracks = tracks
  <2>1. known \in [tracks : Nat, topo : Nat, playing : BOOLEAN]
    BY DEF TypeInv, TypeAudio
  <2>2. \/ known' = known
        \/ known' = [tracks |-> tracks, topo |-> topo, playing |-> FALSE]
        \/ known' = [known EXCEPT !.playing = got.playing]
    BY DEF Audio
  <2>. QED  BY <1>0, <2>1, <2>2 DEF Undisturbed
<1>3. Undisturbed' /\ Versions'
  BY <1>0, <1>1, <1>2 DEF Undisturbed, Versions, uiVars, schedVars
<1>4. \A e : Made(e)' <=> Made(e)
  BY <1>1 DEF Made, Source, SourcePlays, schedVars
<1>5. (\A i \in DOMAIN heap' : Made(heap'[i])) /\ (\A i \in DOMAIN history' : Made(history'[i]))
  <2>1. CASE RenderTurn
    <3> DEFINE all == heap \o queue
               current == {i \in DOMAIN all : all[i].epoch = got.epoch}
               due == {i \in current : all[i].time <= cur}
               late == current \ due
               played == Popped(all, due)
               rest == Popped(all, late)
    <3>1. history' = history \o played /\ heap' = rest
      BY <2>1
    <3>2. /\ all \in Seq(Events) /\ due \in SUBSET DOMAIN all /\ late \in SUBSET DOMAIN all
          /\ history \in Seq(Events)
          /\ \A i \in DOMAIN all : Made(all[i])
      <4>1. heap \in Seq(Events) /\ queue \in Seq(Events) /\ history \in Seq(Events)
        BY DEF TypeInv, TypeAudio, TypeQueue
      <4>2. \A i \in DOMAIN all : \/ i \in DOMAIN heap /\ all[i] = heap[i]
                                  \/ i - Len(heap) \in DOMAIN queue /\ all[i] = queue[i - Len(heap)]
        <5>1. /\ Len(heap) \in Nat /\ DOMAIN heap = 1..Len(heap)
              /\ Len(queue) \in Nat /\ DOMAIN queue = 1..Len(queue)
          BY <4>1, LenProperties
        <5>2. /\ DOMAIN all = 1..Len(heap) + Len(queue)
              /\ \A i \in 1..Len(heap) + Len(queue) :
                   all[i] = IF i <= Len(heap) THEN heap[i] ELSE queue[i - Len(heap)]
          BY <4>1, ConcatProperties, LenProperties
        <5> HIDE DEF all
        <5>. QED  BY <5>1, <5>2
      <4>. QED  BY <1>0, <4>1, <4>2, ConcatProperties DEF AllMade
    <3> HIDE DEF all, due, late
    <3>3. /\ played \in Seq(Events) /\ rest \in Seq(Events)
          /\ \A k \in DOMAIN played : Made(played[k])
          /\ \A k \in DOMAIN rest : Made(rest[k])
      BY <3>2, PoppedLists
    <3> HIDE DEF played, rest
    <3>4. \A i \in DOMAIN (history \o played) : Made((history \o played)[i])
      <4>1. /\ Len(history) \in Nat /\ DOMAIN history = 1..Len(history)
            /\ Len(played) \in Nat /\ DOMAIN played = 1..Len(played)
        BY <3>2, <3>3, LenProperties
      <4>2. /\ DOMAIN (history \o played) = 1..Len(history) + Len(played)
            /\ \A i \in 1..Len(history) + Len(played) :
                 (history \o played)[i] = IF i <= Len(history) THEN history[i]
                                          ELSE played[i - Len(history)]
        BY <3>2, <3>3, ConcatProperties, LenProperties
      <4>3. ASSUME NEW i \in DOMAIN (history \o played) PROVE Made((history \o played)[i])
        <5>1. CASE i <= Len(history)
          <6>1. i \in DOMAIN history /\ (history \o played)[i] = history[i]
            BY <4>1, <4>2, <5>1
          <6>. QED  BY <1>0, <6>1 DEF AllMade
        <5>2. CASE ~ i <= Len(history)
          <6>1. /\ i - Len(history) \in DOMAIN played
                /\ (history \o played)[i] = played[i - Len(history)]
            BY <4>1, <4>2, <5>2
          <6>. QED  BY <3>3, <6>1
        <5>. QED  BY <5>1, <5>2
      <4>. QED  BY <4>3
    <3>. QED  BY <3>1, <3>3, <3>4
  <2>2. CASE ~ RenderTurn
    <3>1. heap' \in {heap, << >>} /\ history' = history
      BY <2>2 DEF Audio
    <3>. QED  BY <1>0, <3>1 DEF AllMade
  <2>. QED  BY <2>1, <2>2
<1>6. \A i \in DOMAIN queue' : Made(queue'[i]) /\ queue'[i].epoch = Source
  BY <1>0, <1>1 DEF AllMade
<1>7. AllMade'
  BY <1>1, <1>4, <1>5, <1>6 DEF AllMade, Source, schedVars
<1>. QED  BY <1>3, <1>7

\* Every step keeps the versions apart.
LEMMA SwitchNext == TypeInv /\ SwitchInv /\ [Next]_vars => SwitchInv'
<1> SUFFICES ASSUME TypeInv, SwitchInv, [Next]_vars, OnlySwitches
             PROVE  Undisturbed' /\ Versions' /\ AllMade'
  BY SetupStays DEF SwitchInv
<1>1. CASE UNCHANGED vars
  BY <1>1 DEF SwitchInv, Undisturbed, Versions, AllMade, Made, Source, SourcePlays, vars, uiVars,
              schedVars, audioVars
<1>. QED
  BY <1>1, SwitchUI, SwitchReads, SwitchPlans, SwitchFills, SwitchAudio DEF Next, Sched

\* Whatever the timing of the threads, an event on its way was made for a
\* transport that played, and the scheduler knows of none that the UI has not
\* published.
THEOREM SwitchesHold == Spec => []SwitchInv
  BY SwitchInit, SwitchNext, TypesHold, PTL DEF Spec

-----------------------------------------------------------------------------

\* Which of the events that are on their way stay or are played.
LEMMA KeptIs ==
  ASSUME TypeInv, TypeInv',
         \A e \in Range(queue) \cup Range(heap) :
           e.epoch = epoch' /\ e.topo = topo'
             => e \in Range(queue') \cup Range(heap') \cup Range(history')
  PROVE  Kept
<1>1. /\ queue \in Seq(Events) /\ heap \in Seq(Events)
      /\ queue' \in Seq(Events) /\ heap' \in Seq(Events) /\ history' \in Seq(Events)
  BY DEF TypeInv, TypeQueue, TypeAudio
<1>2. Range(queue \o heap) = Range(queue) \cup Range(heap)
  BY <1>1, RangeOfConcat
<1>3. Range(queue' \o heap' \o history') = Range(queue') \cup Range(heap') \cup Range(history')
  <2>1. queue' \o heap' \in Seq(Events) /\ Range(queue' \o heap') = Range(queue') \cup Range(heap')
    BY <1>1, RangeOfConcat, ConcatProperties
  <2> DEFINE qh == queue' \o heap'
  <2>2. qh \in Seq(Events) /\ Range(qh) = Range(queue') \cup Range(heap')
    BY <2>1
  <2> HIDE DEF qh
  <2>3. Range(qh \o history') = Range(qh) \cup Range(history')
    BY <1>1, <2>2, RangeOfConcat
  <2>4. (queue' \o heap') \o history' = qh \o history'
    BY DEF qh
  <2>. QED  BY <2>2, <2>3, <2>4
<1>. QED  BY <1>2, <1>3 DEF Kept, Fresh

\* Who plays an event of the current epoch plays.
LEMMA MadeIs ==
  ASSUME TypeInv, Versions, NEW e \in Events, Made(e)
  PROVE  /\ e.epoch \in Nat /\ e.topo = 0
         /\ e.epoch <= Source /\ Source <= epoch
         /\ e.epoch = Source => SourcePlays
         /\ e.epoch = epoch => playing
<1>2. e.epoch \in Nat /\ e.topo = 0 /\ e.epoch <= Source /\ (e.epoch = Source => SourcePlays)
  BY DEF Events, Made
<1>3. /\ epoch \in Nat /\ published.epoch \in Nat /\ seen.snap.epoch \in Nat /\ last.epoch \in Int
      /\ Source \in Int
  BY DEF TypeInv, TypeUI, TypeSched, SnapshotType, Source
<1>4. Source <= epoch
  BY <1>3 DEF Versions, Source
<1>5. ASSUME e.epoch = epoch PROVE playing
  <2>1. Source = epoch /\ SourcePlays
    BY <1>2, <1>3, <1>4, <1>5
  <2>2. seen.snap.epoch = epoch /\ published.epoch = epoch
    BY <1>3, <2>1 DEF Versions, Source
  <2>3. SourcePlays = seen.snap.playing
    <3>1. CASE spc \in {"fill", "filled"}
      BY <3>1 DEF SourcePlays
    <3>2. CASE spc \notin {"fill", "filled"}
      <4>1. last.epoch = seen.snap.epoch
        BY <2>1, <2>2, <3>2 DEF Source
      <4>. QED  BY <3>2, <4>1 DEF Versions, SourcePlays
    <3>. QED  BY <3>1, <3>2
  <2>. QED  BY <2>1, <2>2, <2>3 DEF Versions
<1>. QED  BY <1>2, <1>4, <1>5

\* What has been dispatched is of epochs that the callback has loaded, and it
\* has loaded none of the transport that replaced the one it is about to act on.
Heard ==
  /\ got.epoch <= epoch
  /\ \A e \in Range(history) : e.epoch <= got.epoch
  /\ apc = "transport" /\ got.playing # playing => got.epoch < epoch

\* The events of a sequence carry numbers.
LEMMA EpochsAreNumbers ==
  ASSUME NEW s \in Seq(Events) PROVE \A e \in Range(s) : e.epoch \in Nat
<1>1. \A i \in DOMAIN s : s[i] \in Events
  BY LenProperties
<1>2. \A e \in Range(s) : e \in Events
  BY <1>1 DEF Range
<1>. QED  BY <1>2 DEF Events

\* Nothing has been dispatched at the start.
LEMMA HeardInit == Init => Heard
  BY DEF Init, Heard, Range

\* A turn dispatches events of the epoch it has loaded, and a start or stop opens
\* a new epoch.
LEMMA HeardNext == TypeInv /\ Heard /\ [Next]_vars => Heard'
<1> SUFFICES ASSUME TypeInv, Heard, [Next]_vars PROVE Heard'
  OBVIOUS
<1>0. /\ got \in [playing : BOOLEAN, epoch : Nat] /\ epoch \in Nat /\ playing \in BOOLEAN
      /\ history \in Seq(Events) /\ heap \in Seq(Events) /\ queue \in Seq(Events)
  BY DEF TypeInv, TypeUI, TypeAudio, TypeQueue
<1>a. \A e \in Range(history) : e.epoch \in Nat
  BY <1>0, EpochsAreNumbers
<1>1. CASE UI
  <2>1. /\ UNCHANGED audioVars
        /\ \/ epoch' = epoch + 1
           \/ UNCHANGED <<epoch, playing>>
    BY <1>1 DEF UI, TogglePlay, SwitchPattern, Publish, LiveNote, RequestDelete, DeleteTrack,
                DeletionFails, ApplyEdit, UnmarkEdit, UiElse
  <2>. QED  BY <1>0, <2>1 DEF Heard, audioVars
<1>2. CASE Sched \/ UNCHANGED vars
  <2>1. UNCHANGED <<audioVars, epoch, playing>>
    BY <1>2 DEF Sched, ReadSnapshot, LoadRendered, LoadKind, PlanStopped, PlanFrozen, PlanPlaying,
                FillChunk, FillOverflows, EndPass, SchedElse, vars, uiVars
  <2>. QED  BY <2>1 DEF Heard, audioVars
<1>3. CASE RenderTurn
  <2> DEFINE all == heap \o queue
             current == {i \in DOMAIN all : all[i].epoch = got.epoch}
             due == {i \in current : all[i].time <= cur}
             played == Popped(all, due)
  <2>1. /\ history' = history \o played /\ apc' = "turn"
        /\ UNCHANGED <<got, epoch, playing>>
    BY <1>3 DEF RenderTurn, AudioElse, uiVars
  <2>2. all \in Seq(Events) /\ due \in SUBSET DOMAIN all
    BY <1>0, ConcatProperties
  <2>3. \A i \in due : all[i].epoch <= got.epoch
    BY <1>0
  <2> HIDE DEF all, due
  <2>4. /\ played \in Seq(Events)
        /\ \A k \in DOMAIN played : played[k].epoch <= got.epoch
    BY <2>2, <2>3, PoppedLists
  <2> HIDE DEF played
  <2>5. Range(history') = Range(history) \cup Range(played)
    BY <1>0, <2>1, <2>4, RangeOfConcat
  <2>6. \A e \in Range(history') : e.epoch <= got.epoch
    BY <2>4, <2>5 DEF Heard, Range
  <2>. QED  BY <2>1, <2>6 DEF Heard
<1>4. CASE CallbackStart \/ LoadPlaying \/ CallbackTransport \/ CallbackEnd
  <2>1. /\ UNCHANGED <<epoch, playing, history>> /\ got'.epoch = got.epoch
        /\ apc' = "transport" => got'.playing = playing
    BY <1>0, <1>4 DEF CallbackStart, LoadPlaying, CallbackTransport, CallbackEnd, AudioElse, uiVars
  <2>. QED  BY <2>1 DEF Heard
<1>5. CASE LoadEpoch
  <2>1. /\ UNCHANGED <<epoch, playing, history>> /\ got'.epoch = epoch /\ apc' = "render"
    BY <1>0, <1>5 DEF LoadEpoch, AudioElse, uiVars
  <2>. QED  BY <1>0, <1>a, <2>1 DEF Heard
<1>. QED  BY <1>1, <1>2, <1>3, <1>4, <1>5 DEF Next, Audio

\* What the callback has played is of epochs no newer than it has loaded.
THEOREM HeardHolds == Spec => []Heard
  BY HeardInit, HeardNext, TypesHold, PTL DEF Spec

\* An outdated callback has dispatched nothing of the present epoch.
LEMMA OutdatedIsUnheard == TypeInv /\ Heard /\ Heard' /\ [Next]_vars /\ Outdated => Unheard
<1> SUFFICES ASSUME TypeInv, Heard, Heard', [Next]_vars, Outdated PROVE Unheard
  OBVIOUS
<1>0. /\ got \in [playing : BOOLEAN, epoch : Nat] /\ epoch \in Nat
      /\ \A e \in Range(history) : e.epoch \in Nat
  BY EpochsAreNumbers DEF TypeInv, TypeUI, TypeAudio
<1>1. got.epoch < epoch
  BY <1>0 DEF Heard, Outdated
<1>2. epoch' \in {epoch, epoch + 1} /\ got'.epoch = got.epoch
  BY <1>0
     DEF Outdated, Next, UI, TogglePlay, SwitchPattern, Publish, LiveNote, RequestDelete, DeleteTrack,
         DeletionFails, ApplyEdit, UnmarkEdit, UiElse, Sched, ReadSnapshot, LoadRendered, LoadKind,
         PlanStopped, PlanFrozen, PlanPlaying, FillChunk, FillOverflows, EndPass, SchedElse,
         Audio, CallbackStart, LoadPlaying, CallbackTransport, LoadEpoch, RenderTurn, CallbackEnd,
         AudioElse, audioVars, uiVars, vars
<1>3. \A e \in Range(history') : e.epoch <= got.epoch
  BY <1>2 DEF Heard
<1>4. ASSUME NEW e \in Range(history'), e.epoch = epoch' PROVE FALSE
  BY <1>0, <1>1, <1>2, <1>3, <1>4
<1>. QED  BY <1>4 DEF Unheard

\* No step loses an event of the current epoch: the scheduler empties the queue
\* only for a later epoch, the callback only when it has read that playing stopped, or with an older epoch.
LEMMA SwitchKeeps ==
  TypeInv /\ TypeInv' /\ SwitchInv /\ [Next]_vars => [OnlySwitches => Outdated \/ Kept]_vars
<1> SUFFICES ASSUME TypeInv, TypeInv', SwitchInv, Next, OnlySwitches, ~ Outdated
             PROVE  Kept
  OBVIOUS
<1>0. Undisturbed /\ Versions /\ AllMade
  BY DEF SwitchInv
<1> DEFINE Way == Range(queue) \cup Range(heap)
           Way2 == Range(queue') \cup Range(heap') \cup Range(history')
<1>1. \A e \in Way : /\ e.epoch \in Nat /\ e.topo = 0
                     /\ e.epoch <= Source /\ Source <= epoch
                     /\ e.epoch = Source => SourcePlays
                     /\ e.epoch = epoch => playing
  <2>1. queue \in Seq(Events) /\ heap \in Seq(Events)
    BY DEF TypeInv, TypeQueue, TypeAudio
  <2>2. /\ \A i \in DOMAIN queue : queue[i] \in Events
        /\ \A i \in DOMAIN heap : heap[i] \in Events
    BY <2>1, LenProperties
  <2>3. \A e \in Way : e \in Events /\ Made(e)
    BY <1>0, <2>2 DEF AllMade, Range
  <2>. QED  BY <1>0, <2>3, MadeIs
<1>2. /\ queue \in Seq(Events) /\ heap \in Seq(Events) /\ history \in Seq(Events)
      /\ epoch \in Nat /\ seen.snap.epoch \in Nat /\ Source \in Int
  BY DEF TypeInv, TypeUI, TypeSched, TypeQueue, TypeAudio, SnapshotType, Source
<1> SUFFICES ASSUME NEW e \in Way, e.epoch = epoch', e.topo = topo' PROVE e \in Way2
  BY KeptIs
<1>3. e.epoch <= epoch /\ e.epoch \in Nat
  BY <1>1, <1>2
<1>4. CASE UI
  <2>1. UNCHANGED <<queue, heap>>
    BY <1>0, <1>4, UndisturbedUI DEF audioVars
  <2>. QED  BY <2>1
<1>5. CASE ReadSnapshot \/ LoadRendered \/ LoadKind \/ EndPass
  <2>1. UNCHANGED <<queue, heap>>
    BY <1>5 DEF ReadSnapshot, LoadRendered, LoadKind, EndPass, SchedElse, audioVars
  <2>. QED  BY <2>1
<1>6. CASE PlanStopped \/ PlanFrozen \/ PlanPlaying
  <2>2. /\ UNCHANGED <<heap, epoch>> /\ spc = "plan"
        /\ ~ PlanFrozen /\ ~ LiveChanges /\ ~ seen.edit.on
        /\ Source < seen.snap.epoch \/ (Source = seen.snap.epoch /\ ~ SnapshotChanges)
    BY <1>0, <1>6, SwitchPlans
       DEF Undisturbed, PlanStopped, PlanFrozen, PlanPlaying, SchedElse, audioVars
  <2>3. CASE e \in Range(heap)
    BY <2>2, <2>3
  <2>4. CASE e \in Range(queue)
    <3>1. e.epoch = epoch /\ Source = epoch /\ seen.snap.epoch = epoch
      <4>1. seen.snap.epoch <= epoch
        BY <1>0, <1>2 DEF Versions, TypeInv, TypeUI, SnapshotType
      <4>. QED  BY <1>1, <1>2, <2>2, <4>1
    <3>2. last.playing /\ seen.snap.playing /\ ~ SnapshotChanges
      <4>1. Source = last.epoch /\ SourcePlays = last.playing
        BY <2>2 DEF Source, SourcePlays
      <4>2. ~ SnapshotChanges
        BY <1>2, <2>2, <3>1
      <4>3. SourcePlays
        BY <1>1, <3>1
      <4>4. last.playing = seen.snap.playing
        BY <1>0, <3>1, <4>1 DEF Versions
      <4>. QED  BY <4>1, <4>2, <4>3, <4>4
    <3>3. queue' = queue
      BY <1>6, <2>2, <3>2 DEF PlanStopped, PlanPlaying
    <3>. QED  BY <2>4, <3>3
  <2>. QED  BY <2>3, <2>4
<1>7. CASE FillChunk \/ FillOverflows
  <2>1. UNCHANGED heap /\ \E r \in Seq(Events) : queue' = queue \o r
    BY <1>7, FillAppends DEF FillChunk, FillOverflows, SchedElse, audioVars
  <2>2. Range(queue) \subseteq Range(queue')
    BY <1>2, <2>1, RangeOfConcat
  <2>. QED  BY <2>1, <2>2
<1>8. CASE Audio
  <2>1. /\ UNCHANGED <<epoch, topo, playing>> /\ e.epoch = epoch /\ playing /\ ~ edit.on
        /\ topo = known.topo /\ tracks = known.tracks
    <3>1. UNCHANGED <<epoch, topo, playing>>
      BY <1>8 DEF Audio, CallbackStart, LoadPlaying, CallbackTransport, LoadEpoch, RenderTurn,
                  CallbackEnd, AudioElse, uiVars
    <3>. QED  BY <1>0, <1>1, <3>1 DEF Undisturbed
  <2>2. CASE CallbackStart
    <3>1. UNCHANGED <<queue, heap>>
      BY <2>1, <2>2 DEF CallbackStart
    <3>. QED  BY <3>1
  <2>3. CASE CallbackTransport
    <3>1. got.playing
      BY <2>1, <2>3 DEF CallbackTransport, Outdated, TypeInv, TypeUI, TypeAudio
    <3>2. UNCHANGED <<queue, heap>>
      BY <2>3, <3>1 DEF CallbackTransport
    <3>. QED  BY <3>2
  <2>4. CASE LoadPlaying \/ LoadEpoch \/ CallbackEnd
    <3>1. UNCHANGED <<queue, heap>>
      BY <2>4 DEF LoadPlaying, LoadEpoch, CallbackEnd
    <3>. QED  BY <3>1
  <2>5. CASE RenderTurn
    <3> DEFINE all == heap \o queue
               current == {i \in DOMAIN all : all[i].epoch = got.epoch}
               due == {i \in current : all[i].time <= cur}
               late == current \ due
               played == Popped(all, due)
               rest == Popped(all, late)
    <3>1. history' = history \o played /\ heap' = rest /\ got.epoch = epoch
      BY <2>5 DEF RenderTurn, Outdated
    <3>2. all \in Seq(Events) /\ Range(all) = Range(heap) \cup Range(queue)
      BY <1>2, RangeOfConcat, ConcatProperties
    <3> HIDE DEF all
    <3>3. PICK i \in DOMAIN all : all[i] = e
      BY <3>2 DEF Range
    <3>4. i \in due \/ i \in late
      BY <2>1, <3>1, <3>3
    <3>5. due \in SUBSET DOMAIN all /\ late \in SUBSET DOMAIN all
      OBVIOUS
    <3> HIDE DEF due, late
    <3>6. /\ played \in Seq(Events)
          /\ i \in due => \E k \in DOMAIN played : played[k] = all[i]
          /\ i \in late => \E k \in DOMAIN rest : rest[k] = all[i]
      BY <3>2, <3>5, PoppedLists
    <3> HIDE DEF played, rest
    <3>7. e \in Range(played) \/ e \in Range(rest)
      BY <3>3, <3>4, <3>6 DEF Range
    <3>8. Range(history') = Range(history) \cup Range(played)
      BY <1>2, <3>1, <3>6, RangeOfConcat
    <3>. QED  BY <3>1, <3>7, <3>8
  <2>. QED  BY <1>8, <2>2, <2>3, <2>4, <2>5 DEF Audio
<1>. QED  BY <1>4, <1>5, <1>6, <1>7, <1>8 DEF Next, Sched

\* Starts, stops and pattern switches: the scheduler never loses an event made for
\* the pattern that plays, and the callback loses one only while it acts on an older
\* transport and before the first event of the pattern has been dispatched (the queue
\* is cleared by both threads, audio.rs lines 2357 and 2592).
THEOREM SwitchesKeep == Spec => OnlyTheStartIsLost
<1>1. TypeInv /\ TypeInv' /\ SwitchInv /\ [Next]_vars => [OnlySwitches => Outdated \/ Kept]_vars
  BY SwitchKeeps
<1>2. TypeInv /\ Heard /\ Heard' /\ [Next]_vars /\ Outdated => Unheard
  BY OutdatedIsUnheard
<1>3. TypeInv /\ TypeInv' /\ SwitchInv /\ Heard /\ Heard' /\ [Next]_vars
        => [OnlySwitches => Kept \/ (Outdated /\ Unheard)]_vars
  BY <1>1, <1>2
<1>. QED  BY <1>3, TypesHold, SwitchesHold, HeardHolds, PTL DEF Spec, OnlyTheStartIsLost

-----------------------------------------------------------------------------
(* The steps in turn *)

\* The callback dispatches no event of an earlier epoch any more.
Floor == IF apc = "render" THEN got.epoch ELSE epoch

\* The times and the clock: it never runs ahead of what is scheduled.
Paced ==
  /\ rendered <= setup.time /\ (apc # "idle" => BlockEnd <= setup.time)
  /\ seen.rendered <= rendered
  /\ clock.total <= until
  /\ Stands(clock)
  /\ ~ clock.started => clock = ResetClock

\* What has been dispatched is of the past.
Past ==
  /\ got.epoch <= epoch
  /\ \A i \in DOMAIN history :
       /\ history[i].epoch <= Floor
       /\ apc = "transport" /\ ~ got.playing => history[i].epoch < epoch

\* What is on its way, in the order in which it was made.
Coming == heap \o queue

\* In one epoch, the events on their way are the steps in turn, later and later.
Aligned ==
  /\ \A i, j \in DOMAIN heap : heap[i].epoch = heap[j].epoch
  /\ \A i, j \in DOMAIN Coming :
       i < j /\ Coming[i].epoch = Coming[j].epoch =>
         /\ StepIndex(Coming[j]) = StepIndex(Coming[i]) + (j - i)
         /\ Coming[i].time < Coming[j].time

\* They go on where the history ends, if it can go on.
Joined ==
  history # << >> /\ Last(history).epoch = Floor =>
    /\ \A i \in DOMAIN heap : heap[i].epoch = Floor
    /\ \A i \in DOMAIN Coming :
         Coming[i].epoch = Floor => StepIndex(Coming[i]) = StepIndex(Last(history)) + i

\* The clock goes on where they end.
AtClock(e) ==
  /\ clock.step = StepAt(clock.total)
  /\ NumSteps > 1 => StepIndex(e) = clock.total \div StepLen

\* It goes on where the dispatched ones end, if nothing is on its way.
Continued ==
  /\ Coming # << >> /\ Last(Coming).epoch = Source =>
       /\ AtClock(Last(Coming))
       /\ Last(Coming).time = Last(Coming).pos + until - clock.total - 1
       /\ Last(Coming).pos <= clock.total
  /\ Coming = << >> /\ history # << >> /\ Last(history).epoch = Source /\ Source = Floor =>
       AtClock(Last(history))

\* What keeps the steps in turn as long as there are only starts, stops and switches.
Turns == Paced /\ Past /\ Aligned /\ Joined /\ Continued

\* With only those, they are so and sound so.
TurnInv == OnlySwitches => Turns /\ StepsInTurn

\* The heap pops in the order of an enumeration of the indices that it respects.
LEMMA PoppedIs ==
  ASSUME NEW s, NEW I, NEW n \in Nat, NEW g \in [1..n -> I],
         \A i \in I : \E k \in 1..n : g[k] = i,
         \A k, l \in 1..n : PopsBefore(s, g[k], g[l]) <=> k <= l
  PROVE  Popped(s, I) = [k \in 1..n |-> s[g[k]]]
<1> DEFINE R == {ij \in I \X I : PopsBefore(s, ij[1], ij[2])}
<1>1. \A k, l \in 1..n : <<g[k], g[l]>> \in R <=> PopsBefore(s, g[k], g[l])
  OBVIOUS
<1>2. Popped(s, I) = [k \in 1..Cardinality(I) |-> s[InOrder(I, R)[k]]]
  BY DEF Popped
<1> HIDE DEF R
<1>3. \A k, l \in 1..n : <<g[k], g[l]>> \in R <=> k <= l
  BY <1>1
<1>4. Cardinality(I) = n /\ InOrder(I, R) = g
  BY <1>3, InOrderIs
<1>. QED  BY <1>2, <1>4

\* From an interval of indices with later and later events, the heap pops in order.
LEMMA PoppedInterval ==
  ASSUME NEW s \in Seq(Events), NEW a \in Nat \ {0}, NEW b \in Nat,
         a <= b + 1, b <= Len(s),
         \A i, j \in a..b : i < j => s[i].time < s[j].time
  PROVE  /\ Popped(s, a..b) \in Seq(Events)
         /\ Len(Popped(s, a..b)) = b - a + 1
         /\ \A k \in 1..b - a + 1 : Popped(s, a..b)[k] = s[a + k - 1]
<1> DEFINE n == b - a + 1
           g == [k \in 1..n |-> a + k - 1]
           P == Popped(s, a..b)
<1>1. n \in Nat /\ \A k \in 1..n : a + k - 1 \in a..b /\ a + k - 1 \in 1..Len(s)
  BY LenProperties
<1>2. /\ g \in [1..n -> a..b] /\ \A k \in 1..n : g[k] = a + k - 1
      /\ \A i \in a..b : \E k \in 1..n : g[k] = i
  <2>1. g \in [1..n -> a..b] /\ \A k \in 1..n : g[k] = a + k - 1
    BY <1>1
  <2>2. ASSUME NEW i \in a..b PROVE \E k \in 1..n : g[k] = i
    <3>1. i - a + 1 \in 1..n /\ a + (i - a + 1) - 1 = i
      OBVIOUS
    <3> HIDE DEF g
    <3>. QED  BY <2>1, <3>1
  <2>. QED  BY <2>1, <2>2
<1>3. \A k \in 1..n : s[a + k - 1] \in Events
  BY <1>1, LenProperties
<1> HIDE DEF g
<1>4. ASSUME NEW k \in 1..n, NEW l \in 1..n PROVE PopsBefore(s, g[k], g[l]) <=> k <= l
  <2> DEFINE x == s[g[k]].time
             y == s[g[l]].time
  <2>1. /\ k \in Nat /\ l \in Nat /\ g[k] = a + k - 1 /\ g[l] = a + l - 1
        /\ g[k] \in a..b /\ g[l] \in a..b
    BY <1>1, <1>2
  <2>2. /\ g[k] < g[l] => x < y
        /\ g[l] < g[k] => y < x
        /\ g[k] = g[l] => x = y
    BY <2>1
  <2>3. x \in Nat /\ y \in Nat
    BY <1>3, <2>1 DEF Events
  <2>4. PopsBefore(s, g[k], g[l]) <=> x < y \/ (x = y /\ g[k] <= g[l])
    BY DEF PopsBefore
  <2> HIDE DEF x, y
  <2>. QED  BY <2>1, <2>2, <2>3, <2>4
<1>5. P = [k \in 1..n |-> s[g[k]]]
  <2> DEFINE I == a..b
  <2>1. n \in Nat /\ g \in [1..n -> I] /\ \A i \in I : \E k \in 1..n : g[k] = i
    BY <1>1, <1>2
  <2>2. P = Popped(s, I)
    OBVIOUS
  <2>3. \A k, l \in 1..n : PopsBefore(s, g[k], g[l]) <=> k <= l
    BY <1>4
  <2> HIDE DEF n, I, P
  <2>4. ASSUME NEW N \in Nat, NEW h \in [1..N -> I],
               \A i \in I : \E k \in 1..N : h[k] = i,
               \A k, l \in 1..N : PopsBefore(s, h[k], h[l]) <=> k <= l
        PROVE  Popped(s, I) = [k \in 1..N |-> s[h[k]]]
    BY <2>4, PoppedIs
  <2>5. Popped(s, I) = [k \in 1..n |-> s[g[k]]]
    BY <2>1, <2>3, <2>4
  <2>. QED  BY <2>2, <2>5
<1>6. \A k \in 1..n : P[k] = s[a + k - 1]
  BY <1>2, <1>5, ZenonT(40)
<1> HIDE DEF P, n
<1>7. P \in [1..n -> Events]
  BY <1>2, <1>3, <1>5
<1>8. P \in Seq(Events) /\ Len(P) = n
  BY <1>1, <1>7, FunctionIsSeq
<1>. QED  BY <1>6, <1>8 DEF P, n

\* The types of what the steps in turn speak of.
LEMMA TurnTypes ==
  ASSUME TypeInv
  PROVE  /\ epoch \in Nat /\ got.epoch \in Nat /\ Floor \in Nat /\ Source \in Int
         /\ until \in Nat /\ rendered \in Nat /\ seen.rendered \in Nat /\ seen.snap.epoch \in Nat
         /\ clock \in Clocks /\ clock.total \in Nat /\ clock.started \in BOOLEAN
         /\ clock = [total |-> clock.total, step |-> clock.step, started |-> clock.started]
         /\ setup.time \in Nat /\ BlockEnd \in Nat /\ got.playing \in BOOLEAN
         /\ queue \in Seq(Events) /\ heap \in Seq(Events) /\ history \in Seq(Events)
<1>1. /\ setup \in Setups /\ epoch \in Nat /\ got \in [playing : BOOLEAN, epoch : Nat]
      /\ seen \in [snap : SnapshotType, rendered : Nat, edit : EditType] /\ last.epoch \in Int
      /\ seen.snap \in SnapshotType
      /\ until \in Nat /\ rendered \in Nat /\ clock \in Clocks
      /\ queue \in Seq(Events) /\ heap \in Seq(Events) /\ history \in Seq(Events)
  BY DEF TypeInv, TypeUI, TypeSched, TypeAudio, TypeQueue
<1>2. Floor \in Nat /\ Source \in Int /\ BlockEnd \in Nat /\ setup.time \in Nat
  BY <1>1, SetupIs, SizesAre DEF Floor, Source, BlockEnd, SnapshotType
<1>. QED  BY <1>1, <1>2 DEF Clocks, SnapshotType

\* The end of what has been dispatched is a dispatched event.
LEMMA LastIs ==
  ASSUME NEW s \in Seq(Events), s # << >>
  PROVE  Len(s) \in DOMAIN s /\ Last(s) = s[Len(s)] /\ Last(s) \in Events /\ Len(s) \in Nat \ {0}
<1>1. Len(s) \in Nat /\ DOMAIN s = 1..Len(s) /\ Len(s) # 0
  BY LenProperties, EmptySeq
<1>2. Len(s) \in 1..Len(s)
  BY <1>1
<1>. QED  BY <1>1, <1>2, LenProperties DEF Last

\* What is dispatched and on its way, and the clock, go on as before while nobody
\* touches them; a later epoch only starts anew.
LEMMA TurnWaits ==
  ASSUME TypeInv, Turns,
         UNCHANGED <<heap, queue, history, clock, until>>, Source' = Source,
         Floor' = Floor \/ (Floor' \in Nat /\ Floor' > Floor /\ Floor' > Source)
  PROVE  Aligned' /\ Joined' /\ Continued'
<1>1. Coming' = Coming /\ Floor \in Nat /\ Source \in Int /\ Floor' \in Nat
  BY TurnTypes DEF Coming
<1>2. Aligned'
  BY <1>1 DEF Turns, Aligned, StepIndex
<1>3. ASSUME history # << >> PROVE Last(history).epoch <= Floor /\ Last(history).epoch \in Nat
  <2>1. Len(history) \in DOMAIN history /\ Last(history) = history[Len(history)]
        /\ Last(history) \in Events
    BY <1>3, LastIs, TurnTypes
  <2>. QED  BY <2>1 DEF Turns, Past, Events
<1>4. Joined'
  <2> SUFFICES ASSUME history # << >>, Last(history).epoch = Floor'
               PROVE  /\ \A i \in DOMAIN heap : heap[i].epoch = Floor'
                      /\ \A i \in DOMAIN Coming : Coming[i].epoch = Floor' =>
                           StepIndex(Coming[i]) = StepIndex(Last(history)) + i
    BY <1>1 DEF Joined, StepIndex
  <2>1. Floor' = Floor
    BY <1>1, <1>3
  <2>. QED  BY <2>1 DEF Turns, Joined
<1>5. Continued'
  <2>1. \A e : AtClock(e)' <=> AtClock(e)
    BY DEF AtClock, StepIndex
  <2>2. Source = Floor' => Floor' = Floor
    BY <1>1
  <2>. QED  BY <1>1, <2>1, <2>2 DEF Turns, Continued
<1>. QED  BY <1>2, <1>4, <1>5

\* A later epoch has no steps yet.
LEMMA TurnUI ==
  TypeInv /\ TypeInv' /\ SwitchInv /\ Turns /\ UI /\ OnlySwitches => Turns'
<1> SUFFICES ASSUME TypeInv, TypeInv', SwitchInv, Turns, UI, OnlySwitches PROVE Turns'
  OBVIOUS
<1>0. Undisturbed /\ Versions /\ AllMade
  BY DEF SwitchInv
<1>1. /\ UNCHANGED <<setup, schedVars, audioVars, queue>>
      /\ epoch' = epoch \/ epoch' = epoch + 1
  BY <1>0, UndisturbedUI
<1>2. /\ UNCHANGED <<setup, seen, clock, until, spc, last, apc, got, rendered, queue, heap, history>>
      /\ Source' = Source
  BY <1>1 DEF schedVars, audioVars, Source
<1>3. epoch \in Nat /\ Source \in Int /\ got.epoch \in Nat /\ Source <= epoch
  <2>1. epoch \in Nat /\ Source \in Int /\ got.epoch \in Nat
    BY TurnTypes
  <2>2. published.epoch \in Nat /\ seen.snap.epoch \in Nat /\ last.epoch \in Int
    BY DEF TypeInv, TypeUI, TypeSched, SnapshotType
  <2>. QED  BY <1>0, <2>1, <2>2 DEF Versions, Source
<1>4. Floor' = Floor \/ (Floor' \in Nat /\ Floor' > Floor /\ Floor' > Source)
  BY <1>1, <1>2, <1>3 DEF Floor
<1>5. Aligned' /\ Joined' /\ Continued'
  BY <1>2, <1>4, TurnWaits
<1>6. Paced'
  BY <1>2 DEF Turns, Paced, BlockEnd
<1>7. Past'
  <2>1. \A i \in DOMAIN history : history[i].epoch \in Nat
    <3>1. \A i \in DOMAIN history : history[i] \in Events
      BY TurnTypes, LenProperties
    <3>. QED  BY <3>1 DEF Events
  <2>2. Floor \in Nat /\ Floor' \in Nat /\ Floor <= Floor'
    BY <1>3, <1>4, TurnTypes
  <2>3. \A i \in DOMAIN history : history[i].epoch <= Floor'
    BY <2>1, <2>2 DEF Turns, Past
  <2>4. apc = "transport" /\ ~ got.playing => \A i \in DOMAIN history : history[i].epoch < epoch'
    BY <1>1, <1>3, <2>1 DEF Turns, Past
  <2>5. got.epoch <= epoch'
    BY <1>1, <1>3 DEF Turns, Past
  <2>. QED  BY <1>2, <2>3, <2>4, <2>5 DEF Past
<1>. QED  BY <1>5, <1>6, <1>7 DEF Turns

\* What the scheduler reads changes nothing yet.
LEMMA TurnReads ==
  TypeInv /\ SwitchInv /\ Turns /\ OnlySwitches
    /\ (ReadSnapshot \/ LoadRendered \/ LoadKind \/ EndPass) => Turns'
<1> SUFFICES ASSUME TypeInv, SwitchInv, Turns, OnlySwitches,
                    ReadSnapshot \/ LoadRendered \/ LoadKind \/ EndPass
             PROVE  Turns'
  OBVIOUS
<1> USE DEF ReadSnapshot, LoadRendered, LoadKind, EndPass, SchedElse
<1>1. UNCHANGED <<setup, epoch, audioVars, queue, clock, until>>
  OBVIOUS
<1>2. UNCHANGED <<apc, got, rendered, heap, history>> /\ Floor' = Floor
  BY <1>1 DEF audioVars, Floor
<1>3. /\ seen = [snap |-> seen.snap, rendered |-> seen.rendered, edit |-> seen.edit]
      /\ last = [playing |-> last.playing, epoch |-> last.epoch, topo |-> last.topo,
                 live |-> last.live]
  BY DEF TypeInv, TypeSched
<1>4. Source' = Source
  <2>1. CASE EndPass
    <3>1. last'.epoch = seen.snap.epoch /\ spc' = "read" /\ spc \in {"fill", "filled"}
      BY <1>3, <2>1
    <3>. QED  BY <3>1 DEF Source
  <2>2. CASE ~ EndPass
    <3>1. UNCHANGED last /\ spc \in {"read", "load", "kind"} /\ spc' \in {"load", "kind", "plan"}
      BY <2>2
    <3>. QED  BY <3>1 DEF Source
  <2>. QED  BY <2>1, <2>2
<1>5. Aligned' /\ Joined' /\ Continued'
  BY <1>1, <1>2, <1>4, TurnWaits
<1>6. Paced'
  <2>1. seen'.rendered \in {seen.rendered, rendered}
    BY <1>3
  <2>2. seen'.rendered <= rendered
    BY <2>1, TurnTypes DEF Turns, Paced
  <2>. QED  BY <1>1, <1>2, <2>2 DEF Turns, Paced, BlockEnd
<1>7. Past'
  BY <1>1, <1>2 DEF Turns, Past
<1>. QED  BY <1>5, <1>6, <1>7 DEF Turns

\* An event of an epoch whose transport does not play was not made.
LEMMA TurnFresh ==
  ASSUME TypeInv, Turns,
         UNCHANGED <<setup, epoch, apc, got, seen, rendered, heap, history>>,
         queue' = << >>,
         clock'.total <= until', Stands(clock'), ~ clock'.started => clock' = ResetClock,
         \A i \in DOMAIN heap : heap[i].epoch # Source',
         \A i \in DOMAIN history : history[i].epoch # Source'
  PROVE  Turns'
<1>1. /\ heap \in Seq(Events) /\ queue \in Seq(Events) /\ history \in Seq(Events)
      /\ Floor' = Floor
  BY TurnTypes DEF Floor
<1>2. /\ Len(heap) \in Nat /\ DOMAIN heap = 1..Len(heap) /\ Len(queue) \in Nat
      /\ Coming' = heap
      /\ DOMAIN Coming = 1..Len(heap) + Len(queue)
      /\ \A i \in DOMAIN heap : i \in DOMAIN Coming /\ Coming[i] = heap[i]
  <2>1. Coming' = heap
    <3>1. heap \o << >> = heap
      BY <1>1
    <3>. QED  BY <3>1 DEF Coming
  <2>2. /\ Len(heap) \in Nat /\ DOMAIN heap = 1..Len(heap) /\ Len(queue) \in Nat
        /\ DOMAIN Coming = 1..Len(heap) + Len(queue)
        /\ \A i \in 1..Len(heap) : Coming[i] = heap[i]
    BY <1>1, ConcatIs DEF Coming
  <2>. QED  BY <2>1, <2>2
<1>3. Paced' /\ Past'
  BY <1>1 DEF Turns, Paced, Past, BlockEnd
<1>4. Aligned'
  BY <1>2 DEF Turns, Aligned, StepIndex
<1>5. Joined'
  BY <1>1, <1>2 DEF Turns, Joined, StepIndex
<1>6. Continued'
  <2>1. heap # << >> => Last(heap).epoch # Source'
    BY <1>1, LastIs
  <2>2. history # << >> => Last(history).epoch # Source'
    BY <1>1, LastIs
  <2>3. UNCHANGED history
    OBVIOUS
  <2>. QED  BY <1>2, <2>1, <2>2, <2>3 DEF Continued
<1>. QED  BY <1>3, <1>4, <1>5, <1>6 DEF Turns

\* A plan keeps the clock and the horizon, or it starts over for a transport that
\* no event has been made for.
LEMMA TurnPlans ==
  TypeInv /\ TypeInv' /\ SwitchInv /\ SwitchInv' /\ Turns /\ OnlySwitches /\ OnlySwitches'
    /\ (PlanStopped \/ PlanFrozen \/ PlanPlaying) => Turns'
<1> SUFFICES ASSUME TypeInv, TypeInv', SwitchInv, SwitchInv', Turns, OnlySwitches, OnlySwitches',
                    PlanStopped \/ PlanFrozen \/ PlanPlaying
             PROVE  Turns'
  OBVIOUS
<1>0. Undisturbed /\ Versions /\ AllMade /\ AllMade'
  BY DEF SwitchInv
<1>1. /\ UNCHANGED <<setup, epoch, audioVars, seen>> /\ spc = "plan"
      /\ ~ PlanFrozen /\ ~ LiveChanges /\ ~ seen.edit.on
      /\ Source < seen.snap.epoch \/ (Source = seen.snap.epoch /\ ~ SnapshotChanges)
  BY <1>0, SwitchPlans DEF PlanStopped, PlanFrozen, PlanPlaying, SchedElse, Undisturbed
<1>2. UNCHANGED <<apc, got, rendered, heap, history>> /\ Floor' = Floor
  BY <1>1 DEF audioVars, Floor
<1>3. /\ heap \in Seq(Events) /\ history \in Seq(Events) /\ until \in Nat /\ seen.rendered \in Nat
      /\ clock \in Clocks /\ clock.total \in Nat /\ clock.total <= until
      /\ Source \in Int /\ seen.snap.epoch \in Nat
  BY TurnTypes DEF Turns, Paced
<1>4. Stands(ResetClock) /\ ResetClock.total = 0
  BY DEF Stands, ResetClock
<1>5. Source = last.epoch
  BY <1>1 DEF Source
<1>6. /\ \A i \in DOMAIN heap : Made(heap[i]) /\ Made(heap[i])' /\ heap[i].epoch \in Nat
      /\ \A i \in DOMAIN history : Made(history[i]) /\ Made(history[i])' /\ history[i].epoch \in Nat
  <2>1. /\ \A i \in DOMAIN heap : Made(heap[i]) /\ Made(heap[i])'
        /\ \A i \in DOMAIN history : Made(history[i]) /\ Made(history[i])'
    BY <1>0, <1>2 DEF AllMade, Made
  <2>2. (\A i \in DOMAIN heap : heap[i] \in Events) /\ (\A i \in DOMAIN history : history[i] \in Events)
    BY <1>3, LenProperties
  <2>. QED  BY <2>1, <2>2 DEF Events
<1>7. CASE PlanStopped
  <2>1. clock' = ResetClock /\ until' = seen.rendered /\ SourcePlays' = FALSE
    BY <1>7 DEF PlanStopped, SourcePlays
  <2>2. \A e : Made(e)' => e.epoch # Source'
    BY <2>1 DEF Made
  <2>3. /\ \A i \in DOMAIN heap : heap[i].epoch # Source'
        /\ \A i \in DOMAIN history : history[i].epoch # Source'
    BY <1>2, <1>6, <2>2
  <2>4. queue' = << >>
    <3>1. queue' \in Seq(Events)
      BY DEF TypeInv, TypeQueue
    <3>2. \A i \in DOMAIN queue' : FALSE
      BY <1>0, <2>2 DEF AllMade
    <3>3. queue' # << >> => Len(queue') \in DOMAIN queue'
      BY <3>1, LastIs
    <3>. QED  BY <3>2, <3>3
  <2>5. clock'.total <= until' /\ Stands(clock')
    BY <1>3, <1>4, <2>1
  <2>. QED  BY <1>1, <1>2, <2>1, <2>3, <2>4, <2>5, TurnFresh
<1>8. CASE PlanPlaying
  <2>1. Source' = seen.snap.epoch
    BY <1>1, <1>8 DEF PlanPlaying, Source
  <2>2. CASE Source = seen.snap.epoch
    <3>1. last.playing /\ ~ SnapshotChanges
      <4>1. ~ SnapshotChanges
        BY <1>1, <1>3, <2>2
      <4>2. seen.snap.playing /\ last.epoch = seen.snap.epoch
        BY <1>5, <1>8, <2>2 DEF PlanPlaying
      <4>3. last.playing = seen.snap.playing
        BY <1>0, <4>2 DEF Versions
      <4>. QED  BY <4>1, <4>2, <4>3
    <3>2. UNCHANGED <<queue, clock, until>>
      <4>1. LiveUntil = until /\ LiveClock = clock
        BY <1>1 DEF LiveUntil, LiveClock
      <4>. QED  BY <1>1, <1>8, <3>1, <4>1 DEF PlanPlaying
    <3>3. Aligned' /\ Joined' /\ Continued'
      BY <1>2, <2>1, <2>2, <3>2, TurnWaits
    <3>. QED  BY <1>1, <1>2, <3>2, <3>3 DEF Turns, Paced, Past, BlockEnd
  <2>3. CASE Source < seen.snap.epoch
    <3>1. SnapshotChanges
      BY <1>3, <1>5, <2>3 DEF SnapshotChanges
    <3>2. /\ queue' = << >> /\ until' = seen.rendered
          /\ clock' = ResetClock \/ clock' = Sought(clock, until - seen.rendered)
      BY <1>1, <1>8, <3>1 DEF PlanPlaying, LiveUntil, LiveClock
    <3>3. /\ \A i \in DOMAIN heap : heap[i].epoch # Source'
          /\ \A i \in DOMAIN history : history[i].epoch # Source'
      <4>1. \A e : Made(e) => e.epoch <= Source
        BY DEF Made
      <4>. QED  BY <1>3, <1>6, <2>1, <2>3, <4>1
    <3>4. /\ clock'.total <= until' /\ Stands(clock')
          /\ ~ clock'.started => clock' = ResetClock
      <4>1. CASE clock' = ResetClock
        BY <1>3, <1>4, <3>2, <4>1
      <4>2. CASE clock' = Sought(clock, until - seen.rendered)
        <5> DEFINE ahead == until - seen.rendered
                   p == IF ahead < 0 THEN clock.total
                        ELSE IF ahead > clock.total THEN 0 ELSE clock.total - ahead
        <5>1. clock' = [total |-> p, step |-> StepAt(p), started |-> TRUE]
          BY <4>2 DEF Sought
        <5>2. p \in Nat /\ p <= seen.rendered
          BY <1>3
        <5> HIDE DEF p
        <5>. QED  BY <3>2, <5>1, <5>2 DEF Stands
      <4>. QED  BY <3>2, <4>1, <4>2
    <3>. QED  BY <1>1, <1>2, <3>2, <3>3, <3>4, TurnFresh
  <2>. QED  BY <1>1, <2>2, <2>3
<1>. QED  BY <1>1, <1>7, <1>8

\* The callback's steps other than a turn with the heap only start a new block or
\* drop everything, once they have read that playing stopped.
LEMMA TurnCallback ==
  TypeInv /\ TypeInv' /\ SwitchInv /\ Turns /\ OnlySwitches /\ Audio /\ ~ RenderTurn => Turns'
<1> SUFFICES ASSUME TypeInv, TypeInv', SwitchInv, Turns, OnlySwitches, Audio, ~ RenderTurn
             PROVE  Turns'
  OBVIOUS
<1>0. Undisturbed /\ Versions /\ AllMade
  BY DEF SwitchInv
<1> USE DEF CallbackStart, LoadPlaying, CallbackTransport, LoadEpoch, CallbackEnd
<1>1. UNCHANGED <<setup, uiVars, schedVars>> /\ UNCHANGED history /\ Source' = Source
  <2>1. UNCHANGED <<setup, uiVars, schedVars>>
    BY DEF Audio, AudioElse
  <2>2. UNCHANGED history
    BY DEF Audio
  <2>. QED  BY <2>1, <2>2 DEF Source, schedVars
<1>2. UNCHANGED <<epoch, playing, seen, clock, until>>
  BY <1>1 DEF uiVars, schedVars
<1>3. /\ epoch \in Nat /\ got.epoch \in Nat /\ rendered \in Nat /\ seen.rendered \in Nat
      /\ setup.time \in Nat /\ BlockEnd \in Nat /\ Block \in Nat
      /\ got \in [playing : BOOLEAN, epoch : Nat] /\ playing \in BOOLEAN
      /\ history \in Seq(Events)
  BY TurnTypes, SizesAre DEF TypeInv, TypeUI, TypeAudio
<1>4. Floor' = Floor /\ got'.epoch <= epoch
  <2>1. got'.epoch = got.epoch \/ (LoadEpoch /\ got'.epoch = epoch)
    BY <1>3 DEF Audio
  <2>2. got.epoch <= epoch
    BY DEF Turns, Past
  <2>3. CASE LoadEpoch
    <3>1. apc = "turn" /\ apc' = "render" /\ got'.epoch = epoch
      BY <1>3, <2>3
    <3>. QED  BY <1>2, <1>3, <3>1 DEF Floor
  <2>4. CASE ~ LoadEpoch
    <3>1. apc # "render" /\ apc' # "render"
      BY <2>4 DEF Audio
    <3>. QED  BY <1>2, <2>1, <2>2, <2>4, <3>1 DEF Floor
  <2>. QED  BY <2>3, <2>4
<1>5. Paced'
  <2>1. rendered' <= setup.time /\ (apc' # "idle" => BlockEnd' <= setup.time)
        /\ rendered' >= rendered
    <3>1. CASE CallbackEnd
      BY <1>1, <1>3, <3>1 DEF Turns, Paced, BlockEnd
    <3>2. CASE CallbackStart
      BY <1>1, <1>3, <3>2 DEF Turns, Paced, BlockEnd
    <3>3. CASE LoadPlaying \/ CallbackTransport \/ LoadEpoch
      BY <1>1, <1>3, <3>3 DEF Turns, Paced, BlockEnd
    <3>. QED  BY <3>1, <3>2, <3>3 DEF Audio
  <2>2. rendered' \in Nat
    BY DEF TypeInv, TypeAudio
  <2>3. seen.rendered <= rendered'
    BY <1>3, <2>1, <2>2 DEF Turns, Paced
  <2>. QED  BY <1>1, <1>2, <2>1, <2>3 DEF Turns, Paced
<1>6. Past'
  <2>1. ASSUME LoadPlaying, ~ playing
        PROVE  \A i \in DOMAIN history : history[i].epoch < epoch
    <3>1. \A i \in DOMAIN history : history[i] \in Events /\ Made(history[i])
      BY <1>0, <1>3, LenProperties DEF AllMade
    <3> SUFFICES ASSUME NEW i \in DOMAIN history PROVE history[i].epoch < epoch
      OBVIOUS
    <3>2. PICK e \in Events : e = history[i] /\ Made(e)
      BY <3>1
    <3>3. /\ e.epoch \in Nat /\ e.epoch <= Source /\ Source <= epoch /\ e.epoch # epoch
      BY <1>0, <2>1, <3>2, MadeIs
    <3>4. e.epoch < epoch
      BY <1>3, <3>3, TurnTypes, SMTT(20)
    <3>. QED  BY <3>2, <3>4
  <2>2. ASSUME apc' = "transport", ~ got'.playing PROVE LoadPlaying /\ ~ playing
    <3>1. LoadPlaying
      BY <2>2 DEF Audio
    <3>. QED  BY <1>3, <2>2, <3>1
  <2>. QED  BY <1>1, <1>2, <1>4, <2>1, <2>2 DEF Turns, Past
<1>7. CASE UNCHANGED <<queue, heap>>
  <2>1. Aligned' /\ Joined' /\ Continued'
    BY <1>1, <1>2, <1>4, <1>7, TurnWaits
  <2>. QED  BY <1>5, <1>6, <2>1 DEF Turns
<1>8. CASE ~ UNCHANGED <<queue, heap>>
  <2>1. CallbackTransport /\ ~ got.playing /\ queue' = << >> /\ heap' = << >>
    <3>1. ~ CallbackStart
      BY <1>0, <1>8 DEF Undisturbed
    <3>. QED  BY <1>8, <3>1 DEF Audio
  <2>2. Coming' = << >>
    BY <2>1 DEF Coming
  <2>3. Aligned' /\ Joined'
    BY <2>1, <2>2 DEF Aligned, Joined
  <2>4. history # << >> => Last(history).epoch < epoch
    <3>1. \A i \in DOMAIN history : history[i].epoch < epoch
      BY <2>1 DEF Turns, Past
    <3>. QED  BY <1>3, <3>1, LastIs
  <2>5. history # << >> /\ Last(history).epoch = Source => Source # Floor'
    <3>1. Floor' = epoch
      BY <1>2, <2>1 DEF Floor
    <3>. QED  BY <1>3, <2>4, <3>1
  <2>6. Continued'
    BY <1>1, <2>2, <2>5 DEF Continued
  <2>. QED  BY <1>5, <1>6, <2>3, <2>6 DEF Turns
<1>. QED  BY <1>7, <1>8

\* The numbers of an event.
LEMMA EventIs ==
  ASSUME NEW e \in Events
  PROVE  e.epoch \in Nat /\ e.time \in Nat /\ e.pos \in Nat /\ StepIndex(e) \in Nat
  BY SizesAre, DivBounds DEF Events, StepIndex

\* What is on its way: the heap, then the queue.
LEMMA ComingIs ==
  ASSUME TypeInv
  PROVE  /\ Len(heap) \in Nat /\ Len(queue) \in Nat
         /\ DOMAIN heap = 1..Len(heap) /\ DOMAIN queue = 1..Len(queue)
         /\ Coming \in Seq(Events) /\ Len(Coming) = Len(heap) + Len(queue)
         /\ DOMAIN Coming = 1..Len(heap) + Len(queue)
         /\ \A i \in 1..Len(heap) : Coming[i] = heap[i]
         /\ \A j \in 1..Len(queue) : Coming[Len(heap) + j] = queue[j]
         /\ \A i \in DOMAIN Coming :
              i \in 1..Len(heap) \/ \E j \in 1..Len(queue) : i = Len(heap) + j
         /\ \A i \in DOMAIN Coming : Coming[i] \in Events
<1>1. heap \in Seq(Events) /\ queue \in Seq(Events)
  BY TurnTypes
<1>2. \A i \in DOMAIN Coming : Coming[i] \in Events
  BY <1>1, ConcatProperties, LenProperties DEF Coming
<1>. QED  BY <1>1, <1>2, ConcatIs DEF Coming

\* A turn dispatches the first part of an interval of what is on its way and keeps
\* the rest of it: all that is of the epoch the turn has loaded.
LEMMA RenderIs ==
  ASSUME TypeInv, AllMade, Turns, RenderTurn
  PROVE  \E a \in Nat \ {0}, m \in Nat, b \in Nat :
           /\ a <= m + 1 /\ m <= b /\ b <= Len(Coming)
           /\ \A i \in a..b : i \in DOMAIN Coming /\ Coming[i].epoch = got.epoch
           /\ history # << >> /\ Last(history).epoch = got.epoch => a = 1
           /\ got.epoch = Source => b = Len(Coming)
           /\ \E played \in Seq(Events) :
                /\ history' = history \o played /\ Len(played) = m - a + 1
                /\ \A k \in 1..m - a + 1 : played[k] = Coming[a + k - 1]
           /\ heap' \in Seq(Events) /\ Len(heap') = b - m
           /\ \A k \in 1..b - m : heap'[k] = Coming[m + k]
           /\ queue' = << >>
<1> DEFINE L == Len(heap)
           N == Len(Coming)
           current == {i \in DOMAIN Coming : Coming[i].epoch = got.epoch}
           due == {i \in current : Coming[i].time <= cur}
           a == IF heap # << >> /\ heap[1].epoch # got.epoch THEN L + 1 ELSE 1
           b == IF queue = << >> \/ Source = got.epoch THEN N ELSE L
<1>1. /\ L \in Nat /\ Len(queue) \in Nat /\ N = L + Len(queue)
      /\ DOMAIN heap = 1..L /\ DOMAIN Coming = 1..N
      /\ Coming \in Seq(Events)
      /\ \A i \in 1..L : Coming[i] = heap[i]
      /\ \A j \in 1..Len(queue) : Coming[L + j] = queue[j] /\ queue[j].epoch = Source
      /\ \A i \in DOMAIN Coming : i \in 1..L \/ \E j \in 1..Len(queue) : i = L + j
  BY ComingIs DEF AllMade
<1>2. heap # << >> => L \in 1..L /\ L # 0
  BY TurnTypes, LastIs, <1>1
<1>3. queue = << >> <=> Len(queue) = 0
  BY TurnTypes, EmptySeq
<1>4. a \in Nat \ {0} /\ b \in Nat /\ a <= b + 1 /\ b <= N
  BY <1>1, <1>2
<1>5. \A i \in DOMAIN Coming : Coming[i].epoch = got.epoch <=> a <= i /\ i <= b
  <2> SUFFICES ASSUME NEW i \in DOMAIN Coming
               PROVE  Coming[i].epoch = got.epoch <=> a <= i /\ i <= b
    OBVIOUS
  <2>1. CASE i \in 1..L
    <3>1. heap # << >> /\ 1 \in DOMAIN heap /\ i \in DOMAIN heap
      BY <1>1, <2>1
    <3>2. Coming[i].epoch = heap[1].epoch
      BY <1>1, <2>1, <3>1 DEF Turns, Aligned
    <3>3. a <= i <=> heap[1].epoch = got.epoch
      BY <1>1, <2>1, <3>1
    <3>4. i <= b
      BY <1>1, <2>1
    <3>. QED  BY <3>2, <3>3, <3>4
  <2>2. CASE \E j \in 1..Len(queue) : i = L + j
    <3>1. PICK j \in 1..Len(queue) : i = L + j
      BY <2>2
    <3>2. Coming[i].epoch = Source
      BY <1>1, <3>1
    <3>3. a <= i /\ queue # << >>
      BY <1>1, <1>3, <3>1
    <3>4. i <= b <=> Source = got.epoch
      BY <1>1, <3>1, <3>3
    <3>. QED  BY <3>2, <3>3, <3>4
  <2>. QED  BY <1>1, <2>1, <2>2
<1>6. history # << >> /\ Last(history).epoch = got.epoch => a = 1
  <2> SUFFICES ASSUME history # << >>, Last(history).epoch = got.epoch, heap # << >>
               PROVE  heap[1].epoch = got.epoch
    OBVIOUS
  <2>1. Floor = got.epoch
    BY DEF Floor, RenderTurn
  <2>2. 1 \in DOMAIN heap
    BY <1>1, <1>2
  <2>. QED  BY <2>1, <2>2 DEF Turns, Joined
<1>7. got.epoch = Source => b = N
  OBVIOUS
<1> HIDE DEF a, b
<1>8. current = a..b
  <2>1. \A i \in current : i \in a..b
    BY <1>1, <1>4, <1>5
  <2>2. \A i \in a..b : i \in 1..N /\ a <= i /\ i <= b
    BY <1>1, <1>4
  <2>3. \A i \in a..b : i \in current
    BY <1>1, <1>5, <2>2
  <2>. QED  BY <2>1, <2>3
<1>9. \A i, j \in a..b : i < j => Coming[i].time < Coming[j].time
  <2>1. \A i \in a..b : i \in DOMAIN Coming /\ Coming[i].epoch = got.epoch
    BY <1>8
  <2>. QED  BY <2>1 DEF Turns, Aligned
<1>10. PICK m \in Nat : a <= m + 1 /\ m <= b /\ due = a..m /\ (a..b) \ due = m + 1..b
  <2>1. due \in SUBSET (a..b)
    BY <1>8
  <2>2. ASSUME NEW i \in a..b, NEW j \in a..b, i < j, j \in due PROVE i \in due
    <3>1. i \in current /\ Coming[i].time < Coming[j].time /\ Coming[j].time <= cur
      BY <1>8, <1>9, <2>2
    <3>2. Coming[i].time \in Nat /\ Coming[j].time \in Nat /\ cur \in Nat
      <4>1. Coming[i] \in Events /\ Coming[j] \in Events
        BY <1>8, ComingIs
      <4>. QED  BY <4>1, EventIs DEF TypeInv, TypeAudio
    <3>. QED  BY <3>1, <3>2
  <2>3. \A i, j \in a..b : i < j /\ j \in due => i \in due
    BY <2>2
  <2> HIDE DEF due, current, N
  <2>4. a \in Nat \ {0} /\ b \in Nat /\ a <= b + 1
    BY <1>4
  <2>5. \A T \in SUBSET (a..b) :
          (\A i, j \in a..b : i < j /\ j \in T => i \in T) =>
            \E m \in Nat : a <= m + 1 /\ m <= b /\ T = a..m /\ (a..b) \ T = m + 1..b
    BY <2>4, CutIs
  <2>. QED  BY <2>1, <2>3, <2>5
<1> DEFINE played == Popped(Coming, due)
<1>11. history' = history \o played /\ heap' = Popped(Coming, current \ due) /\ queue' = << >>
  BY DEF RenderTurn, Coming
<1>12. /\ played \in Seq(Events) /\ Len(played) = m - a + 1
       /\ \A k \in 1..m - a + 1 : played[k] = Coming[a + k - 1]
  <2>1. m <= Len(Coming) /\ \A i, j \in a..m : i < j => Coming[i].time < Coming[j].time
    BY <1>1, <1>4, <1>9, <1>10
  <2> HIDE DEF N, due
  <2>2. /\ Popped(Coming, a..m) \in Seq(Events)
        /\ Len(Popped(Coming, a..m)) = m - a + 1
        /\ \A k \in 1..m - a + 1 : Popped(Coming, a..m)[k] = Coming[a + k - 1]
    <3>1. Coming \in Seq(Events) /\ a \in Nat \ {0} /\ m \in Nat /\ a <= m + 1
      BY <1>1, <1>4, <1>10
    <3>. QED  BY <2>1, <3>1, PoppedInterval
  <2>. QED  BY <1>10, <2>2
<1>13. /\ heap' \in Seq(Events) /\ Len(heap') = b - m
       /\ \A k \in 1..b - m : heap'[k] = Coming[m + k]
  <2> DEFINE c == m + 1
  <2>0. \A i \in c..b : i \in a..b
    BY <1>4, <1>10
  <2>1. /\ c \in Nat \ {0} /\ c <= b + 1 /\ b <= Len(Coming)
        /\ \A i, j \in c..b : i < j => Coming[i].time < Coming[j].time
    <3>1. c \in Nat \ {0} /\ c <= b + 1 /\ b <= Len(Coming)
      BY <1>1, <1>4, <1>10
    <3>. QED  BY <1>9, <2>0, <3>1
  <2>2. heap' = Popped(Coming, c..b)
    BY <1>8, <1>10, <1>11
  <2> HIDE DEF N, due, c
  <2>3. Coming \in Seq(Events) /\ b \in Nat
    BY <1>1, <1>4
  <2>4. /\ Popped(Coming, c..b) \in Seq(Events)
        /\ Len(Popped(Coming, c..b)) = b - c + 1
        /\ \A k \in 1..b - c + 1 : Popped(Coming, c..b)[k] = Coming[c + k - 1]
    BY <2>1, <2>3, PoppedInterval
  <2>5. /\ heap' \in Seq(Events)
        /\ Len(heap') = b - c + 1
        /\ \A k \in 1..b - c + 1 : heap'[k] = Coming[c + k - 1]
    BY <2>2, <2>4
  <2>6. b - c + 1 = b - m /\ \A k \in 1..b - m : c + k - 1 = m + k
    BY <1>4 DEF c
  <2>. QED  BY <2>5, <2>6
<1>14. \A i \in a..b : i \in DOMAIN Coming /\ Coming[i].epoch = got.epoch
  BY <1>8
<1> HIDE DEF played, due, current
<1>. QED  BY <1>4, <1>6, <1>7, <1>10, <1>11, <1>12, <1>13, <1>14

\* A turn dispatches the next steps, and the rest goes on after them.
LEMMA TurnRenders ==
  TypeInv /\ TypeInv' /\ SwitchInv /\ Turns /\ OnlySwitches /\ StepsInTurn /\ RenderTurn
    => Turns' /\ StepsInTurn'
<1> SUFFICES ASSUME TypeInv, TypeInv', SwitchInv, Turns, OnlySwitches, StepsInTurn, RenderTurn
             PROVE  Turns' /\ StepsInTurn'
  OBVIOUS
<1>0. Undisturbed /\ Versions /\ AllMade
  BY DEF SwitchInv
<1>1. /\ UNCHANGED <<setup, epoch, seen, clock, until, spc, last, got, rendered>>
      /\ apc = "render" /\ apc' = "turn" /\ Floor = got.epoch /\ Floor' = epoch /\ Source' = Source
  BY DEF RenderTurn, AudioElse, uiVars, schedVars, Floor, Source
<1>2. /\ epoch \in Nat /\ got.epoch \in Nat /\ Source \in Int /\ history \in Seq(Events)
      /\ heap \in Seq(Events) /\ got.epoch <= epoch
  BY TurnTypes DEF Turns, Past
<1>3. PICK a \in Nat \ {0}, m \in Nat, b \in Nat, played \in Seq(Events) :
        /\ a <= m + 1 /\ m <= b /\ b <= Len(Coming)
        /\ \A i \in a..b : i \in DOMAIN Coming /\ Coming[i].epoch = got.epoch
        /\ history # << >> /\ Last(history).epoch = got.epoch => a = 1
        /\ got.epoch = Source => b = Len(Coming)
        /\ history' = history \o played /\ Len(played) = m - a + 1
        /\ \A k \in 1..m - a + 1 : played[k] = Coming[a + k - 1]
        /\ heap' \in Seq(Events) /\ Len(heap') = b - m
        /\ \A k \in 1..b - m : heap'[k] = Coming[m + k]
        /\ queue' = << >>
  BY <1>0, RenderIs
<1> DEFINE H == Len(history)
           n == m - a + 1
           r == b - m
           N == Len(Coming)
           C == Coming
<1>4. C \in Seq(Events) /\ N \in Nat /\ DOMAIN C = 1..N /\ \A i \in 1..N : C[i] \in Events
  BY ComingIs, LenProperties
<1>5. n \in Nat /\ r \in Nat /\ H \in Nat /\ a <= b + 1 /\ b <= N
  BY <1>2, <1>3, LenProperties
<1>6. /\ H \in Nat /\ DOMAIN history = 1..H /\ DOMAIN history' = 1..H + n /\ Len(history') = H + n
      /\ \A i \in 1..H : history'[i] = history[i] /\ history[i] \in Events
      /\ \A k \in 1..n : history'[H + k] = C[a + k - 1]
      /\ \A i \in 1..H + n : i \in 1..H \/ \E k \in 1..n : i = H + k
  <2>1. \A i \in 1..H : history[i] \in Events
    BY <1>2, LenProperties
  <2> DEFINE h == history \o played
  <2>2. /\ DOMAIN history = 1..H /\ DOMAIN h = 1..H + Len(played)
        /\ Len(h) = H + Len(played)
        /\ \A i \in 1..H : h[i] = history[i]
        /\ \A k \in 1..Len(played) : h[H + k] = played[k]
        /\ \A i \in 1..H + Len(played) : i \in 1..H \/ \E k \in 1..Len(played) : i = H + k
    BY <1>2, ConcatIs
  <2>3. history' = h /\ Len(played) = n /\ \A k \in 1..n : played[k] = C[a + k - 1]
    BY <1>3
  <2> HIDE DEF n, h, C, H
  <2>. QED  BY <1>5, <2>1, <2>2, <2>3
<1>7. /\ heap' \in Seq(Events) /\ Coming' = heap' /\ DOMAIN heap' = 1..r /\ Len(heap') = r
      /\ \A k \in 1..r : heap'[k] = C[m + k]
  <2>1. heap' \o << >> = heap'
    BY <1>3
  <2>. QED  BY <1>3, <1>5, <2>1, LenProperties DEF Coming
<1>8. /\ \A k \in 1..n : a + k - 1 \in a..b /\ a + k - 1 \in 1..N
      /\ \A k \in 1..r : m + k \in a..b /\ m + k \in 1..N
  BY <1>3, <1>5
<1>9. /\ \A i \in a..b : i \in 1..N /\ C[i].epoch = got.epoch
      /\ \A i, j \in a..b : i < j => /\ StepIndex(C[j]) = StepIndex(C[i]) + (j - i)
                                     /\ C[i].time < C[j].time
  <2>1. \A i \in a..b : i \in DOMAIN C /\ C[i].epoch = got.epoch
    BY <1>3
  <2>. QED  BY <1>4, <2>1 DEF Turns, Aligned
<1>10. \A i \in 1..N : StepIndex(C[i]) \in Nat
  BY <1>4, EventIs
\* Where the history ends, the interval begins.
<1>11. ASSUME history # << >>, Last(history).epoch = got.epoch, NEW i \in a..b
       PROVE  a = 1 /\ StepIndex(C[i]) = StepIndex(Last(history)) + i
  <2>1. i \in DOMAIN Coming /\ Coming[i].epoch = Floor
    BY <1>1, <1>4, <1>9
  <2>. QED  BY <1>1, <1>3, <1>11, <2>1 DEF Turns, Joined
<1>12. history # << >> => /\ H \in 1..H /\ Last(history) = history[H] /\ Last(history) \in Events
                          /\ Last(history).epoch <= got.epoch /\ Last(history).epoch \in Nat
                          /\ StepIndex(Last(history)) \in Nat
  <2>1. history # << >> => /\ H \in DOMAIN history /\ Last(history) = history[H]
                           /\ Last(history) \in Events
    BY <1>2, LastIs
  <2>. QED  BY <1>1, <1>6, <2>1, EventIs DEF Turns, Past
<1>13. history = << >> <=> H = 0
  BY <1>2, EmptySeq
\* Where it ends now.
<1>14. /\ history' # << >> <=> H + n # 0
       /\ n # 0 => Last(history') = C[m]
       /\ n = 0 /\ history' # << >> => history # << >> /\ Last(history') = Last(history)
  <2>1. history' \in Seq(Events)
    BY DEF TypeInv, TypeAudio
  <2>2. history' # << >> <=> H + n # 0
    BY <1>6, <2>1, EmptySeq
  <2>3. history' # << >> => Last(history') = history'[H + n]
    BY <1>6, <2>1, LastIs
  <2>4. n # 0 => H + n # 0 /\ n \in 1..n /\ a + n - 1 = m
    BY <1>5
  <2>5. n # 0 => history'[H + n] = C[m]
    BY <1>6, <2>4
  <2>6. n = 0 /\ H # 0 => H + n = H /\ H \in 1..H
    BY <1>5
  <2>7. n = 0 /\ H # 0 => history'[H + n] = history[H]
    BY <1>6, <2>6
  <2>8. n = 0 => (H + n # 0 <=> H # 0)
    BY <1>5
  <2> HIDE DEF n, H
  <2>. QED  BY <1>12, <1>13, <2>2, <2>3, <2>4, <2>5, <2>7, <2>8
<1>15. Paced' /\ Past'
  <2>1. Paced'
    BY <1>1 DEF Turns, Paced, BlockEnd
  <2>2. ASSUME NEW i \in 1..H + n PROVE history'[i].epoch <= epoch
    <3>1. CASE i \in 1..H
      <4>1. history'[i].epoch <= got.epoch /\ history'[i].epoch \in Nat
        BY <1>1, <1>6, <3>1, EventIs DEF Turns, Past
      <4>. QED  BY <1>2, <4>1
    <3>2. CASE \E k \in 1..n : i = H + k
      <4>1. history'[i].epoch = got.epoch
        <5>1. PICK k \in 1..n : i = H + k
          BY <3>2
        <5>2. history'[i] = C[a + k - 1] /\ a + k - 1 \in a..b
          BY <1>6, <1>8, <5>1
        <5>. QED  BY <1>9, <5>2
      <4>. QED  BY <1>2, <4>1
    <3>. QED  BY <1>6, <3>1, <3>2
  <2>3. Past'
    BY <1>1, <1>2, <1>6, <2>2 DEF Past
  <2>. QED  BY <2>1, <2>3
<1>16. Aligned'
  <2>1. \A i, j \in 1..r : heap'[i].epoch = heap'[j].epoch
    BY <1>7, <1>8, <1>9, ZenonT(40)
  <2>2. ASSUME NEW i \in 1..r, NEW j \in 1..r, i < j
        PROVE  /\ StepIndex(heap'[j]) = StepIndex(heap'[i]) + (j - i)
               /\ heap'[i].time < heap'[j].time
    <3>1. m + i \in a..b /\ m + j \in a..b /\ m + i < m + j /\ (m + j) - (m + i) = j - i
      BY <1>5, <1>8, <2>2
    <3>. QED  BY <1>7, <1>9, <3>1
  <2>. QED  BY <1>7, <2>1, <2>2 DEF Aligned, StepIndex
<1>17. Joined'
  <2> SUFFICES ASSUME history' # << >>, Last(history').epoch = epoch, NEW i \in 1..r
               PROVE  /\ heap'[i].epoch = epoch
                      /\ StepIndex(heap'[i]) = StepIndex(Last(history')) + i
    BY <1>1, <1>7 DEF Joined, StepIndex
  <2>1. m + i \in a..b /\ m + i \in 1..N /\ heap'[i] = C[m + i]
    BY <1>7, <1>8
  <2>2. CASE n # 0
    <3>1. Last(history') = C[m] /\ m \in a..b /\ m < m + i /\ (m + i) - m = i
      BY <1>5, <1>14, <2>2
    <3>. QED  BY <1>9, <2>1, <3>1
  <2>3. CASE n = 0
    <3>1. history # << >> /\ Last(history') = Last(history)
      BY <1>14, <2>3
    <3>2. got.epoch = epoch
      BY <1>2, <1>12, <3>1
    <3>3. m + i = i
      BY <1>5, <1>11, <2>1, <2>3, <3>1, <3>2
    <3>. QED  BY <1>9, <1>11, <2>1, <3>1, <3>2, <3>3
  <2>. QED  BY <2>2, <2>3
<1>18. Continued'
  <2>1. \A e : AtClock(e)' <=> AtClock(e)
    BY <1>1 DEF AtClock, StepIndex
  <2>2. ASSUME heap' # << >>, Last(heap').epoch = Source
        PROVE  /\ AtClock(Last(heap'))
               /\ Last(heap').time = Last(heap').pos + until - clock.total - 1
               /\ Last(heap').pos <= clock.total
    <3>1. r \in 1..r /\ Last(heap') = heap'[r]
      BY <1>7, <2>2, LastIs
    <3>2. Last(heap') = C[b] /\ b \in a..b /\ m + r = b
      BY <1>5, <1>7, <1>8, <3>1
    <3>3. b = N /\ C # << >>
      <4>1. got.epoch = Source
        BY <1>9, <2>2, <3>2
      <4>2. b = N /\ N # 0
        BY <1>3, <1>4, <1>9, <3>2, <4>1
      <4>. QED  BY <1>4, <4>2, EmptySeq
    <3>4. Last(C) = C[b] /\ Last(C).epoch = Source
      BY <1>4, <2>2, <3>2, <3>3, LastIs
    <3>. QED  BY <3>2, <3>3, <3>4 DEF Turns, Continued
  <2>3. ASSUME heap' = << >>, history' # << >>, Last(history').epoch = Source, Source = epoch
        PROVE  AtClock(Last(history'))
    <3>1. r = 0 /\ m = b
      BY <1>5, <1>7, <2>3
    <3>2. CASE n # 0
      <4>1. Last(history') = C[b] /\ b \in a..b /\ C[b].epoch = Source
        BY <1>5, <1>14, <2>3, <3>1, <3>2
      <4>2. b = N /\ C # << >>
        <5>1. got.epoch = Source
          BY <1>9, <4>1
        <5>2. b = N /\ N # 0
          BY <1>3, <1>4, <1>9, <4>1, <5>1
        <5>. QED  BY <1>4, <5>2, EmptySeq
      <4>3. Last(C) = C[b] /\ Last(C).epoch = Source
        BY <1>4, <4>1, <4>2, LastIs
      <4>. QED  BY <4>1, <4>2, <4>3 DEF Turns, Continued
    <3>3. CASE n = 0
      <4>1. history # << >> /\ Last(history') = Last(history)
        BY <1>14, <2>3, <3>3
      <4>2. got.epoch = Source
        BY <1>2, <1>12, <2>3, <4>1
      <4>3. a = 1 /\ b = N
        BY <1>3, <2>3, <4>1, <4>2
      <4>4. N = 0
        BY <1>4, <1>5, <3>1, <3>3, <4>3
      <4>5. C = << >>
        BY <1>4, <4>4, EmptySeq
      <4>6. Source = Floor
        BY <1>1, <4>2
      <4>. QED  BY <2>3, <4>1, <4>5, <4>6 DEF Turns, Continued
    <3>. QED  BY <3>2, <3>3
  <2>. QED  BY <1>1, <1>7, <2>1, <2>2, <2>3 DEF Continued
<1>19. StepsInTurn'
  <2>1. ASSUME NEW i \in 1..H + n - 1, history'[i].epoch = history'[i + 1].epoch
        PROVE  StepIndex(history'[i + 1]) = StepIndex(history'[i]) + 1
    <3>1. CASE i + 1 \in 1..H
      <4>1. i \in 1..H /\ i \in 1..Len(history) - 1
        BY <1>5, <3>1
      <4>. QED  BY <1>6, <2>1, <3>1, <4>1 DEF StepsInTurn
    <3>2. CASE i = H
      <4>1. H \in 1..H /\ 1 \in 1..n /\ a + 1 - 1 = a /\ a \in a..b
        BY <1>5, <3>2
      <4>2. history'[i] = Last(history) /\ history'[i + 1] = C[a] /\ history # << >>
        BY <1>6, <1>12, <1>13, <3>2, <4>1
      <4>3. Last(history).epoch = got.epoch
        BY <1>9, <2>1, <4>1, <4>2
      <4>. QED  BY <1>11, <4>1, <4>2, <4>3
    <3>3. CASE \E k \in 1..n : i = H + k
      <4>1. PICK k \in 1..n : i = H + k
        BY <3>3
      <4>2. /\ k + 1 \in 1..n /\ i + 1 = H + (k + 1)
            /\ a + k - 1 \in a..b /\ a + (k + 1) - 1 \in a..b
            /\ a + k - 1 < a + (k + 1) - 1 /\ (a + (k + 1) - 1) - (a + k - 1) = 1
        BY <1>5, <4>1
      <4>3. history'[i] = C[a + k - 1] /\ history'[i + 1] = C[a + (k + 1) - 1]
        BY <1>6, <4>1, <4>2
      <4>. QED  BY <1>9, <4>2, <4>3
    <3>4. i \in 1..H \/ \E k \in 1..n : i = H + k
      <4>1. i \in 1..H + n
        BY <1>5
      <4>. QED  BY <1>6, <4>1
    <3>. QED  BY <1>5, <3>1, <3>2, <3>3, <3>4
  <2>. QED  BY <1>6, <2>1 DEF StepsInTurn, StepIndex
<1>. QED  BY <1>15, <1>16, <1>17, <1>18, <1>19 DEF Turns

\* What is scheduled for a chunk are its triggers, at the times of their positions.
LEMMA ScheduledAre ==
  ASSUME TypeInv, NEW c \in Clocks, Stands(c)
  PROVE  \E n \in Nat :
           /\ Scheduled(c) \in Seq(Events) /\ Len(Scheduled(c)) = n
           /\ \A k \in 1..n :
                LET e == Scheduled(c)[k] IN
                /\ e \in Events /\ e.epoch = seen.snap.epoch
                /\ e.time = e.pos + until - c.total - 1
                /\ c.total < e.pos /\ e.pos <= c.total + Chunk
                /\ NumSteps > 1 => StepIndex(e) = Base(c) + k
           /\ NumSteps > 1 => Base(c) + n = (c.total + Chunk) \div StepLen
           /\ NumSteps = 1 => n = IF c.step = -1 THEN 1 ELSE 0
<1> DEFINE n == Len(Triggers(c))
           s == Scheduled(c)
           T == Triggers(c)
<1>1. /\ c.total \in Nat /\ Chunk \in Nat \ {0} /\ until \in Nat
      /\ seen.snap.epoch \in Nat
  BY SizesAre, TurnTypes DEF Stands
<1>2. /\ T \in Seq(Positions(c))
      /\ NumSteps > 1 =>
           /\ HowMany(c) \in Nat /\ Base(c) \in Int
           /\ n = HowMany(c)
           /\ \A k \in 1..HowMany(c) : T[k] \div StepLen = Base(c) + k
      /\ NumSteps = 1 => n = IF c.step = -1 THEN 1 ELSE 0
  BY TriggersAre
<1>3. n \in Nat /\ DOMAIN T = 1..n /\ \A k \in 1..n : T[k] \in Positions(c)
  BY <1>2, LenProperties
<1>4. \A k \in 1..n : T[k] \in Nat /\ c.total < T[k] /\ T[k] <= c.total + Chunk
  <2>1. \A p \in Positions(c) : p \in Nat /\ c.total < p /\ p <= c.total + Chunk
    BY <1>1 DEF Positions
  <2>. QED  BY <1>3, <2>1
<1>5. s \in Seq(Events) /\ Len(s) = n /\ \A k \in 1..n : s[k] \in Events
  BY ScheduledTypes, LenProperties
<1>6. \A k \in 1..n : /\ s[k].pos = T[k] /\ s[k].epoch = seen.snap.epoch
                      /\ s[k].time = until + T[k] - c.total - 1
  BY <1>3 DEF Scheduled
<1>7. NumSteps > 1 => Base(c) + n = (c.total + Chunk) \div StepLen
  <2>1. (c.total + Chunk) \div StepLen \in Int
    BY <1>1, SizesAre
  <2>. QED  BY <1>2, <2>1 DEF HowMany
<1> HIDE DEF n, s, T
<1>8. ASSUME NEW k \in 1..n
      PROVE  /\ s[k] \in Events /\ s[k].epoch = seen.snap.epoch
             /\ s[k].time = s[k].pos + until - c.total - 1
             /\ c.total < s[k].pos /\ s[k].pos <= c.total + Chunk
             /\ NumSteps > 1 => StepIndex(s[k]) = Base(c) + k
  <2>1. s[k] \in Events /\ s[k].epoch = seen.snap.epoch /\ s[k].pos = T[k] /\ T[k] \in Nat
    BY <1>4, <1>5, <1>6
  <2>2. s[k].time = s[k].pos + until - c.total - 1
    BY <1>1, <1>6, <2>1
  <2>3. c.total < s[k].pos /\ s[k].pos <= c.total + Chunk
    BY <1>4, <2>1
  <2>4. NumSteps > 1 => k \in 1..HowMany(c)
    BY <1>2
  <2>5. NumSteps > 1 => T[k] \div StepLen = Base(c) + k
    BY <1>2, <2>4
  <2>. QED  BY <2>1, <2>2, <2>3, <2>5 DEF StepIndex
<1>. QED  BY <1>2, <1>3, <1>5, <1>7, <1>8 DEF s

\* While a pass fills the horizon, the clock moves on by a chunk.
LEMMA ClockAdvances ==
  ASSUME TypeInv, Turns, Filling
  PROVE  LET c == Started(clock) IN
         /\ c \in Clocks /\ Stands(c) /\ c.total = clock.total /\ c.step = clock.step
         /\ Advanced(c) = [total |-> clock.total + Chunk, step |-> StepAt(clock.total + Chunk),
                           started |-> TRUE]
<1> DEFINE c == Started(clock)
           t == clock.total + Chunk
<1>1. /\ setup \in Setups /\ clock \in Clocks /\ clock.total \in Nat /\ until \in Nat
      /\ clock = [total |-> clock.total, step |-> clock.step, started |-> clock.started]
      /\ clock.started \in BOOLEAN /\ seen.rendered \in Nat /\ rendered \in Nat
      /\ setup.time \in Nat /\ Chunk \in Nat /\ Lookahead \in Nat
  BY TurnTypes, SizesAre DEF TypeInv, TypeUI
<1>2. c = [total |-> clock.total, step |-> clock.step, started |-> TRUE]
  <2>1. CASE clock.started
    BY <1>1, <2>1 DEF Started
  <2>2. CASE ~ clock.started
    <3>1. clock = [total |-> 0, step |-> -1, started |-> FALSE]
      BY <2>2 DEF Turns, Paced, ResetClock
    <3>. QED  BY <2>2, <3>1 DEF Started, ResetClock
  <2>. QED  BY <2>1, <2>2
<1>3. c \in Clocks /\ Stands(c)
  <2>1. c \in Clocks
    BY <1>1, ClockTypes
  <2>. QED  BY <1>2, <2>1 DEF Turns, Paced, Stands
<1>4. Bounded(t) = t
  <2>1. clock.total <= until /\ until < seen.rendered + Lookahead
        /\ seen.rendered <= rendered /\ rendered <= setup.time
    BY DEF Turns, Paced, Filling
  <2>2. t <= setup.time + Lookahead + Chunk
    BY <1>1, <2>1
  <2>3. ~ (t > MaxTotal)
    BY <1>1, <2>2 DEF MaxTotal
  <2>. QED  BY <2>3 DEF Bounded
<1>5. Advanced(c) = [total |-> t, step |-> StepAt(t), started |-> TRUE]
  <2>1. Advanced(c) = [c EXCEPT !.total = Bounded(t), !.step = StepAt(t)]
    BY <1>2 DEF Advanced
  <2> HIDE DEF c, t
  <2>. QED  BY <1>2, <1>4, <2>1
<1>. QED  BY <1>2, <1>3, <1>5

\* A chunk appends the steps after the one that the clock stands at.
LEMMA FillIs ==
  ASSUME TypeInv, Turns, FillChunk
  PROVE  \E n \in Nat, new \in Seq(Events) :
           /\ Len(new) = n /\ queue' = queue \o new
           /\ clock' = [total |-> clock.total + Chunk, step |-> StepAt(clock.total + Chunk),
                        started |-> TRUE]
           /\ until' = until + Chunk
           /\ \A k \in 1..n :
                /\ new[k] \in Events /\ new[k].epoch = Source /\ until <= new[k].time
                /\ new[k].time = new[k].pos + until - clock.total - 1
                /\ new[k].pos <= clock.total + Chunk
           /\ \A k, l \in 1..n : k < l =>
                /\ StepIndex(new[l]) = StepIndex(new[k]) + (l - k)
                /\ new[k].time < new[l].time
           /\ \A e \in Events : AtClock(e) =>
                /\ \A k \in 1..n : StepIndex(new[k]) = StepIndex(e) + k
                /\ n = 0 => AtClock(e)'
           /\ n # 0 => AtClock(new[n])'
<1> DEFINE c == Started(clock)
           base == Base(c)
           next == (c.total + Chunk) \div StepLen
<1>0. PICK new : new = Scheduled(c)
  OBVIOUS
<1>1. /\ c \in Clocks /\ Stands(c) /\ c.total = clock.total /\ c.step = clock.step
      /\ Advanced(c) = [total |-> clock.total + Chunk, step |-> StepAt(clock.total + Chunk),
                        started |-> TRUE]
  BY ClockAdvances DEF FillChunk
<1>2. /\ queue' = queue \o new /\ clock' = Advanced(c) /\ until' = until + Chunk
      /\ Source = seen.snap.epoch
  BY <1>0 DEF FillChunk, Filling, Source
<1>3. PICK n \in Nat :
        /\ new \in Seq(Events) /\ Len(new) = n
        /\ \A k \in 1..n :
             /\ new[k] \in Events /\ new[k].epoch = seen.snap.epoch
             /\ new[k].time = new[k].pos + until - c.total - 1
             /\ c.total < new[k].pos /\ new[k].pos <= c.total + Chunk
             /\ NumSteps > 1 => StepIndex(new[k]) = base + k
        /\ NumSteps > 1 => base + n = next
        /\ NumSteps = 1 => n = IF c.step = -1 THEN 1 ELSE 0
  BY <1>0, <1>1, ScheduledAre
<1>4. /\ c.total \in Nat /\ Chunk \in Nat \ {0} /\ until \in Nat
      /\ NumSteps = 1 \/ NumSteps > 1
  <2>1. NumSteps \in Nat \ {0} /\ StepLen \in Nat \ {0} /\ Chunk \in Nat \ {0}
    BY SizesAre
  <2>2. NumSteps = 1 \/ NumSteps > 1
    BY <2>1
  <2>3. clock.total \in Nat /\ until \in Nat
    BY TurnTypes
  <2>. QED  BY <1>1, <2>1, <2>2, <2>3
<1>5. base \in Int /\ next \in Int
  <2>1. \A x \in Nat : x \div StepLen \in Int
    BY SizesAre, DivBounds
  <2>. QED  BY <1>4, <2>1 DEF Base
<1>6. clock'.total = clock.total + Chunk /\ clock'.step = StepAt(clock'.total)
  BY <1>1, <1>2
<1>. HIDE DEF c, base, next
<1>7. ASSUME NEW k \in 1..n
      PROVE  /\ new[k].epoch = Source /\ until <= new[k].time
             /\ new[k].time = new[k].pos + until - clock.total - 1
             /\ new[k].pos <= clock.total + Chunk
  <2>1. new[k].pos \in Nat
    BY <1>3, EventIs
  <2>2. /\ new[k].epoch = Source /\ clock.total < new[k].pos
        /\ new[k].time = new[k].pos + until - clock.total - 1
        /\ new[k].pos <= clock.total + Chunk
    BY <1>1, <1>2, <1>3
  <2>3. clock.total \in Nat /\ until \in Nat
    BY <1>1, <1>4
  <2>4. until <= new[k].time
    BY <2>1, <2>2, <2>3
  <2>. QED  BY <2>2, <2>4
<1>8. ASSUME NEW k \in 1..n, NEW l \in 1..n, k < l
      PROVE  /\ StepIndex(new[l]) = StepIndex(new[k]) + (l - k)
             /\ new[k].time < new[l].time
  <2>1. NumSteps > 1
    BY <1>3, <1>4, <1>8
  <2>2. StepIndex(new[k]) = base + k /\ StepIndex(new[l]) = base + l
    BY <1>3, <2>1
  <2>3. new[k].pos \in Nat /\ new[l].pos \in Nat /\ StepLen \in Nat \ {0}
    BY <1>3, EventIs, SizesAre
  <2>4. new[k].pos < new[l].pos
    <3>1. new[l].pos <= new[k].pos => StepIndex(new[l]) <= StepIndex(new[k])
      BY <2>3, DivMonotone DEF StepIndex
    <3>. QED  BY <1>5, <1>8, <2>2, <2>3, <3>1
  <2>5. StepIndex(new[l]) = StepIndex(new[k]) + (l - k)
    BY <1>5, <2>2
  <2>6. /\ new[k].time = new[k].pos + until - c.total - 1
        /\ new[l].time = new[l].pos + until - c.total - 1
    BY <1>3
  <2>7. new[k].time < new[l].time
    BY <1>4, <2>3, <2>4, <2>6
  <2>. QED  BY <2>5, <2>7
<1>9. ASSUME NEW e \in Events, AtClock(e)
      PROVE  /\ \A k \in 1..n : StepIndex(new[k]) = StepIndex(e) + k
             /\ n = 0 => AtClock(e)'
  <2>1. c.step # -1
    <3>1. clock.step \in 0..NumSteps - 1
      BY <1>1, <1>4, <1>9, StepAtIs DEF AtClock
    <3>. QED  BY <1>1, <3>1
  <2>2. NumSteps > 1 => StepIndex(e) = base
    BY <1>1, <1>9, <2>1 DEF AtClock, Base, base
  <2>3. NumSteps = 1 => n = 0
    BY <1>3, <2>1
  <2>4. \A k \in 1..n : StepIndex(new[k]) = StepIndex(e) + k
    BY <1>3, <1>4, <2>2, <2>3
  <2>5. ASSUME n = 0 PROVE AtClock(e)'
    <3>1. NumSteps > 1 => StepIndex(e) = next
      BY <1>3, <1>5, <2>2, <2>5
    <3>2. next = clock'.total \div StepLen
      BY <1>1, <1>6 DEF next
    <3>. QED  BY <1>6, <3>1, <3>2 DEF AtClock, StepIndex
  <2>. QED  BY <2>4, <2>5
<1>10. ASSUME n # 0 PROVE AtClock(new[n])'
  <2>1. n \in 1..n
    BY <1>10
  <2>2. NumSteps > 1 => StepIndex(new[n]) = next
    BY <1>3, <2>1
  <2>3. next = clock'.total \div StepLen
    BY <1>1, <1>6 DEF next
  <2>. QED  BY <1>6, <2>2, <2>3 DEF AtClock, StepIndex
<1>11. new \in Seq(Events) /\ Len(new) = n /\ \A k \in 1..n : new[k] \in Events
  BY <1>3
<1>. new \in Seq(Events)
  BY <1>11
<1>. WITNESS n \in Nat, new \in Seq(Events)
<1>. QED  BY <1>1, <1>2, <1>7, <1>8, <1>9, <1>10, <1>11

\* A chunk is the next steps after what is on its way.
LEMMA TurnFills ==
  TypeInv /\ TypeInv' /\ SwitchInv /\ Turns /\ OnlySwitches /\ FillChunk => Turns'
<1> SUFFICES ASSUME TypeInv, TypeInv', SwitchInv, Turns, OnlySwitches, FillChunk PROVE Turns'
  OBVIOUS
<1>0. Undisturbed /\ Versions /\ AllMade
  BY DEF SwitchInv
<1>1. /\ UNCHANGED <<setup, epoch, seen, spc, last, apc, got, rendered, heap, history>>
      /\ Floor' = Floor /\ Source' = Source
  BY DEF FillChunk, SchedElse, audioVars, Floor, Source
<1>2. PICK n \in Nat, new \in Seq(Events) :
        /\ Len(new) = n /\ queue' = queue \o new
        /\ clock' = [total |-> clock.total + Chunk, step |-> StepAt(clock.total + Chunk),
                     started |-> TRUE]
        /\ until' = until + Chunk
        /\ \A k \in 1..n :
             /\ new[k] \in Events /\ new[k].epoch = Source /\ until <= new[k].time
             /\ new[k].time = new[k].pos + until - clock.total - 1
             /\ new[k].pos <= clock.total + Chunk
        /\ \A k, l \in 1..n : k < l =>
             /\ StepIndex(new[l]) = StepIndex(new[k]) + (l - k)
             /\ new[k].time < new[l].time
        /\ \A e \in Events : AtClock(e) =>
             /\ \A k \in 1..n : StepIndex(new[k]) = StepIndex(e) + k
             /\ n = 0 => AtClock(e)'
        /\ n # 0 => AtClock(new[n])'
  BY FillIs
<1> DEFINE C == Coming
           N == Len(Coming)
           L == Len(heap)
<1>3. /\ C \in Seq(Events) /\ N \in Nat /\ DOMAIN C = 1..N /\ \A i \in 1..N : C[i] \in Events
      /\ L \in Nat /\ DOMAIN heap = 1..L /\ L <= N
      /\ \A i \in 1..N : \/ i \in 1..L /\ C[i] = heap[i]
                         \/ C[i].epoch = Source
  <2>1. \A j \in 1..Len(queue) : queue[j].epoch = Source
    BY <1>0, ComingIs DEF AllMade
  <2>2. /\ C \in Seq(Events) /\ N = L + Len(queue) /\ L \in Nat /\ Len(queue) \in Nat
        /\ DOMAIN C = 1..N /\ DOMAIN heap = 1..L
        /\ \A i \in 1..L : C[i] = heap[i]
        /\ \A j \in 1..Len(queue) : C[L + j] = queue[j]
        /\ \A i \in 1..N : i \in 1..L \/ \E j \in 1..Len(queue) : i = L + j
        /\ \A i \in 1..N : C[i] \in Events
    BY ComingIs
  <2>3. N \in Nat /\ L <= N
    BY <2>2
  <2>4. ASSUME NEW i \in 1..N PROVE (i \in 1..L /\ C[i] = heap[i]) \/ C[i].epoch = Source
    BY <2>1, <2>2
  <2> HIDE DEF C, N, L
  <2>. QED  BY <2>2, <2>3, <2>4
<1>4. Coming' = C \o new
  <2>1. (heap \o queue) \o new = heap \o (queue \o new)
    <3>1. heap \in Seq(Events) /\ queue \in Seq(Events)
      BY TurnTypes
    <3>. QED  BY <3>1, ConcatAssociative
  <2>. QED  BY <1>1, <1>2, <2>1 DEF Coming
<1>5. PICK D : D = C \o new
  OBVIOUS
<1>6. /\ D \in Seq(Events) /\ Len(D) = N + n /\ DOMAIN D = 1..N + n
      /\ \A i \in 1..N : D[i] = C[i]
      /\ \A k \in 1..n : D[N + k] = new[k]
      /\ \A i \in 1..N + n : i \in 1..N \/ \E k \in 1..n : i = N + k
  <2>1. N = Len(C) /\ n = Len(new) /\ new \in Seq(Events) /\ C \in Seq(Events)
    BY <1>2, <1>3
  <2> HIDE DEF C, N
  <2>. QED  BY <1>5, <2>1, ConcatIs
<1>7. Coming' = D
  BY <1>4, <1>5
<1>8. /\ clock'.total = clock.total + Chunk /\ clock'.started /\ clock'.step = StepAt(clock'.total)
      /\ clock.total \in Nat /\ until \in Nat /\ Chunk \in Nat \ {0} /\ clock.total <= until
      /\ Floor \in Nat /\ Source \in Int
  BY <1>2, TurnTypes, SizesAre DEF Turns, Paced
<1>9. \A i \in 1..N : StepIndex(C[i]) \in Nat /\ C[i].epoch \in Nat /\ C[i].time \in Nat
                      /\ C[i].pos \in Nat
  BY <1>3, EventIs
<1>10. \A k \in 1..n : StepIndex(new[k]) \in Nat /\ new[k].time \in Nat /\ new[k].pos \in Nat
  BY <1>2, EventIs
<1> HIDE DEF C, N, L
\* The end of what is on its way, if it is of the epoch that is being scheduled.
<1>11. ASSUME N # 0
       PROVE  C # << >> /\ N \in 1..N /\ Last(C) = C[N]
  <2>1. C # << >>
    BY <1>3, <1>11, EmptySeq DEF N, C
  <2>. QED  BY <1>3, <2>1, LastIs DEF N, C
<1>12. ASSUME N # 0, C[N].epoch = Source
       PROVE  /\ AtClock(C[N]) /\ C[N].time < until
              /\ C[N].time = C[N].pos + until - clock.total - 1 /\ C[N].pos <= clock.total
  <2>1. /\ AtClock(C[N]) /\ C[N].pos <= clock.total
        /\ C[N].time = C[N].pos + until - clock.total - 1
    BY <1>11, <1>12 DEF Turns, Continued, C
  <2>2. C[N].pos \in Nat /\ C[N].time \in Nat /\ clock.total \in Nat /\ until \in Nat
    BY <1>8, <1>9, <1>11, <1>12
  <2>3. C[N].time < until
    BY <2>1, <2>2
  <2>. QED  BY <2>1, <2>3
<1>13. ASSUME NEW i \in 1..N, C[i].epoch = Source
       PROVE  N # 0 /\ C[N].epoch = Source
  <2>1. N # 0 /\ N \in 1..N
    BY <1>3
  <2>2. CASE N \in 1..L /\ C[N] = heap[N]
    <3>1. (i \in 1..L /\ C[i] = heap[i]) \/ C[i].epoch = Source
      BY <1>3
    <3>2. L = N /\ i \in DOMAIN heap /\ N \in DOMAIN heap
      BY <1>3, <2>1, <2>2
    <3>3. C[i] = heap[i]
      BY <3>2, ComingIs DEF C, L
    <3>. QED  BY <1>13, <2>1, <2>2, <3>2, <3>3 DEF Turns, Aligned
  <2>. QED  BY <1>3, <2>1, <2>2
<1>14. Paced' /\ Past'
  <2>1. clock'.total <= until' /\ Stands(clock')
    BY <1>2, <1>8 DEF Stands
  <2>. QED  BY <1>1, <1>8, <2>1 DEF Turns, Paced, Past, BlockEnd
<1>15. Aligned'
  <2>1. \A i, j \in DOMAIN heap' : heap'[i].epoch = heap'[j].epoch
    BY <1>1 DEF Turns, Aligned
  <2>2. ASSUME NEW i \in 1..N + n, NEW j \in 1..N + n, i < j, D[i].epoch = D[j].epoch
        PROVE  StepIndex(D[j]) = StepIndex(D[i]) + (j - i) /\ D[i].time < D[j].time
    <3>1. CASE j \in 1..N
      <4>1. i \in 1..N
        BY <1>3, <2>2, <3>1
      <4>. QED  BY <1>3, <1>6, <2>2, <3>1, <4>1 DEF Turns, Aligned, C
    <3>2. CASE i \in 1..N /\ \E k \in 1..n : j = N + k
      <4>1. PICK k \in 1..n : j = N + k
        BY <3>2
      <4>2. D[i] = C[i] /\ D[j] = new[k] /\ C[i].epoch = Source
        BY <1>2, <1>6, <2>2, <3>2, <4>1
      <4>3. N # 0 /\ C[N].epoch = Source
        BY <1>13, <3>2, <4>2
      <4>4. /\ AtClock(C[N]) /\ C[N].time < until /\ N \in 1..N /\ C[N] \in Events
        BY <1>3, <1>11, <1>12, <4>3
      <4>5. StepIndex(new[k]) = StepIndex(C[N]) + k /\ until <= new[k].time
        BY <1>2, <4>4
      <4>6. StepIndex(C[N]) = StepIndex(C[i]) + (N - i) /\ C[i].time <= C[N].time
        <5>0. i \in 1..N /\ N \in Nat /\ StepIndex(C[i]) \in Nat /\ C[i].time \in Nat /\ C[N].time \in Nat
          BY <1>3, <1>9, <3>2, <4>4
        <5>1. CASE i = N
          BY <5>0, <5>1
        <5>2. CASE i < N
          <6>1. StepIndex(C[N]) = StepIndex(C[i]) + (N - i) /\ C[i].time < C[N].time
            BY <1>3, <4>2, <4>3, <4>4, <5>0, <5>2 DEF Turns, Aligned, C
          <6>. QED  BY <5>0, <6>1
        <5>. QED  BY <5>0, <5>1, <5>2
      <4>7. StepIndex(D[j]) = StepIndex(D[i]) + (j - i)
        <5>1. StepIndex(C[i]) \in Nat /\ i \in Int /\ N \in Int /\ k \in Int
          BY <1>3, <1>9, <3>2
        <5>. QED  BY <4>1, <4>2, <4>5, <4>6, <5>1
      <4>8. D[i].time < D[j].time
        <5>1. C[i].time \in Nat /\ C[N].time \in Nat /\ new[k].time \in Nat /\ until \in Nat
          BY <1>8, <1>9, <1>10, <3>2, <4>4
        <5>2. C[i].time <= C[N].time /\ C[N].time < until /\ until <= new[k].time
          BY <4>4, <4>5, <4>6
        <5>3. C[i].time < new[k].time
          BY <5>1, <5>2
        <5>. QED  BY <4>2, <5>3
      <4>. QED  BY <4>7, <4>8
    <3>3. CASE \E k, l \in 1..n : i = N + k /\ j = N + l
      <4>1. PICK k \in 1..n, l \in 1..n : i = N + k /\ j = N + l
        BY <3>3
      <4>2. D[i] = new[k] /\ D[j] = new[l]
        BY <1>6, <4>1
      <4>3. k < l /\ l - k = j - i
        BY <1>3, <2>2, <4>1
      <4>. QED  BY <1>2, <4>2, <4>3
    <3>4. \/ j \in 1..N
          \/ i \in 1..N /\ \E k \in 1..n : j = N + k
          \/ \E k, l \in 1..n : i = N + k /\ j = N + l
      BY <1>6
    <3>. QED  BY <3>1, <3>2, <3>3, <3>4
  <2>. QED  BY <1>6, <1>7, <2>1, <2>2 DEF Aligned, StepIndex
<1>16. ASSUME history # << >>
       PROVE  Last(history) \in Events /\ StepIndex(Last(history)) \in Nat
  <2>1. Last(history) \in Events
    BY <1>16, LastIs, TurnTypes
  <2>. QED  BY <2>1, EventIs
<1>17. Joined'
  <2> SUFFICES ASSUME history # << >>, Last(history).epoch = Floor
               PROVE  /\ \A i \in DOMAIN heap : heap[i].epoch = Floor
                      /\ \A i \in 1..N + n : D[i].epoch = Floor =>
                           StepIndex(D[i]) = StepIndex(Last(history)) + i
    BY <1>1, <1>6, <1>7 DEF Joined, StepIndex
  <2>1. /\ \A i \in DOMAIN heap : heap[i].epoch = Floor
        /\ \A i \in 1..N : C[i].epoch = Floor => StepIndex(C[i]) = StepIndex(Last(history)) + i
    BY <1>3 DEF Turns, Joined, C
  <2>2. ASSUME NEW k \in 1..n, Source = Floor
        PROVE  StepIndex(new[k]) = StepIndex(Last(history)) + (N + k)
    <3>1. CASE N = 0
      <4>1. C = << >>
        BY <1>3, <3>1, EmptySeq DEF N, C
      <4>2. AtClock(Last(history))
        BY <2>2, <4>1 DEF Turns, Continued, C
      <4>3. StepIndex(new[k]) = StepIndex(Last(history)) + k
        BY <1>2, <1>16, <4>2
      <4>. QED  BY <3>1, <4>3
    <3>2. CASE N # 0
      <4>1. N \in 1..N
        BY <1>11, <3>2
      <4>2. C[N].epoch = Source
        <5>1. (N \in 1..L /\ C[N] = heap[N]) \/ C[N].epoch = Source
          BY <1>3, <4>1
        <5>2. N \in 1..L => heap[N].epoch = Source
          BY <1>3, <2>1, <2>2
        <5>. QED  BY <5>1, <5>2
      <4>3. AtClock(C[N]) /\ C[N] \in Events
        BY <1>3, <1>12, <3>2, <4>1, <4>2
      <4>4. StepIndex(new[k]) = StepIndex(C[N]) + k
        BY <1>2, <4>3
      <4>5. StepIndex(C[N]) = StepIndex(Last(history)) + N
        BY <2>1, <2>2, <4>1, <4>2
      <4>. QED  BY <1>3, <1>16, <4>4, <4>5
    <3>. QED  BY <3>1, <3>2
  <2>3. ASSUME NEW i \in 1..N + n, D[i].epoch = Floor
        PROVE  StepIndex(D[i]) = StepIndex(Last(history)) + i
    <3>1. CASE i \in 1..N
      BY <1>6, <2>1, <2>3, <3>1
    <3>2. CASE \E k \in 1..n : i = N + k
      <4>1. PICK k \in 1..n : i = N + k
        BY <3>2
      <4>2. D[i] = new[k] /\ Source = Floor
        BY <1>2, <1>6, <2>3, <4>1
      <4>. QED  BY <2>2, <4>1, <4>2
    <3>. QED  BY <1>6, <3>1, <3>2
  <2>. QED  BY <2>1, <2>3
<1>18. Continued'
  <2>1. ASSUME D # << >>
        PROVE  N + n # 0 /\ Last(D) = D[N + n] /\ N + n \in 1..N + n
    BY <1>6, <2>1, LastIs
  <2>2. ASSUME D # << >>, Last(D).epoch = Source
        PROVE  /\ AtClock(Last(D))'
               /\ Last(D).time = Last(D).pos + until' - clock'.total - 1
               /\ Last(D).pos <= clock'.total
    <3>1. CASE n # 0
      <4>1. n \in 1..n /\ Last(D) = new[n]
        BY <1>6, <2>1, <2>2, <3>1
      <4>2. AtClock(Last(D))'
        BY <1>2, <3>1, <4>1
      <4>3. /\ new[n].time = new[n].pos + until - clock.total - 1
            /\ new[n].pos <= clock.total + Chunk
        BY <1>2, <4>1
      <4>4. new[n].time = new[n].pos + until' - clock'.total - 1
        BY <1>2, <1>8, <1>10, <4>1, <4>3
      <4>. QED  BY <1>8, <4>1, <4>2, <4>3, <4>4
    <3>2. CASE n = 0
      <4>1. N # 0 /\ Last(D) = C[N]
        <5>1. N + n = N /\ N # 0 /\ N \in 1..N
          BY <1>3, <2>1, <2>2, <3>2
        <5>. QED  BY <1>6, <2>1, <2>2, <5>1
      <4>2. C[N] \in Events /\ AtClock(C[N]) /\ C[N].pos \in Nat
        BY <1>3, <1>9, <1>11, <1>12, <2>2, <4>1
      <4>3. AtClock(Last(D))'
        BY <1>2, <3>2, <4>1, <4>2
      <4>4. C[N].time = C[N].pos + until - clock.total - 1 /\ C[N].pos <= clock.total
        BY <1>12, <2>2, <4>1
      <4>5. C[N].time = C[N].pos + until' - clock'.total - 1
        BY <1>2, <1>8, <4>2, <4>4
      <4>6. C[N].pos <= clock'.total
        BY <1>8, <4>2, <4>4
      <4>. QED  BY <4>1, <4>3, <4>5, <4>6
    <3>. QED  BY <3>1, <3>2
  <2>3. ASSUME D = << >>, history # << >>, Last(history).epoch = Source, Source = Floor
        PROVE  AtClock(Last(history))'
    <3>1. N = 0 /\ n = 0
      <4>1. N + n = 0
        BY <1>6, <2>3, EmptySeq
      <4>. QED  BY <1>3, <4>1
    <3>2. C = << >>
      BY <1>3, <3>1, EmptySeq DEF N, C
    <3>3. AtClock(Last(history))
      BY <2>3, <3>2 DEF Turns, Continued, C
    <3>4. PICK e \in Events : e = Last(history)
      BY <1>16, <2>3
    <3>5. AtClock(e)'
      BY <1>2, <3>1, <3>3, <3>4
    <3>. QED  BY <1>1, <3>4, <3>5 DEF AtClock, StepIndex
  <2>4. \A e : AtClock(e)' <=> /\ clock'.step = StepAt(clock'.total)
                               /\ NumSteps > 1 => StepIndex(e) = clock'.total \div StepLen
    BY DEF AtClock, StepIndex
  <2>. QED  BY <1>1, <1>7, <2>2, <2>3 DEF Continued
<1>. QED  BY <1>14, <1>15, <1>17, <1>18 DEF Turns

\* At the start nothing has been made.
LEMMA TurnInit == TypeInv /\ Init => TurnInv
<1> SUFFICES ASSUME TypeInv, Init PROVE Turns /\ StepsInTurn
  BY DEF TurnInv
<1>1. /\ heap = << >> /\ queue = << >> /\ history = << >> /\ apc = "idle"
      /\ got.epoch = 0 /\ epoch = 0 /\ rendered = 0 /\ seen.rendered = 0 /\ until = 0
      /\ clock = ResetClock /\ clock.total = 0 /\ clock.step = -1
  BY DEF Init, ResetClock
<1>2. setup.time \in Nat /\ Coming = << >>
  BY <1>1, TurnTypes DEF Coming
<1>3. Paced
  BY <1>1, <1>2 DEF Paced, Stands
<1>4. Past /\ Aligned /\ Joined /\ Continued
  BY <1>1, <1>2 DEF Past, Aligned, Joined, Continued
<1>5. StepsInTurn
  BY <1>1 DEF StepsInTurn
<1>. QED  BY <1>3, <1>4, <1>5 DEF Turns

\* Every step goes on with the steps in turn, unless the queue overflows.
LEMMA TurnNext ==
  TypeInv /\ TypeInv' /\ SwitchInv /\ SwitchInv' /\ TurnInv /\ [Next /\ ~ FillOverflows]_vars
    => TurnInv'
<1> SUFFICES ASSUME TypeInv, TypeInv', SwitchInv, SwitchInv', TurnInv,
                    [Next /\ ~ FillOverflows]_vars, OnlySwitches'
             PROVE  Turns' /\ StepsInTurn'
  BY DEF TurnInv
<1>1. OnlySwitches /\ Turns /\ StepsInTurn
  BY SetupStays DEF TurnInv
<1>2. ASSUME UNCHANGED history PROVE StepsInTurn'
  BY <1>1, <1>2 DEF StepsInTurn, StepIndex
<1>3. CASE UI
  <2>1. UNCHANGED history
    BY <1>3 DEF UI, UiElse, audioVars, TogglePlay, SwitchPattern, Publish, LiveNote,
                RequestDelete, DeleteTrack, DeletionFails, ApplyEdit, UnmarkEdit
  <2>. QED  BY <1>1, <1>2, <1>3, <2>1, TurnUI
<1>4. CASE ReadSnapshot \/ LoadRendered \/ LoadKind \/ EndPass
  <2>1. UNCHANGED history
    BY <1>4 DEF ReadSnapshot, LoadRendered, LoadKind, EndPass, SchedElse, audioVars
  <2>. QED  BY <1>1, <1>2, <1>4, <2>1, TurnReads
<1>5. CASE PlanStopped \/ PlanFrozen \/ PlanPlaying
  <2>1. UNCHANGED history
    BY <1>5 DEF PlanStopped, PlanFrozen, PlanPlaying, SchedElse, audioVars
  <2>. QED  BY <1>1, <1>2, <1>5, <2>1, TurnPlans
<1>6. CASE FillChunk
  <2>1. UNCHANGED history
    BY <1>6 DEF FillChunk, SchedElse, audioVars
  <2>. QED  BY <1>1, <1>2, <1>6, <2>1, TurnFills
<1>7. CASE Audio /\ ~ RenderTurn
  <2>1. UNCHANGED history
    BY <1>7 DEF Audio, CallbackStart, LoadPlaying, CallbackTransport, LoadEpoch, CallbackEnd
  <2>. QED  BY <1>1, <1>2, <1>7, <2>1, TurnCallback
<1>8. CASE RenderTurn
  BY <1>1, <1>8, TurnRenders
<1>9. CASE UNCHANGED vars
  <2>1. /\ UNCHANGED <<setup, epoch, seen, clock, until, spc, last, apc, got, rendered,
                       queue, heap, history>>
        /\ Floor' = Floor /\ Source' = Source
    BY <1>9 DEF vars, uiVars, schedVars, audioVars, Floor, Source
  <2>2. Aligned' /\ Joined' /\ Continued'
    BY <1>1, <2>1, TurnWaits
  <2>3. Paced' /\ Past'
    BY <1>1, <2>1 DEF Turns, Paced, Past, BlockEnd
  <2>. QED  BY <1>2, <2>1, <2>2, <2>3 DEF Turns
<1>10. \/ UI \/ ReadSnapshot \/ LoadRendered \/ LoadKind \/ EndPass
       \/ PlanStopped \/ PlanFrozen \/ PlanPlaying
       \/ FillChunk \/ (Audio /\ ~ RenderTurn) \/ RenderTurn \/ UNCHANGED vars
  BY DEF Next, Sched
<1>. QED  BY <1>3, <1>4, <1>5, <1>6, <1>7, <1>8, <1>9, <1>10

\* As long as the queue never overflows.
THEOREM StepsSoundInTurn == Spec /\ [][~ FillOverflows]_vars => []StepsInTurn
<1>1. Init => TurnInv
  BY TypeInit, TurnInit
<1>2. TypeInv /\ TypeInv' /\ SwitchInv /\ SwitchInv' /\ TurnInv
        /\ [Next]_vars /\ [~ FillOverflows]_vars => TurnInv'
  BY TurnNext
<1>3. TurnInv => StepsInTurn
  BY DEF TurnInv, StepsInTurn
<1>. QED  BY <1>1, <1>2, <1>3, TypesHold, SwitchesHold, PTL DEF Spec

-----------------------------------------------------------------------------
(* The musical phase *)

\* No deletion has been asked for.
Undeleted ==
  /\ left["delete"] = 0 /\ ui \in {"idle", "publish"}
  /\ ~ edit.on /\ ~ seen.edit.on

\* The position that would be rendered now, had the clock started at 0 when the
\* scheduler last read rendered, lies in the past: the clock can be set back by all
\* that is scheduled but not rendered.
Phased ==
  /\ rendered <= setup.time /\ (apc # "idle" => BlockEnd <= setup.time)
  /\ seen.rendered <= rendered
  /\ clock.total <= until /\ until - clock.total <= seen.rendered
  /\ ~ clock.started => clock = ResetClock

\* That is so as long as no setup deletes tracks.
PhaseInv == setup.ops["delete"] = 0 => Undeleted /\ Phased

\* The scheduler is a whole horizon late: what it has scheduled is rendered already.
Late == spc = "plan" /\ last.playing /\ until < seen.rendered

\* The types of what the phase speaks of.
LEMMA PhaseTypes ==
  ASSUME TypeInv
  PROVE  /\ until \in Nat /\ rendered \in Nat /\ seen.rendered \in Nat
         /\ clock.total \in Nat /\ clock.started \in BOOLEAN /\ clock \in Clocks
         /\ clock = [total |-> clock.total, step |-> clock.step, started |-> clock.started]
         /\ setup.time \in Nat /\ BlockEnd \in Nat /\ edit.on \in BOOLEAN
         /\ left \in [Operations -> Nat]
         /\ seen = [snap |-> seen.snap, rendered |-> seen.rendered, edit |-> seen.edit]
<1>1. /\ edit.on \in BOOLEAN /\ left \in [Operations -> Nat]
      /\ seen \in [snap : SnapshotType, rendered : Nat, edit : EditType]
  BY DEF TypeInv, TypeUI, TypeSched, EditType
<1>. QED  BY <1>1, TurnTypes

\* At the start the clock stands at 0, and so does what is rendered.
LEMMA PhaseInit == TypeInv /\ Init => PhaseInv
<1> SUFFICES ASSUME TypeInv, Init, setup.ops["delete"] = 0 PROVE Undeleted /\ Phased
  BY DEF PhaseInv
<1>1. /\ left["delete"] = 0 /\ ui = "idle" /\ ~ edit.on /\ ~ seen.edit.on
      /\ rendered = 0 /\ seen.rendered = 0 /\ until = 0 /\ clock.total = 0
      /\ apc = "idle" /\ clock = ResetClock
  BY DEF Init, NoEdit, ResetClock
<1>. QED  BY <1>1, PhaseTypes DEF Undeleted, Phased

\* Nobody but the UI asks for a deletion.
LEMMA UndeletedNext ==
  TypeInv /\ Undeleted /\ [Next]_vars => Undeleted'
<1> SUFFICES ASSUME TypeInv, Undeleted, [Next]_vars PROVE Undeleted'
  OBVIOUS
<1>1. /\ left \in [Operations -> Nat] /\ left["delete"] = 0
      /\ seen = [snap |-> seen.snap, rendered |-> seen.rendered, edit |-> seen.edit]
      /\ edit.on \in BOOLEAN /\ edit \in EditType /\ seen.edit \in EditType
  BY PhaseTypes DEF Undeleted, TypeInv, TypeUI, TypeSched
<1>2. CASE UI
  <2>1. TogglePlay \/ SwitchPattern \/ Publish \/ LiveNote
    <3>1. ~ May("delete")
      BY <1>1 DEF May
    <3>. QED  BY <1>2, <3>1 DEF UI, Undeleted, RequestDelete, DeleteTrack, DeletionFails,
                                ApplyEdit, UnmarkEdit
  <2>2. left'["delete"] = 0
    <3>1. \/ UNCHANGED left
          \/ \E w \in {"toggle", "switch", "live"} : left' = [left EXCEPT ![w] = @ - 1]
      BY <2>1 DEF TogglePlay, SwitchPattern, Publish, LiveNote, May
    <3>. QED  BY <1>1, <3>1 DEF Operations
  <2>. QED  BY <2>1, <2>2 DEF Undeleted, TogglePlay, SwitchPattern, Publish, LiveNote, UiElse,
                              schedVars
<1>3. CASE ReadSnapshot \/ LoadRendered
  <2>1. UNCHANGED <<left, ui, edit>>
    BY <1>3 DEF ReadSnapshot, LoadRendered, SchedElse
  <2>2. ~ seen'.edit.on
    <3>1. CASE ReadSnapshot
      BY <1>1, <3>1 DEF ReadSnapshot, Undeleted
    <3>2. CASE LoadRendered
      BY <1>1, <3>2 DEF LoadRendered, EditType
    <3>. QED  BY <1>3, <3>1, <3>2
  <2>. QED  BY <2>1, <2>2 DEF Undeleted
<1>4. CASE LoadKind
  <2> DEFINE e == [seen.edit EXCEPT !.on = edit.on]
  <2>1. e.on = edit.on
    BY <1>1 DEF EditType
  <2>2. seen' = [seen EXCEPT !.edit = e] /\ UNCHANGED <<left, ui, edit>>
    BY <1>1, <1>4 DEF LoadKind, SchedElse
  <2> HIDE DEF e
  <2>3. seen'.edit = e
    BY <1>1, <2>2
  <2>. QED  BY <2>1, <2>2, <2>3 DEF Undeleted
<1>5. CASE PlanStopped \/ PlanFrozen \/ PlanPlaying \/ FillChunk \/ FillOverflows \/ EndPass
  <2>1. Acknowledged = edit
    BY DEF Acknowledged, Undeleted
  <2>2. UNCHANGED <<left, ui, edit, seen>>
    BY <1>5, <2>1 DEF PlanStopped, PlanFrozen, PlanPlaying, FillChunk, FillOverflows, EndPass,
                      SchedElse
  <2>. QED  BY <2>2 DEF Undeleted
<1>6. CASE Audio \/ UNCHANGED vars
  <2>1. UNCHANGED <<left, ui, edit, seen>>
    BY <1>6 DEF Audio, CallbackStart, LoadPlaying, CallbackTransport, LoadEpoch, RenderTurn,
                CallbackEnd, AudioElse, vars, uiVars, schedVars
  <2>. QED  BY <2>1 DEF Undeleted
<1>. QED  BY <1>2, <1>3, <1>4, <1>5, <1>6 DEF Next, Sched

\* A plan of a scheduler that is not late moves the clock and the horizon alike,
\* and starts at 0.
LEMMA PhasePlans ==
  ASSUME TypeInv, Undeleted, Phased, PlanStopped \/ PlanFrozen \/ PlanPlaying
  PROVE  /\ clock'.total <= until' /\ until' - clock'.total <= seen.rendered
         /\ ~ clock'.started => clock' = ResetClock
         /\ ~ Late /\ last.playing /\ PlanPlaying
              => until' - clock'.total = until - clock.total
<1> DEFINE shift == until - seen.rendered
<1>1. /\ until \in Nat /\ seen.rendered \in Nat /\ clock.total \in Nat
      /\ clock.total <= until /\ until - clock.total <= seen.rendered
      /\ ~ seen.edit.on
      /\ ~ clock.started => clock = ResetClock
  BY PhaseTypes DEF Undeleted, Phased
<1>2. ResetClock.total = 0
  BY DEF ResetClock
\* Sought back by what is scheduled but not rendered, the clock is in phase with
\* what is rendered.
<1>3. ASSUME NEW c, NEW u \in Nat, c.total \in Nat, c.total <= u, u - c.total <= seen.rendered
      PROVE  LET d == Sought(c, u - seen.rendered) IN
             /\ d.started /\ d.total \in Nat /\ d.total <= seen.rendered
             /\ u >= seen.rendered => seen.rendered - d.total = u - c.total
  <2> DEFINE ahead == u - seen.rendered
             p == IF ahead < 0 THEN c.total
                  ELSE IF ahead > c.total THEN 0 ELSE c.total - ahead
             d == Sought(c, ahead)
  <2>1. d = [total |-> p, step |-> StepAt(p), started |-> TRUE]
    BY DEF Sought
  <2>2. d.total = p /\ d.started
    BY <2>1
  <2>3. p \in Nat /\ p <= seen.rendered
    BY <1>1, <1>3
  <2>4. u >= seen.rendered => p = c.total - ahead /\ seen.rendered - p = u - c.total
    BY <1>1, <1>3
  <2> HIDE DEF p, d
  <2>. QED  BY <2>2, <2>3, <2>4 DEF d
<1>4. /\ LiveClock.total \in Nat /\ LiveUntil \in Nat
      /\ LiveClock = clock \/ LiveClock.started
      /\ seen.snap.playing => /\ LiveClock.total <= LiveUntil
                              /\ LiveUntil - LiveClock.total <= seen.rendered
      /\ seen.snap.playing /\ until >= seen.rendered =>
           LiveUntil >= seen.rendered /\ LiveUntil - LiveClock.total = until - clock.total
  <2>1. CASE LiveChanges /\ seen.snap.playing
    <3>1. LiveUntil = seen.rendered /\ LiveClock = Sought(clock, until - seen.rendered)
      BY <2>1 DEF LiveUntil, LiveClock
    <3>2. /\ LiveClock.started /\ LiveClock.total \in Nat /\ LiveClock.total <= seen.rendered
          /\ until >= seen.rendered => seen.rendered - LiveClock.total = until - clock.total
      BY <1>1, <1>3, <3>1
    <3>. QED  BY <1>1, <3>1, <3>2
  <2>2. CASE ~ (LiveChanges /\ seen.snap.playing)
    <3>1. LiveClock = clock /\ LiveUntil \in {until, seen.rendered}
          /\ (seen.snap.playing => LiveUntil = until)
      BY <2>2 DEF LiveUntil, LiveClock
    <3>. QED  BY <1>1, <3>1
  <2>. QED  BY <2>1, <2>2
<1>5. CASE PlanStopped
  BY <1>1, <1>2, <1>5 DEF PlanStopped, PlanPlaying
<1>6. CASE PlanFrozen
  BY <1>1, <1>6 DEF PlanFrozen, Frozen
<1>7. CASE PlanPlaying
  <2>1. seen.snap.playing /\ spc = "plan"
    BY <1>7 DEF PlanPlaying
  <2>2. CASE ~ last.playing
    <3>1. clock' = ResetClock /\ until' = seen.rendered
      BY <1>7, <2>2 DEF PlanPlaying
    <3>. QED  BY <1>1, <1>2, <2>2, <3>1
  <2>3. CASE last.playing /\ ~ SnapshotChanges
    <3>1. clock' = LiveClock /\ until' = LiveUntil
      BY <1>1, <1>7, <2>3 DEF PlanPlaying
    <3>2. ~ Late => until >= seen.rendered
      BY <1>1, <2>1, <2>3 DEF Late
    <3>. QED  BY <1>1, <1>4, <2>1, <3>1, <3>2
  <2>4. CASE last.playing /\ SnapshotChanges
    <3>1. clock' = Sought(LiveClock, LiveUntil - seen.rendered) /\ until' = seen.rendered
      BY <1>1, <1>7, <2>4 DEF PlanPlaying
    <3>2. /\ clock'.started /\ clock'.total \in Nat /\ clock'.total <= seen.rendered
          /\ LiveUntil >= seen.rendered =>
               seen.rendered - clock'.total = LiveUntil - LiveClock.total
      BY <1>3, <1>4, <2>1, <3>1
    <3>3. ~ Late => until >= seen.rendered
      BY <1>1, <2>1, <2>4 DEF Late
    <3>. QED  BY <1>1, <1>4, <2>1, <3>1, <3>2, <3>3
  <2>. QED  BY <2>2, <2>3, <2>4
<1>. QED  BY <1>5, <1>6, <1>7

\* A chunk moves both on by its length.
LEMMA PhaseFills ==
  ASSUME TypeInv, Phased, FillChunk
  PROVE  /\ clock'.total = clock.total + Chunk /\ until' = until + Chunk /\ clock'.started
<1> DEFINE c == Started(clock)
           t == clock.total + Chunk
<1>1. /\ setup \in Setups /\ clock.total \in Nat /\ until \in Nat
      /\ clock = [total |-> clock.total, step |-> clock.step, started |-> clock.started]
      /\ clock.started \in BOOLEAN /\ seen.rendered \in Nat /\ rendered \in Nat
      /\ setup.time \in Nat /\ Chunk \in Nat /\ Lookahead \in Nat
  BY PhaseTypes, SizesAre DEF TypeInv, TypeUI
<1>2. c = [total |-> clock.total, step |-> clock.step, started |-> TRUE]
  <2>1. CASE clock.started
    BY <1>1, <2>1 DEF Started
  <2>2. CASE ~ clock.started
    <3>1. clock = [total |-> 0, step |-> -1, started |-> FALSE]
      BY <2>2 DEF Phased, ResetClock
    <3>. QED  BY <2>2, <3>1 DEF Started, ResetClock
  <2>. QED  BY <2>1, <2>2
<1>3. Bounded(t) = t
  <2>1. clock.total <= until /\ until < seen.rendered + Lookahead
        /\ seen.rendered <= rendered /\ rendered <= setup.time
    BY DEF Phased, FillChunk, Filling
  <2>2. t <= setup.time + Lookahead + Chunk
    BY <1>1, <2>1
  <2>3. ~ (t > MaxTotal)
    BY <1>1, <2>2 DEF MaxTotal
  <2>. QED  BY <2>3 DEF Bounded
<1>4. clock' = [c EXCEPT !.total = Bounded(t), !.step = StepAt(t)] /\ until' = until + Chunk
  BY <1>2 DEF FillChunk, Advanced
<1> HIDE DEF c, t
<1>5. clock' = [total |-> t, step |-> StepAt(t), started |-> TRUE]
  BY <1>2, <1>3, <1>4
<1>6. clock'.total = t /\ clock'.started
  BY <1>5
<1>. QED  BY <1>4, <1>6 DEF t

\* Every step keeps the phase, unless the queue overflows.
LEMMA PhaseNext ==
  TypeInv /\ TypeInv' /\ PhaseInv /\ [Next /\ ~ FillOverflows]_vars => PhaseInv'
<1> SUFFICES ASSUME TypeInv, TypeInv', PhaseInv, [Next /\ ~ FillOverflows]_vars,
                    setup'.ops["delete"] = 0
             PROVE  Undeleted' /\ Phased'
  BY DEF PhaseInv
<1>1. setup.ops["delete"] = 0 /\ UNCHANGED setup
  BY SetupStays
<1>2. Undeleted /\ Phased /\ Undeleted'
  BY <1>1, UndeletedNext DEF PhaseInv
<1>3. /\ until \in Nat /\ rendered \in Nat /\ seen.rendered \in Nat /\ clock.total \in Nat
      /\ setup.time \in Nat /\ BlockEnd \in Nat /\ Block \in Nat /\ Chunk \in Nat
  BY PhaseTypes, SizesAre
<1>4. CASE UI \/ ReadSnapshot \/ LoadKind \/ EndPass \/ UNCHANGED vars
  <2>1. UNCHANGED <<rendered, apc, clock, until>> /\ seen'.rendered = seen.rendered
    <3>1. CASE UI \/ EndPass \/ UNCHANGED vars
      BY <3>1 DEF UI, UiElse, TogglePlay, SwitchPattern, Publish, LiveNote, RequestDelete,
                  DeleteTrack, DeletionFails, ApplyEdit, UnmarkEdit, EndPass, SchedElse,
                  schedVars, audioVars, vars
    <3>2. CASE ReadSnapshot \/ LoadKind
      BY <3>2, PhaseTypes DEF ReadSnapshot, LoadKind, SchedElse, audioVars
    <3>. QED  BY <1>4, <3>1, <3>2
  <2>. QED  BY <1>1, <1>2, <2>1 DEF Phased, BlockEnd
<1>5. CASE LoadRendered
  <2>1. UNCHANGED <<rendered, apc, clock, until>> /\ seen'.rendered = rendered
    BY <1>5, PhaseTypes DEF LoadRendered, SchedElse, audioVars
  <2>. QED  BY <1>1, <1>2, <1>3, <2>1 DEF Phased, BlockEnd
<1>6. CASE PlanStopped \/ PlanFrozen \/ PlanPlaying
  <2>1. UNCHANGED <<rendered, apc, seen>>
    BY <1>6 DEF PlanStopped, PlanFrozen, PlanPlaying, SchedElse, audioVars
  <2>2. /\ clock'.total <= until' /\ until' - clock'.total <= seen.rendered
        /\ ~ clock'.started => clock' = ResetClock
    BY <1>2, <1>6, PhasePlans
  <2>. QED  BY <1>1, <1>2, <2>1, <2>2 DEF Phased, BlockEnd
<1>7. CASE FillChunk
  <2>1. UNCHANGED <<rendered, apc, seen>>
    BY <1>7 DEF FillChunk, SchedElse, audioVars
  <2>2. clock'.total = clock.total + Chunk /\ until' = until + Chunk /\ clock'.started
    BY <1>2, <1>7, PhaseFills
  <2>3. clock'.total <= until' /\ until' - clock'.total <= seen.rendered
    BY <1>2, <1>3, <2>2 DEF Phased
  <2>. QED  BY <1>1, <1>2, <2>1, <2>2, <2>3 DEF Phased, BlockEnd
<1>8. CASE Audio
  <2>1. UNCHANGED <<clock, until, seen>>
    BY <1>8 DEF Audio, CallbackStart, LoadPlaying, CallbackTransport, LoadEpoch, RenderTurn,
                CallbackEnd, AudioElse, schedVars
  <2>2. rendered' <= setup.time /\ (apc' # "idle" => BlockEnd' <= setup.time)
        /\ rendered' >= rendered
    <3>1. CASE CallbackEnd
      BY <1>2, <1>3, <3>1 DEF CallbackEnd, Phased, BlockEnd
    <3>2. CASE CallbackStart
      BY <1>2, <1>3, <3>2 DEF CallbackStart, Phased, BlockEnd
    <3>3. CASE LoadPlaying \/ CallbackTransport \/ LoadEpoch \/ RenderTurn
      <4>1. UNCHANGED rendered /\ apc # "idle"
        BY <3>3 DEF LoadPlaying, CallbackTransport, LoadEpoch, RenderTurn
      <4>. QED  BY <1>2, <1>3, <4>1 DEF Phased, BlockEnd
    <3>. QED  BY <1>8, <3>1, <3>2, <3>3 DEF Audio
  <2>3. rendered' \in Nat
    BY DEF TypeInv, TypeAudio
  <2>4. seen.rendered <= rendered'
    BY <1>2, <1>3, <2>2, <2>3 DEF Phased
  <2>. QED  BY <1>1, <1>2, <2>1, <2>2, <2>4 DEF Phased
<1>. QED  BY <1>4, <1>5, <1>6, <1>7, <1>8 DEF Next, Sched

\* While playing goes on, a step moves the clock and the horizon alike.
LEMMA PhaseStep ==
  ASSUME TypeInv, PhaseInv, ~ Late, [Next /\ ~ FillOverflows]_vars,
         setup.ops["delete"] = 0, last.playing, seen'.snap.playing
  PROVE  until' - clock'.total = until - clock.total
<1>1. Undeleted /\ Phased
  BY DEF PhaseInv
<1>2. CASE UI \/ ReadSnapshot \/ LoadRendered \/ LoadKind \/ EndPass \/ Audio \/ UNCHANGED vars
  <2>1. UNCHANGED <<clock, until>>
    BY <1>2 DEF UI, UiElse, TogglePlay, SwitchPattern, Publish, LiveNote, RequestDelete,
                DeleteTrack, DeletionFails, ApplyEdit, UnmarkEdit, ReadSnapshot, LoadRendered,
                LoadKind, EndPass, schedVars, Audio, AudioElse, CallbackStart, LoadPlaying,
                CallbackTransport, LoadEpoch, RenderTurn, CallbackEnd, vars
  <2>. QED  BY <2>1
<1>3. CASE PlanStopped \/ PlanFrozen
  BY <1>1, <1>3 DEF PlanStopped, PlanFrozen, Frozen, Undeleted
<1>4. CASE PlanPlaying
  BY <1>1, <1>4, PhasePlans
<1>5. CASE FillChunk
  <2>1. clock'.total = clock.total + Chunk /\ until' = until + Chunk
    BY <1>1, <1>5, PhaseFills
  <2>. QED  BY <2>1, PhaseTypes, SizesAre
<1>. QED  BY <1>2, <1>3, <1>4, <1>5 DEF Next, Sched

\* Whatever replaces the horizon while playing goes on, the position that the clock
\* stands at and the time it is scheduled for stay in the same relation.  It takes
\* that no chunk is given up (FillOverflows: its clock has moved, the horizon has
\* not), and that the scheduler is never a whole horizon late: then the seek does
\* not set the clock back (until - rendered is negative), but the horizon forth.
THEOREM PhaseIsKept == Spec /\ [][~ FillOverflows]_vars /\ []~ Late => PhaseKept
<1> DEFINE InPhase == setup.punctual /\ setup.ops["delete"] = 0 /\ last.playing
                        /\ last'.playing /\ seen'.snap.playing
                      => until' - clock'.total = until - clock.total
<1>1. Init => (TypeInv => PhaseInv)
  BY PhaseInit
<1>2. TypeInv /\ TypeInv' /\ PhaseInv /\ [Next]_vars /\ [~ FillOverflows]_vars => PhaseInv'
  BY PhaseNext
<1>3. TypeInv /\ PhaseInv /\ ~ Late /\ [Next]_vars /\ [~ FillOverflows]_vars => [InPhase]_vars
  BY PhaseStep
<1>. QED  BY <1>1, <1>2, <1>3, TypesHold, PTL DEF Spec, PhaseKept

-----------------------------------------------------------------------------
(* Deletions of a track *)

\* The ids of an edit count up, and the applied one and what the scheduler has
\* read of them follow the requested one.
Ids ==
  /\ {edit.request, edit.ready, edit.applied} \subseteq Nat
  /\ {seen.edit.request, seen.edit.ready, seen.edit.applied} \subseteq Nat
  /\ edit.applied <= edit.request
  /\ edit.ready <= edit.request
  /\ seen.edit.request <= edit.request
  /\ seen.edit.applied <= edit.applied

Records ==
  /\ edit = [on |-> edit.on, request |-> edit.request,
             ready |-> edit.ready, applied |-> edit.applied]
  /\ seen = [snap |-> seen.snap, rendered |-> seen.rendered, edit |-> seen.edit]
  /\ seen.edit = [on |-> seen.edit.on, request |-> seen.edit.request,
                  ready |-> seen.edit.ready, applied |-> seen.edit.applied]

\* An operation that has requested an edit has not applied it yet, and it is
\* marked as one while the UI waits.
Requested ==
  /\ ui \in {"wait", "publishDeletion", "complete"} => edit.applied < edit.request
  /\ ui = "wait" => edit.on

\* The UI may go ahead.
Ready == ui = "wait" /\ edit.ready >= edit.request

\* Then nothing is on its way, and what the scheduler has read of the edit keeps
\* it from adding anything.
StandsStill ==
  Ready =>
    /\ queue = << >>
    /\ spc \notin {"fill", "filled"}
    /\ spc \in {"kind", "plan"} => seen.edit.applied < seen.edit.request
    /\ spc = "plan" => seen.edit.on

QuietInv == Ids /\ Records /\ Requested /\ StandsStill

-----------------------------------------------------------------------------
(* The steps of the threads keep it. *)

\* At the start nothing has been requested.
LEMMA QuietInit == Init => QuietInv
  BY DEF Init, QuietInv, Ids, Records, Requested, StandsStill, Ready, NoEdit

\* The UI requests an edit, and then every acknowledgement is an old one; it
\* applies one that it has requested.
LEMMA QuietUI == QuietInv /\ UI => QuietInv'
<1> SUFFICES ASSUME QuietInv, UI PROVE QuietInv'
  OBVIOUS
<1> USE DEF QuietInv, UiElse, schedVars
<1>1. CASE TogglePlay \/ SwitchPattern \/ Publish \/ LiveNote
  <2>1. UNCHANGED <<edit, seen, spc, queue>> /\ ui' # "wait"
    BY <1>1 DEF TogglePlay, SwitchPattern, Publish, LiveNote
  <2>2. ui' \in {"idle", "publish"} \/ (ui' = "complete" /\ ui = "publishDeletion")
    BY <1>1 DEF TogglePlay, SwitchPattern, Publish, LiveNote
  <2>. QED  BY <2>1, <2>2 DEF Ids, Records, Requested, StandsStill, Ready
<1>2. CASE RequestDelete
  <2>1. /\ edit' = [on |-> TRUE, request |-> edit.request + 1,
                    ready |-> edit.ready, applied |-> edit.applied]
        /\ UNCHANGED <<seen, spc, queue>> /\ ui' = "wait"
    BY <1>2 DEF RequestDelete, Records
  <2>. QED  BY <2>1 DEF Ids, Records, Requested, StandsStill, Ready
<1>3. CASE DeleteTrack \/ DeletionFails
  <2>1. /\ UNCHANGED <<edit, seen, spc, queue>> /\ ui = "wait"
        /\ ui' \in {"publishDeletion", "complete"}
    BY <1>3 DEF DeleteTrack, DeletionFails
  <2>. QED  BY <2>1 DEF Ids, Records, Requested, StandsStill, Ready
<1>4. CASE ApplyEdit
  <2>1. /\ edit' = [on |-> edit.on, request |-> edit.request,
                    ready |-> edit.ready, applied |-> edit.applied + 1]
        /\ UNCHANGED <<seen, spc, queue>> /\ ui = "complete" /\ ui' = "unmark"
    BY <1>4 DEF ApplyEdit, Records
  <2>. QED  BY <2>1 DEF Ids, Records, Requested, StandsStill, Ready
<1>5. CASE UnmarkEdit
  <2>1. /\ edit' = [on |-> FALSE, request |-> edit.request,
                    ready |-> edit.ready, applied |-> edit.applied]
        /\ UNCHANGED <<seen, spc, queue>> /\ ui' = "publish"
    BY <1>5 DEF UnmarkEdit, Records
  <2>. QED  BY <2>1 DEF Ids, Records, Requested, StandsStill, Ready
<1>. QED  BY <1>1, <1>2, <1>3, <1>4, <1>5 DEF UI

\* The scheduler reads the edit: its ids, then its kind.
LEMMA QuietRead ==
  QuietInv /\ (ReadSnapshot \/ LoadRendered \/ LoadKind \/ EndPass) => QuietInv'
<1> SUFFICES ASSUME QuietInv, ReadSnapshot \/ LoadRendered \/ LoadKind \/ EndPass
             PROVE  QuietInv'
  OBVIOUS
<1> USE DEF QuietInv, SchedElse
<1>1. CASE ReadSnapshot
  <2>1. /\ seen' = [snap |-> published, rendered |-> seen.rendered, edit |-> seen.edit]
        /\ UNCHANGED <<edit, ui, queue>> /\ spc' = "load"
    BY <1>1 DEF ReadSnapshot, Records
  <2>. QED  BY <2>1 DEF Ids, Records, Requested, StandsStill, Ready
<1>2. CASE LoadRendered
  <2>1. /\ seen' = [snap |-> seen.snap, rendered |-> rendered,
                    edit |-> [on |-> FALSE, request |-> edit.request,
                              ready |-> edit.ready, applied |-> edit.applied]]
        /\ UNCHANGED <<edit, ui, queue>> /\ spc' = "kind"
    BY <1>2 DEF LoadRendered, Records
  <2>. QED  BY <2>1 DEF Ids, Records, Requested, StandsStill, Ready
<1>3. CASE LoadKind
  <2>1. /\ seen' = [snap |-> seen.snap, rendered |-> seen.rendered,
                    edit |-> [on |-> edit.on, request |-> seen.edit.request,
                              ready |-> seen.edit.ready, applied |-> seen.edit.applied]]
        /\ UNCHANGED <<edit, ui, queue>> /\ spc = "kind" /\ spc' = "plan"
    BY <1>3 DEF LoadKind, Records
  <2>. QED  BY <2>1 DEF Ids, Records, Requested, StandsStill, Ready
<1>4. CASE EndPass
  <2>1. UNCHANGED <<edit, seen, ui, queue>> /\ spc' = "read"
    BY <1>4 DEF EndPass
  <2>. QED  BY <2>1 DEF Ids, Records, Requested, StandsStill, Ready
<1>. QED  BY <1>1, <1>2, <1>3, <1>4

\* What an acknowledgement does to the edit: the ready id becomes the one that
\* the scheduler has read.
LEMMA AcknowledgedIs ==
  ASSUME QuietInv
  PROVE  \/ Acknowledged = edit
         \/ /\ seen.edit.on /\ seen.edit.ready < seen.edit.request
            /\ Acknowledged = [on |-> edit.on, request |-> edit.request,
                               ready |-> seen.edit.request, applied |-> edit.applied]
  BY DEF Acknowledged, QuietInv, Records

\* Only a pass that schedules nothing can acknowledge the edit that the UI waits
\* for: one that has read the applied id as the requested one read an old request.
LEMMA QuietPlan ==
  QuietInv /\ (PlanStopped \/ PlanFrozen \/ PlanPlaying) => QuietInv'
<1> SUFFICES ASSUME QuietInv, PlanStopped \/ PlanFrozen \/ PlanPlaying
             PROVE  QuietInv'
  OBVIOUS
<1> USE DEF QuietInv, SchedElse
<1>1. CASE PlanStopped
  <2>1. /\ UNCHANGED <<edit, seen, ui>> /\ spc' = "read"
        /\ queue' \in {queue, << >>}
    BY <1>1 DEF PlanStopped
  <2>. QED  BY <2>1 DEF Ids, Records, Requested, StandsStill, Ready
<1>2. CASE PlanFrozen
  <2>1. /\ UNCHANGED <<seen, ui>> /\ spc' = "read" /\ queue' = << >>
        /\ edit' = Acknowledged
    BY <1>2 DEF PlanFrozen
  <2>. QED  BY <2>1, AcknowledgedIs DEF Ids, Records, Requested, StandsStill, Ready
<1>3. CASE PlanPlaying
  <2>1. /\ UNCHANGED <<seen, ui>> /\ spc = "plan" /\ spc' = "fill"
        /\ edit' = Acknowledged
    BY <1>3 DEF PlanPlaying
  <2>2. seen.edit.on => seen.edit.request <= seen.edit.applied
    BY <1>3 DEF PlanPlaying, Frozen, Ids
  <2>3. ~ Ready
    BY <2>1, <2>2 DEF StandsStill, Ids
  <2>4. edit.ready' = edit.ready \/ edit.ready' <= edit.applied
    BY <2>1, <2>2, AcknowledgedIs DEF Ids
  <2>5. /\ edit.on' = edit.on /\ edit.request' = edit.request
        /\ edit.applied' = edit.applied
    BY <2>1, AcknowledgedIs
  <2>6. Ids' /\ Records' /\ Requested'
    BY <2>1, AcknowledgedIs DEF Ids, Records, Requested
  <2>7. ~ Ready'
    <3> SUFFICES ASSUME ui = "wait", edit.ready' >= edit.request
                 PROVE  FALSE
      BY <2>1, <2>5 DEF Ready
    <3>1. edit.ready' <= edit.applied
      BY <2>3, <2>4 DEF Ready
    <3>. QED  BY <2>6, <3>1 DEF Ids, Requested
  <2>. QED  BY <2>6, <2>7 DEF StandsStill
<1>. QED  BY <1>1, <1>2, <1>3

\* A pass fills the queue only while no edit is waited for, or the edit has not
\* been acknowledged yet.
LEMMA QuietFill == QuietInv /\ (FillChunk \/ FillOverflows) => QuietInv'
<1> SUFFICES ASSUME QuietInv, FillChunk \/ FillOverflows
             PROVE  QuietInv'
  OBVIOUS
<1>1. UNCHANGED <<edit, seen, ui>> /\ spc = "fill"
  BY DEF FillChunk, FillOverflows, Filling, SchedElse
<1>. QED  BY <1>1 DEF QuietInv, Ids, Records, Requested, StandsStill, Ready

\* The callback takes events out of the queue and adds none.
LEMMA QuietAudio == QuietInv /\ Audio => QuietInv'
<1> SUFFICES ASSUME QuietInv, Audio
             PROVE  QuietInv'
  OBVIOUS
<1>1. UNCHANGED <<edit, seen, spc, ui>> /\ queue' \in {queue, << >>}
  BY DEF Audio, CallbackStart, LoadPlaying, CallbackTransport, LoadEpoch, RenderTurn,
         CallbackEnd, AudioElse, uiVars, schedVars
<1>. QED  BY <1>1 DEF QuietInv, Ids, Records, Requested, StandsStill, Ready

LEMMA QuietNext == QuietInv /\ [Next]_vars => QuietInv'
<1>1. QuietInv /\ UNCHANGED vars => QuietInv'
  BY DEF QuietInv, Ids, Records, Requested, StandsStill, Ready, vars, uiVars, schedVars
<1>. QED
  BY <1>1, QuietUI, QuietRead, QuietPlan, QuietFill, QuietAudio DEF Next, Sched

-----------------------------------------------------------------------------

\* What the scheduler has read of an edit, and the edit itself, always fit
\* together: once the UI may delete the track, no pass of the scheduler, however
\* long ago it read the snapshot, can add to the queue.
THEOREM QuietHolds == Spec => []QuietInv
  BY QuietInit, QuietNext, PTL DEF Spec

\* The tracks change only in DeleteTrack, and it waits for the acknowledgement.
LEMMA DeletesReady ==
  QuietInv /\ [Next]_vars => (tracks' # tracks => queue = << >>)
<1> SUFFICES ASSUME QuietInv, Next, tracks' # tracks
             PROVE  queue = << >>
  BY DEF vars, uiVars
<1>1. DeleteTrack
  BY DEF Next, UI, TogglePlay, SwitchPattern, Publish, LiveNote, RequestDelete,
         DeletionFails, ApplyEdit, UnmarkEdit, Sched, ReadSnapshot, LoadRendered, LoadKind,
         PlanStopped, PlanFrozen, PlanPlaying, FillChunk, FillOverflows, EndPass, SchedElse,
         Audio, CallbackStart, LoadPlaying, CallbackTransport, LoadEpoch, RenderTurn,
         CallbackEnd, AudioElse, uiVars
<1>. QED  BY <1>1 DEF QuietInv, StandsStill, Ready, DeleteTrack

\* A track is deleted while nothing that the scheduler made for the old tracks is
\* on its way to the callback (topology_edit_ready_id), whatever the threads have
\* read before the deletion was requested.
THEOREM DeletesInQuiet == Spec => DeletionIsQuiet
<1>1. QuietInv /\ [Next]_vars => [tracks' # tracks => queue = << >>]_vars
  BY DeletesReady
<1>. QED  BY <1>1, QuietHolds, PTL DEF Spec, DeletionIsQuiet
=============================================================================
