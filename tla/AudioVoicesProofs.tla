-------------------------- MODULE AudioVoicesProofs --------------------------
(***************************************************************************)
(* Proofs about AudioVoices, for any tracks, voices, notes and sounds.     *)
(*                                                                         *)
(* That a note of the engine ends takes more than counting gates: the      *)
(* messages of a key have to alternate and to end as the key is held, the  *)
(* record of a note has to meet its note-off before the next note-on,      *)
(* and of the countdowns on a voice one at most may be left, that of the   *)
(* step it plays (KeysInv, TableInv, OffsInv).  That voices are run, and   *)
(* stolen only in need, takes that every voice in use has an owner         *)
(* (PoolInv).                                                              *)
(***************************************************************************)
EXTENDS AudioVoices, DataLemmas, FiniteSetTheorems, SequenceTheorems, TLAPS

-----------------------------------------------------------------------------
(* Choosing a voice *)

\* A pool's order names each of its voices.
Covers(order) == \A v \in Voices : \E i \in DOMAIN order : order[i] = v

LEMMA OldestIsIn ==
  ASSUME NEW order \in Seq(Voices), Covers(order), NEW S \in SUBSET Voices, S # {}
  PROVE  Oldest(order, S) \in S
  <1> DEFINE T == {i \in 1..Len(order) : order[i] \in S}
             P(i) == order[i] \in S /\ \A j \in 1..i - 1 : order[j] \notin S
  <1>1. DOMAIN order = 1..Len(order) /\ Len(order) \in Nat
    BY LenProperties
  <1>2. T \in SUBSET Nat /\ T # {}
    BY <1>1 DEF Covers
  <1>3. PICK i \in T : \A y \in T : i <= y
    BY <1>2, LeastExists
  <1>4. \A j \in 1..i - 1 : j \in 1..Len(order) /\ ~ i <= j
    BY <1>1, <1>3
  <1>5. i \in DOMAIN order /\ P(i)
    BY <1>1, <1>3, <1>4
  <1>6. P(CHOOSE k \in DOMAIN order : P(k))
    BY <1>5
  <1> QED
    BY <1>6 DEF Oldest

LEMMA ByIndexCovers == ByIndex \in Seq(Voices) /\ Covers(ByIndex)
  <1>1. ByIndex \in [1..NumVoices -> Voices]
    BY DEF ByIndex, Voices
  <1>2. ByIndex \in Seq(Voices) /\ DOMAIN ByIndex = Voices
    BY <1>1, FunctionIsSeq, PoolAssumption DEF ByIndex, Voices
  <1> QED
    BY <1>2 DEF Covers, ByIndex

LEMMA LowestIsIn ==
  ASSUME NEW S \in SUBSET Voices, S # {}
  PROVE  Lowest(S) \in S
  BY ByIndexCovers, OldestIsIn DEF Lowest

LEMMA HighestIsIn ==
  ASSUME NEW S \in SUBSET Voices, S # {}
  PROVE  Highest(S) \in S /\ \A w \in S : w <= Highest(S)
  BY GreatestExists, PoolAssumption DEF Highest, Voices

\* Moving a voice to the end of the order loses none.
LEMMA YoungestCovers ==
  ASSUME NEW order \in Seq(Voices), Covers(order), NEW v \in Voices
  PROVE  MakeYoungest(order, v) \in Seq(Voices) /\ Covers(MakeYoungest(order, v))
  <1> DEFINE i == CHOOSE k \in DOMAIN order : order[k] = v
             rest == RemoveAt(order, i)
             new == Append(rest, v)
             n == Len(order) - 1
  <1>1. DOMAIN order = 1..Len(order) /\ Len(order) \in Nat
    BY LenProperties
  <1>2. i \in 1..Len(order) /\ order[i] = v
    BY <1>1 DEF Covers
  <1>4. MakeYoungest(order, v) = new
    BY DEF MakeYoungest
  <1> HIDE DEF i
  <1>3. /\ rest \in Seq(Voices) /\ Len(rest) = n /\ n \in Nat
        /\ \A k \in 1..n : rest[k] = IF k < i THEN order[k] ELSE order[k + 1]
    <2>1. n \in Nat
      BY <1>1, <1>2
    <2> QED
      BY <1>2, <2>1, RemoveAtProperties
  <1> HIDE DEF rest
  <1>5. /\ new \in Seq(Voices)
        /\ Len(new) = n + 1
        /\ \A k \in 1..n : new[k] = rest[k]
        /\ new[n + 1] = v
    BY <1>3, AppendProperties
  <1> HIDE DEF new
  <1>6. DOMAIN new = 1..n + 1
    BY <1>5, LenProperties
  <1>7. ASSUME NEW w \in Voices
        PROVE  \E k \in 1..n + 1 : new[k] = w
    <2>1. CASE w = v
      BY <1>3, <1>5, <2>1
    <2>2. CASE w # v
      <3>1. PICK k \in 1..Len(order) : order[k] = w
        BY <1>1 DEF Covers
      <3>2. k # i
        BY <1>2, <2>2, <3>1
      <3>3. CASE k < i
        <4>1. k \in 1..n
          BY <1>2, <3>3
        <4> QED
          BY <1>3, <1>5, <3>1, <3>3, <4>1
      <3>4. CASE i < k
        <4>1. k - 1 \in 1..n /\ ~ k - 1 < i /\ (k - 1) + 1 = k
          BY <1>2, <3>4
        <4>2. new[k - 1] = w
          BY <1>3, <1>5, <3>1, <4>1
        <4> QED
          BY <1>3, <4>1, <4>2
      <3>5. k < i \/ i < k
        BY <1>1, <1>2, <3>2
      <3> QED
        BY <3>3, <3>4, <3>5
    <2> QED
      BY <2>1, <2>2
  <1> QED
    BY <1>4, <1>5, <1>6, <1>7 DEF Covers

LEMMA FirstIsNonempty ==
  ASSUME NEW groups, NEW n \in Nat, DOMAIN groups = 1..n,
         \E i \in 1..n : groups[i] # {}
  PROVE  \E i \in 1..n : /\ FirstNonempty(groups) = groups[i]
                         /\ groups[i] # {} /\ \A j \in 1..i - 1 : groups[j] = {}
  <1> DEFINE T == {i \in 1..n : groups[i] # {}}
             P(i) == groups[i] # {} /\ \A j \in 1..i - 1 : groups[j] = {}
  <1>1. T \in SUBSET Nat /\ T # {}
    OBVIOUS
  <1>2. PICK i \in T : \A y \in T : i <= y
    BY <1>1, LeastExists
  <1>3. \A j \in 1..i - 1 : j \in 1..n /\ ~ i <= j
    BY <1>2
  <1>4. i \in DOMAIN groups /\ P(i)
    BY <1>2, <1>3
  <1>5. /\ P(CHOOSE k \in DOMAIN groups : P(k))
        /\ (CHOOSE k \in DOMAIN groups : P(k)) \in 1..n
    BY <1>4
  <1> QED
    BY <1>5 DEF FirstNonempty

\* What is true of the voice that a note of track t gets: it is one of the pool; if
\* the track owns as many as it may, it is one of these; and it is one that sounds
\* for another track only if the track owns none and all sound or are free and
\* releasing.
LEMMA PickFacts ==
  ASSUME NEW p \in CustomPool, Covers(p.order), NEW t \in Tracks, NEW n \in Notes,
         NEW poly \in BOOLEAN, NEW cap \in Voices
  PROVE  LET v == Pick(p, t, n, poly, cap) IN
         /\ v \in Voices
         /\ Cardinality(Owned(p, t)) >= cap => p.owner[v] = t
         /\ v \in p.active /\ p.owner[v] # t =>
              /\ Owned(p, t) = {} /\ Idle(p) = {}
              /\ Releasing(p) \subseteq Owned(p, NoOne)
  <1> DEFINE mine == Owned(p, t)
             free == Owned(p, NoOne)
             others == Voices \ (mine \cup free)
             v == Pick(p, t, n, poly, cap)
  <1>1. /\ mine \in SUBSET Voices /\ free \in SUBSET Voices /\ Voices # {}
        /\ \A w \in mine : w \in Voices /\ p.owner[w] = t
        /\ Idle(p) \in SUBSET Voices /\ Releasing(p) \in SUBSET Voices
        /\ Idle(p) \cap p.active = {} /\ Releasing(p) \cap p.active = {}
    BY PoolAssumption DEF Owned, Idle, Releasing, Voices
  <1>2. Cardinality(mine) >= cap => mine # {}
    <2>1. Cardinality({}) = 0
      BY FS_EmptySet
    <2>2. cap >= 1 /\ cap \in Int
      BY DEF Voices
    <2> QED
      BY <2>1, <2>2
  <1>3. CASE ~ poly /\ mine # {}
    <2>1. v = Lowest(mine)
      BY <1>3 DEF Pick
    <2> QED
      BY <1>1, <1>3, <2>1, LowestIsIn
  <1>4. CASE poly /\ SameNote(p, t, n) # {}
    <2>1. v = Highest(SameNote(p, t, n))
      BY <1>4 DEF Pick
    <2>2. SameNote(p, t, n) \in SUBSET mine
      BY DEF SameNote
    <2> QED
      BY <1>1, <1>4, <2>1, <2>2, HighestIsIn
  <1>5. CASE ~ (~ poly /\ mine # {}) /\ ~ (poly /\ SameNote(p, t, n) # {})
    <2> DEFINE groups == Preferred(p, t, cap)
    <2>1. v = Oldest(p.order, FirstNonempty(groups))
      BY <1>5 DEF Pick
    <2>2. p.order \in Seq(Voices)
      BY DEF CustomPool
    <2>3. CASE Cardinality(mine) >= cap
      <3>1. groups = <<mine \cap Idle(p), mine \cap Releasing(p), mine, Voices>>
        BY <2>3 DEF Preferred, PreferredAtCap
      <3>2. DOMAIN groups = 1..4 /\ groups[3] = mine
        BY <3>1
      <3>3. PICK i \in 1..4 : /\ FirstNonempty(groups) = groups[i] /\ groups[i] # {}
                              /\ \A j \in 1..i - 1 : groups[j] = {}
        <4>1. 4 \in Nat /\ \E i \in 1..4 : groups[i] # {}
          BY <1>2, <2>3, <3>2
        <4> HIDE DEF groups
        <4> QED
          BY <3>2, <4>1, FirstIsNonempty
      <3>4. i # 4
        BY <1>2, <2>3, <3>2, <3>3
      <3>5. groups[i] \in SUBSET mine
        BY <3>1, <3>4
      <3>6. v \in mine
        BY <1>1, <2>1, <2>2, <3>3, <3>5, OldestIsIn
      <3> QED
        BY <1>1, <3>6
    <2>4. CASE ~ Cardinality(mine) >= cap
      <3>1. groups = <<mine \cap Idle(p), free \cap Idle(p), others \cap Idle(p),
                       mine \cap Releasing(p), mine, others \cap Releasing(p), Voices>>
        BY <2>4 DEF Preferred, PreferredBelowCap
      <3>2. /\ DOMAIN groups = 1..7
            /\ groups[1] = mine \cap Idle(p) /\ groups[2] = free \cap Idle(p)
            /\ groups[3] = others \cap Idle(p) /\ groups[4] = mine \cap Releasing(p)
            /\ groups[5] = mine /\ groups[6] = others \cap Releasing(p)
            /\ groups[7] = Voices
        BY <3>1
      <3> HIDE DEF groups
      <3>3. PICK i \in 1..7 : /\ FirstNonempty(groups) = groups[i] /\ groups[i] # {}
                              /\ \A j \in 1..i - 1 : groups[j] = {}
        <4>1. 7 \in Nat /\ \E i \in 1..7 : groups[i] # {}
          BY <1>1, <3>2
        <4> QED
          BY <3>2, <4>1, FirstIsNonempty
      <3>4. groups[i] \in SUBSET Voices
        <4>1. others \in SUBSET Voices
          OBVIOUS
        <4> QED
          BY <1>1, <3>2, <4>1
      <3>5. v \in groups[i] /\ v \in Voices
        BY <2>1, <2>2, <3>3, <3>4, OldestIsIn
      <3>6. ASSUME v \in p.active, p.owner[v] # t
            PROVE  /\ mine = {} /\ Idle(p) = {} /\ Releasing(p) \subseteq free
        <4>1. v \notin mine /\ v \notin Idle(p) /\ v \notin Releasing(p)
          BY <1>1, <3>6
        <4>2. i = 7
          BY <3>2, <3>5, <4>1
        <4>3. \A j \in 1..6 : groups[j] = {}
          BY <3>3, <4>2
        <4>4. /\ mine \cap Idle(p) = {} /\ free \cap Idle(p) = {} /\ others \cap Idle(p) = {}
              /\ mine = {} /\ others \cap Releasing(p) = {}
          BY <3>2, <4>3
        <4> QED
          BY <1>1, <4>4
      <3> QED
        BY <2>4, <3>5, <3>6
    <2> QED
      BY <2>3, <2>4
  <1> QED
    BY <1>3, <1>4, <1>5

-----------------------------------------------------------------------------
(* What the operations do to a pool *)

LEMMA NewFacts ==
  /\ NewCustomPool \in CustomPool /\ Covers(NewCustomPool.order)
  /\ NewCustomPool.active = {} /\ NewCustomPool.enabled = 1
  /\ \A v \in Voices : NewCustomPool.tail[v] = 0 /\ NewCustomPool.owner[v] = NoOne
  /\ NewSamplerPool \in SamplerPool /\ Covers(NewSamplerPool.order)
  <1>1. 1 \in Voices /\ 0 \in 0..ReleaseLen + 1 /\ 0 \in Notes
    BY PoolAssumption DEF Voices
  <1> QED
    BY <1>1, ByIndexCovers DEF NewCustomPool, CustomPool, NewSamplerPool, SamplerPool

LEMMA AllocatedFacts ==
  ASSUME NEW p \in CustomPool, Covers(p.order), NEW v \in Voices, NEW t \in Tracks,
         NEW n \in Notes, NEW s \in Prints
  PROVE  LET q == Allocated(p, v, t, n, s) IN
         /\ q \in CustomPool /\ Covers(q.order)
         /\ q.active = p.active \cup {v}
         /\ \A w \in Voices : /\ q.tail[w] = IF w = v THEN 0 ELSE p.tail[w]
                              /\ q.owner[w] = IF w = v THEN t ELSE p.owner[w]
         /\ v <= q.enabled /\ p.enabled <= q.enabled
  <1> DEFINE q == Allocated(p, v, t, n, s)
  <1>1. /\ p.order \in Seq(Voices) /\ p.active \in SUBSET Voices
        /\ p.tail \in [Voices -> 0..ReleaseLen + 1] /\ p.note \in [Voices -> Notes]
        /\ p.owner \in [Voices -> Tracks \cup {NoOne}]
        /\ p.print \in [Voices -> Prints \cup {NoPrint}] /\ p.enabled \in Voices
    BY DEF CustomPool
  <1>2. q = [order |-> MakeYoungest(p.order, v), active |-> p.active \cup {v},
             tail |-> [p.tail EXCEPT ![v] = 0], note |-> [p.note EXCEPT ![v] = n],
             owner |-> [p.owner EXCEPT ![v] = t], print |-> [p.print EXCEPT ![v] = s],
             enabled |-> IF v > p.enabled THEN v ELSE p.enabled]
    <2> DEFINE order == MakeYoungest(p.order, v)
               enabled == IF v > p.enabled THEN v ELSE p.enabled
    <2>1. q = [p EXCEPT !.order = order, !.active = @ \cup {v}, !.tail[v] = 0,
                        !.note[v] = n, !.owner[v] = t, !.print[v] = s, !.enabled = enabled]
      BY DEF Allocated
    <2> HIDE DEF order, enabled
    <2>2. q = [order |-> order, active |-> p.active \cup {v},
               tail |-> [p.tail EXCEPT ![v] = 0], note |-> [p.note EXCEPT ![v] = n],
               owner |-> [p.owner EXCEPT ![v] = t], print |-> [p.print EXCEPT ![v] = s],
               enabled |-> enabled]
      BY <2>1 DEF CustomPool
    <2> QED
      BY <2>2 DEF order, enabled
  <1>3. MakeYoungest(p.order, v) \in Seq(Voices) /\ Covers(MakeYoungest(p.order, v))
    BY <1>1, YoungestCovers
  <1>4. 0 \in 0..ReleaseLen + 1 /\ v \in Int /\ p.enabled \in Int
    BY <1>1, PoolAssumption DEF Voices
  <1> HIDE DEF q
  <1>5. q \in CustomPool
    BY <1>1, <1>2, <1>3, <1>4 DEF CustomPool
  <1>6. /\ q.active = p.active \cup {v}
        /\ \A w \in Voices : /\ q.tail[w] = IF w = v THEN 0 ELSE p.tail[w]
                             /\ q.owner[w] = IF w = v THEN t ELSE p.owner[w]
        /\ v <= q.enabled /\ p.enabled <= q.enabled
    BY <1>1, <1>2, <1>4
  <1>7. Covers(q.order)
    BY <1>2, <1>3
  <1> QED
    BY <1>5, <1>6, <1>7 DEF q

LEMMA ReleasedFacts ==
  ASSUME NEW p \in CustomPool, NEW S \in SUBSET Voices
  PROVE  LET q == Released(p, S) IN
         /\ q \in CustomPool /\ q.order = p.order /\ q.active = p.active \ S
         /\ \A w \in Voices : q.tail[w] = IF w \in S THEN ReleaseLen + 1 ELSE p.tail[w]
         /\ q.owner = p.owner /\ q.enabled = p.enabled
  <1>1. ReleaseLen + 1 \in 0..ReleaseLen + 1
    BY PoolAssumption
  <1> QED
    BY <1>1 DEF Released, CustomPool

LEMMA ForgottenFacts ==
  ASSUME NEW p \in CustomPool
  PROVE  LET q == Forgotten(p) IN
         /\ q \in CustomPool /\ q.order = p.order /\ q.active = p.active
         /\ q.tail = p.tail /\ q.owner = p.owner /\ q.enabled = p.enabled
  BY DEF Forgotten, CustomPool

\* Shrinking disables no voice that sounds or is still releasing.
LEMMA ShrunkFacts ==
  ASSUME NEW p \in CustomPool
  PROVE  LET q == Shrunk(p) IN
         /\ q \in CustomPool /\ q.order = p.order /\ q.active = p.active
         /\ \A w \in Voices : q.tail[w] = IF p.tail[w] > 0 THEN p.tail[w] - 1 ELSE 0
         /\ q.owner = p.owner
         /\ \A w \in Voices : w \in q.active \/ q.tail[w] > 0 =>
              (w <= p.enabled => w <= q.enabled)
  <1> DEFINE tail == [v \in Voices |-> IF p.tail[v] > 0 THEN p.tail[v] - 1 ELSE 0]
             retained == {1} \cup p.active \cup {v \in Voices : tail[v] > 0}
             needed == Highest(retained)
             q == Shrunk(p)
  <1>1. /\ p.active \in SUBSET Voices /\ p.tail \in [Voices -> 0..ReleaseLen + 1]
        /\ p.enabled \in Voices
    BY DEF CustomPool
  <1>2. tail \in [Voices -> 0..ReleaseLen + 1]
    <2>1. ASSUME NEW v \in Voices
          PROVE  (IF p.tail[v] > 0 THEN p.tail[v] - 1 ELSE 0) \in 0..ReleaseLen + 1
      <3>1. p.tail[v] \in 0..ReleaseLen + 1 /\ ReleaseLen \in Nat
        BY <1>1, PoolAssumption
      <3> QED
        BY <3>1
    <2> QED
      BY <2>1
  <1>3. retained \in SUBSET Voices /\ retained # {}
    BY <1>1, PoolAssumption DEF Voices
  <1>4. needed \in retained /\ \A w \in retained : w <= needed
    BY <1>3, HighestIsIn
  <1>5. q = [p EXCEPT !.tail = tail, !.enabled = IF needed < p.enabled THEN needed ELSE p.enabled]
    BY DEF Shrunk
  <1>6. /\ q.order = p.order /\ q.active = p.active /\ q.tail = tail /\ q.owner = p.owner
        /\ q.enabled = IF needed < p.enabled THEN needed ELSE p.enabled
        /\ q.note = p.note /\ q.print = p.print
    BY <1>5 DEF CustomPool
  <1>7. q \in CustomPool
    <2>1. q.enabled \in Voices
      BY <1>1, <1>3, <1>4, <1>6
    <2> HIDE DEF tail, needed
    <2> QED
      BY <1>2, <1>5, <1>6, <2>1 DEF CustomPool
  <1>8. ASSUME NEW w \in Voices, w \in q.active \/ q.tail[w] > 0, w <= p.enabled
        PROVE  w <= q.enabled
    <2>1. w \in retained
      BY <1>6, <1>8
    <2> HIDE DEF retained, needed
    <2> QED
      BY <1>4, <1>6, <1>8, <2>1
  <1>9. \A w \in Voices : q.tail[w] = IF p.tail[w] > 0 THEN p.tail[w] - 1 ELSE 0
    BY <1>6
  <1> HIDE DEF q
  <1> QED
    BY <1>6, <1>7, <1>8, <1>9 DEF q

LEMMA StruckFacts ==
  ASSUME NEW p \in SamplerPool, Covers(p.order), NEW n \in Notes, NEW poly \in BOOLEAN
  PROVE  /\ PickSampler(p, n, poly) \in Voices
         /\ Struck(p, n, poly) \in SamplerPool /\ Covers(Struck(p, n, poly).order)
  <1> DEFINE v == PickSampler(p, n, poly)
             same == {w \in p.active : p.note[w] = n}
             inactive == Voices \ p.active
  <1>1. /\ p.order \in Seq(Voices) /\ p.active \in SUBSET Voices
        /\ p.note \in [Voices -> Notes] /\ 1 \in Voices
    BY PoolAssumption DEF SamplerPool, Voices
  <1>2. v \in Voices
    <2>1. CASE ~ poly \/ NumVoices = 1
      BY <1>1, <2>1 DEF PickSampler
    <2>2. CASE poly /\ NumVoices > 1 /\ same # {}
      <3>1. v = Lowest(same)
        BY <2>2 DEF PickSampler
      <3>2. same \in SUBSET Voices
        BY <1>1
      <3> QED
        BY <2>2, <3>1, <3>2, LowestIsIn
    <2>3. CASE ~ (~ poly \/ NumVoices = 1) /\ ~ (poly /\ NumVoices > 1 /\ same # {})
      <3>1. v = Oldest(p.order, IF inactive # {} THEN inactive ELSE Voices)
        BY <2>3 DEF PickSampler
      <3>2. /\ (IF inactive # {} THEN inactive ELSE Voices) \in SUBSET Voices
            /\ (IF inactive # {} THEN inactive ELSE Voices) # {}
        BY <1>1
      <3> QED
        BY <1>1, <3>1, <3>2, OldestIsIn
    <2> QED
      BY <2>1, <2>2, <2>3
  <1>3. Struck(p, n, poly) = [order |-> MakeYoungest(p.order, v), active |-> p.active \cup {v},
                              note |-> [p.note EXCEPT ![v] = n]]
    <2> DEFINE order == MakeYoungest(p.order, v)
    <2>1. Struck(p, n, poly) = [p EXCEPT !.order = order, !.active = @ \cup {v}, !.note[v] = n]
      BY DEF Struck
    <2> HIDE DEF order, v
    <2>2. Struck(p, n, poly) = [order |-> order, active |-> p.active \cup {v},
                                note |-> [p.note EXCEPT ![v] = n]]
      BY <2>1 DEF SamplerPool
    <2> QED
      BY <2>2 DEF order
  <1> HIDE DEF v
  <1>4. MakeYoungest(p.order, v) \in Seq(Voices) /\ Covers(MakeYoungest(p.order, v))
    BY <1>1, <1>2, YoungestCovers
  <1>5. Struck(p, n, poly) \in SamplerPool
    BY <1>1, <1>2, <1>3, <1>4 DEF SamplerPool
  <1> QED
    BY <1>2, <1>3, <1>4, <1>5 DEF v

-----------------------------------------------------------------------------
(* The inductive invariant *)

On(t, n) == [track |-> t, note |-> n, on |-> TRUE]
Off(t, n) == [track |-> t, note |-> n, on |-> FALSE]
Pressed(t, n) == [track |-> t, note |-> n] \in held

OrdersCover == Covers(pool.order) /\ \A t \in Tracks : Covers(spools[t].pool.order)

\* The messages of a key alternate, and the last says what the key is.
OnsAreHeld ==
  \A t \in Tracks, n \in Notes : \A i \in 1..Len(inbox) :
    inbox[i] = On(t, n) =>
      Pressed(t, n) \/ \E j \in i + 1..Len(inbox) : inbox[j] = Off(t, n)
OnsAlternate ==
  \A t \in Tracks, n \in Notes : \A i, j \in 1..Len(inbox) :
    i < j /\ inbox[i] = On(t, n) /\ inbox[j] = On(t, n) =>
      \E m \in i + 1..j - 1 : inbox[m] = Off(t, n)

\* A keyboard note in the table is that of a key which is down or whose note-off
\* is on its way, before any other note-on of the key.
RecordsLive ==
  \A t \in Tracks : \A r \in table[t] :
    Pressed(t, r.note) \/ \E j \in 1..Len(inbox) : inbox[j] = Off(t, r.note)
RecordsBeforeOns ==
  \A t \in Tracks : \A r \in table[t] : \A i \in 1..Len(inbox) :
    inbox[i] = On(t, r.note) => \E m \in 1..i - 1 : inbox[m] = Off(t, r.note)
RecordsUnique == \A t \in Tracks : \A r, s \in table[t] : r.note = s.note => r = s
RecordsCounted == \A t \in Tracks : t > seen.count => table[t] = {}

\* Until a topology change, the notes on the engine are those of its tracks.
RecordsOfEngine ==
  ResetDue \/ \A t \in Tracks : \A r \in table[t] : r.lid[1] = 0 => Kind(t) = "engine"

\* What a voice counts down belongs to one track, and ends its step.
OneOff == \A v \in Voices, t, u \in Tracks : pending[t][v] > 0 /\ pending[u][v] > 0 => t = u
OffsOfSteps ==
  \A v \in Voices, t \in Tracks : pending[t][v] > 0 => by[v] = "step" \/ <<0, v>> \notin gate

\* Whoever may close a gate.
Closes(v) == \/ \E t \in DOMAIN tracks : pending[t][v] > 0
             \/ \E t \in DOMAIN tracks : \E r \in table[t] : r.lid = <<0, v>>
GatesClose ==
  ResetDue \/ \A v \in Voices : <<0, v>> \in gate => by[v] = "endless step" \/ Closes(v)

\* A voice that is used has an owner and is run.
GatesActive == \A v \in Voices : <<0, v>> \in gate => v \in pool.active
ActiveEnabled == \A v \in pool.active : v <= pool.enabled
UsedAreOwned ==
  \A v \in Voices :
    \/ v \in pool.active \/ pool.tail[v] > 0
    \/ \E t \in Tracks : pending[t][v] > 0 \/ \E r \in table[t] : r.lid = <<0, v>>
    => pool.owner[v] # NoOne

SeenIsPast == seen.topology <= topology

KeysInv == OnsAreHeld /\ OnsAlternate
TableInv == RecordsLive /\ RecordsBeforeOns /\ RecordsUnique /\ RecordsCounted /\ RecordsOfEngine
OffsInv == OneOff /\ OffsOfSteps /\ GatesClose
PoolInv == OrdersCover /\ GatesActive /\ ActiveEnabled /\ UsedAreOwned
IInv == TypeOK /\ SeenIsPast /\ KeysInv /\ TableInv /\ OffsInv /\ PoolInv

-----------------------------------------------------------------------------
(* Facts that the steps share *)

LEMMA TrackFacts ==
  ASSUME TypeOK
  PROVE  /\ DOMAIN tracks = 1..Len(tracks) /\ DOMAIN tracks \subseteq Tracks
         /\ Len(tracks) \in Nat /\ Cardinality(Tracks) \in Nat
         /\ \A t \in DOMAIN tracks :
              /\ tracks[t].kind \in {"engine", "sampler"} /\ tracks[t].id \in Nat
              /\ tracks[t].poly \in BOOLEAN /\ tracks[t].cap \in Voices
              /\ tracks[t].sound \in Prints
         /\ \A t \in Tracks : Kind(t) = "engine" => t \in DOMAIN tracks
         /\ Tracks \subseteq Nat \ {0}
  <1>1. Cardinality(Tracks) \in Nat
    BY VoicesAssumption, FS_CardinalityType
  <1>2. /\ DOMAIN tracks = 1..Len(tracks) /\ Len(tracks) \in Nat
        /\ Len(tracks) <= Cardinality(Tracks)
    <2>1. tracks \in Seq(Track) /\ Len(tracks) \in Tracks
      BY DEF TypeOK, UiType
    <2>2. Len(tracks) \in 1..Cardinality(Tracks)
      BY <2>1, VoicesAssumption
    <2> QED
      BY <1>1, <2>1, <2>2, LenProperties
  <1>3. 1..MaxPoly \subseteq Voices
    BY VoicesAssumption, PoolAssumption DEF Voices
  <1>4. \A t \in DOMAIN tracks : tracks[t] \in Track
    <2>1. tracks \in Seq(Track)
      BY DEF TypeOK, UiType
    <2> QED
      BY <1>2, <2>1
  <1>5. \A t \in 1..Len(tracks) : t \in Tracks
    BY <1>1, <1>2, VoicesAssumption
  <1>6. \A t \in Tracks : Kind(t) = "engine" => t \in DOMAIN tracks
    BY DEF Kind
  <1>7. Tracks \subseteq Nat \ {0}
    BY PoolAssumption
  <1> QED
    BY <1>1, <1>2, <1>3, <1>4, <1>5, <1>6, <1>7 DEF Track

LEMMA RecordFacts ==
  ASSUME TypeOK, NEW t \in Tracks, NEW r \in table[t]
  PROVE  r \in Record /\ r.note \in Notes /\ r.lid \in Nat \X Voices
  <1>1. table[t] \in SUBSET Record
    BY DEF TypeOK, CallbackType
  <1>2. r \in Record
    BY <1>1
  <1> QED
    BY <1>2 DEF Record

LEMMA FollowedTyped ==
  ASSUME NEW ts \in Seq(Track), loaded \in [Voices -> Prints], told \in Prints
  PROVE  FollowedBy(ts) \in [Voices -> Prints] /\ ToldBy(ts) \in Prints
  <1>1. CASE Cardinality(Users(ts)) = 1
    <2>1. Users(ts) # {}
      <3>1. Cardinality({}) = 0
        BY FS_EmptySet
      <3>2. ASSUME Users(ts) = {} PROVE Cardinality(Users(ts)) = 0
        BY <3>1, <3>2, Zenon
      <3> QED
        BY <1>1, <3>2
    <2>2. (CHOOSE t \in Users(ts) : TRUE) \in Users(ts)
      BY <2>1
    <2>3. \A t \in Users(ts) : t \in 1..Len(ts)
      BY LenProperties DEF Users
    <2>4. \A t \in 1..Len(ts) : ts[t] \in Track
      BY LenProperties
    <2>5. ts[CHOOSE t \in Users(ts) : TRUE].sound \in Prints
      BY <2>2, <2>3, <2>4 DEF Track
    <2> QED
      BY <1>1, <2>5 DEF FollowedBy, ToldBy, Follows
  <1>2. CASE Cardinality(Users(ts)) # 1
    BY <1>2 DEF FollowedBy, ToldBy, Follows
  <1> QED
    BY <1>1, <1>2

\* The head of the keyboard's messages is taken.
LEMMA TakenFacts ==
  ASSUME IInv, TakeKey
  PROVE  /\ Head(inbox) \in Message
         /\ Head(inbox) = inbox[1] /\ 1 \in 1..Len(inbox)
         /\ inbox' \in Seq(Message)
         /\ Len(inbox) \in Nat /\ Len(inbox') = Len(inbox) - 1
         /\ \A i \in 1..Len(inbox') : i + 1 \in 1..Len(inbox) /\ inbox'[i] = inbox[i + 1]
         /\ Head(inbox).on => Head(inbox) = On(Head(inbox).track, Head(inbox).note)
         /\ ~ Head(inbox).on => Head(inbox) = Off(Head(inbox).track, Head(inbox).note)
  <1>1. inbox \in Seq(Message) /\ inbox # << >> /\ inbox' = Tail(inbox)
    BY DEF IInv, TypeOK, UiType, TakeKey
  <1>2. /\ Len(inbox) \in Nat /\ Len(inbox) >= 1 /\ Head(inbox) = inbox[1]
        /\ inbox' \in Seq(Message) /\ Len(inbox') = Len(inbox) - 1
        /\ \A i \in 1..Len(inbox) : inbox[i] \in Message
        /\ \A i \in 1..Len(inbox') : inbox'[i] = inbox[i + 1]
    BY <1>1
  <1>3. Head(inbox) \in Message
    BY <1>2
  <1> QED
    BY <1>2, <1>3 DEF On, Off, Message

LEMMA KeysAfterTake ==
  ASSUME IInv, TakeKey
  PROVE  KeysInv'
  <1>1. held' = held
    BY DEF TakeKey, CallbackElse, uiVars
  <1>2. /\ Len(inbox) \in Nat /\ Len(inbox') = Len(inbox) - 1
        /\ \A i \in 1..Len(inbox') : i + 1 \in 1..Len(inbox) /\ inbox'[i] = inbox[i + 1]
    BY TakenFacts
  <1>3. ASSUME NEW t \in Tracks, NEW n \in Notes, NEW i \in 1..Len(inbox'), inbox'[i] = On(t, n)
        PROVE  Pressed(t, n)' \/ \E j \in i + 1..Len(inbox') : inbox'[j] = Off(t, n)
    <2>1. Pressed(t, n) \/ \E j \in (i + 1) + 1..Len(inbox) : inbox[j] = Off(t, n)
      BY <1>2, <1>3 DEF IInv, KeysInv, OnsAreHeld
    <2>2. ASSUME NEW j \in (i + 1) + 1..Len(inbox), inbox[j] = Off(t, n)
          PROVE  \E m \in i + 1..Len(inbox') : inbox'[m] = Off(t, n)
      <3>1. j - 1 \in i + 1..Len(inbox') /\ j - 1 \in 1..Len(inbox') /\ (j - 1) + 1 = j
        BY <1>2
      <3> QED
        BY <1>2, <2>2, <3>1
    <2> QED
      BY <1>1, <2>1, <2>2 DEF Pressed
  <1>4. ASSUME NEW t \in Tracks, NEW n \in Notes, NEW i \in 1..Len(inbox'), NEW j \in 1..Len(inbox'),
               i < j, inbox'[i] = On(t, n), inbox'[j] = On(t, n)
        PROVE  \E m \in i + 1..j - 1 : inbox'[m] = Off(t, n)
    <2>1. i + 1 < j + 1 /\ inbox[i + 1] = On(t, n) /\ inbox[j + 1] = On(t, n)
      BY <1>2, <1>4
    <2>2. PICK m \in (i + 1) + 1..(j + 1) - 1 : inbox[m] = Off(t, n)
      BY <1>2, <2>1 DEF IInv, KeysInv, OnsAlternate
    <2>3. m - 1 \in i + 1..j - 1 /\ m - 1 \in 1..Len(inbox') /\ (m - 1) + 1 = m
      BY <1>2
    <2> QED
      BY <1>2, <2>2, <2>3
  <1>5. OnsAreHeld'
    BY <1>3 DEF OnsAreHeld, On, Off
  <1>6. OnsAlternate'
    BY <1>4 DEF OnsAlternate, On, Off
  <1> QED
    BY <1>5, <1>6 DEF KeysInv

\* What RecordsLive and RecordsBeforeOns ask of the record of a note.
Justified(t, n) ==
  /\ Pressed(t, n) \/ \E j \in 1..Len(inbox) : inbox[j] = Off(t, n)
  /\ \A i \in 1..Len(inbox) : inbox[i] = On(t, n) => \E m \in 1..i - 1 : inbox[m] = Off(t, n)

LEMMA OldRecordsJustified ==
  ASSUME IInv, TakeKey, NEW t \in Tracks, NEW r \in table[t], Head(inbox) # Off(t, r.note)
  PROVE  Justified(t, r.note)'
  <1> DEFINE n == r.note
  <1>1. held' = held
    BY DEF TakeKey, CallbackElse, uiVars
  <1>2. /\ Len(inbox) \in Nat /\ Len(inbox') = Len(inbox) - 1 /\ Head(inbox) = inbox[1]
        /\ \A i \in 1..Len(inbox') : i + 1 \in 1..Len(inbox) /\ inbox'[i] = inbox[i + 1]
    BY TakenFacts
  <1>3. /\ Pressed(t, n) \/ \E j \in 1..Len(inbox) : inbox[j] = Off(t, n)
        /\ \A i \in 1..Len(inbox) :
             inbox[i] = On(t, n) => \E m \in 1..i - 1 : inbox[m] = Off(t, n)
    BY DEF IInv, TableInv, RecordsLive, RecordsBeforeOns
  <1> HIDE DEF n
  <1>4. ASSUME NEW j \in 1..Len(inbox), inbox[j] = Off(t, n)
        PROVE  \E m \in 1..Len(inbox') : inbox'[m] = Off(t, n)
    <2>1. j # 1
      BY <1>2, <1>4 DEF n
    <2>2. j - 1 \in 1..Len(inbox') /\ (j - 1) + 1 = j
      BY <1>2, <2>1
    <2> QED
      BY <1>2, <1>4, <2>2
  <1>5. ASSUME NEW i \in 1..Len(inbox'), inbox'[i] = On(t, n)
        PROVE  \E m \in 1..i - 1 : inbox'[m] = Off(t, n)
    <2>1. PICK m \in 1..(i + 1) - 1 : inbox[m] = Off(t, n)
      BY <1>2, <1>3, <1>5
    <2>2. m # 1
      BY <1>2, <2>1 DEF n
    <2>3. m - 1 \in 1..i - 1 /\ m - 1 \in 1..Len(inbox') /\ (m - 1) + 1 = m
      BY <1>2, <2>2
    <2> QED
      BY <1>2, <2>1, <2>3
  <1> QED
    BY <1>1, <1>3, <1>4, <1>5 DEF Justified, Pressed, On, Off, n

LEMMA NewRecordJustified ==
  ASSUME IInv, TakeKey, NEW t \in Tracks, NEW n \in Notes, Head(inbox) = On(t, n)
  PROVE  Justified(t, n)'
  <1>1. held' = held
    BY DEF TakeKey, CallbackElse, uiVars
  <1>2. /\ Len(inbox) \in Nat /\ Len(inbox') = Len(inbox) - 1 /\ inbox[1] = On(t, n)
        /\ \A i \in 1..Len(inbox') : i + 1 \in 1..Len(inbox) /\ inbox'[i] = inbox[i + 1]
        /\ 1 \in 1..Len(inbox)
    BY TakenFacts
  <1>3. Pressed(t, n) \/ \E j \in 1 + 1..Len(inbox) : inbox[j] = Off(t, n)
    BY <1>2 DEF IInv, KeysInv, OnsAreHeld
  <1>4. ASSUME NEW j \in 1 + 1..Len(inbox), inbox[j] = Off(t, n)
        PROVE  \E m \in 1..Len(inbox') : inbox'[m] = Off(t, n)
    <2>1. j - 1 \in 1..Len(inbox') /\ (j - 1) + 1 = j
      BY <1>2
    <2> QED
      BY <1>2, <1>4, <2>1
  <1>5. ASSUME NEW i \in 1..Len(inbox'), inbox'[i] = On(t, n)
        PROVE  \E m \in 1..i - 1 : inbox'[m] = Off(t, n)
    <2>1. 1 < i + 1 /\ inbox[i + 1] = On(t, n) /\ i + 1 \in 1..Len(inbox)
      BY <1>2, <1>5
    <2>2. PICK m \in 1 + 1..(i + 1) - 1 : inbox[m] = Off(t, n)
      BY <1>2, <2>1 DEF IInv, KeysInv, OnsAlternate
    <2>3. m - 1 \in 1..i - 1 /\ m - 1 \in 1..Len(inbox') /\ (m - 1) + 1 = m
      BY <1>2
    <2> QED
      BY <1>2, <2>2, <2>3
  <1> QED
    BY <1>1, <1>3, <1>4, <1>5 DEF Justified, Pressed, On, Off

LEMMA StoredFacts ==
  ASSUME TypeOK, NEW t \in Tracks, NEW n \in Notes, NEW lid \in Nat \X Voices
  PROVE  LET new == [note |-> n, lid |-> lid]
             after == Stored(t, n, lid)
         IN /\ after \in [Tracks -> SUBSET Record]
            /\ new \in after[t]
            /\ \A u \in Tracks : \A r \in after[u] : r \in table[u] \/ (u = t /\ r = new)
            /\ \A r \in after[t] : r.note = n => r = new
            /\ \A u \in Tracks : \A r \in table[u] :
                 r \in after[u] \/ r.lid = lid \/ (u = t /\ r.note = n)
  <1> DEFINE new == [note |-> n, lid |-> lid]
             others == [u \in Tracks |-> {r \in table[u] : r.lid # lid}]
             after == Stored(t, n, lid)
  <1>1. table \in [Tracks -> SUBSET Record] /\ new \in Record
    BY DEF TypeOK, CallbackType, Record
  <1>2. after = [others EXCEPT ![t] = {r \in @ : r.note # n} \cup {new}]
    BY DEF Stored
  <1>3. after = [u \in Tracks |-> IF u = t THEN {r \in others[t] : r.note # n} \cup {new}
                                           ELSE others[u]]
    BY <1>2
  <1>4. /\ after[t] = {r \in table[t] : r.lid # lid /\ r.note # n} \cup {new}
        /\ \A u \in Tracks : u # t => after[u] = {r \in table[u] : r.lid # lid}
    BY <1>3
  <1>5. after \in [Tracks -> SUBSET Record]
    BY <1>1, <1>3
  <1> HIDE DEF after
  <1>6. ASSUME NEW u \in Tracks
        PROVE  /\ \A r \in after[u] : r \in table[u] \/ (u = t /\ r = new)
               /\ \A r \in table[u] : r \in after[u] \/ r.lid = lid \/ (u = t /\ r.note = n)
    BY <1>4
  <1>7. new \in after[t] /\ \A r \in after[t] : r.note = n => r = new
    BY <1>4
  <1> QED
    BY <1>5, <1>6, <1>7 DEF after

-----------------------------------------------------------------------------
(* The steps of the UI *)

\* Whatever adds or deletes a track keeps the invariant: what the callback holds is
\* of the old topology then, and nothing is asked of it.
LEMMA EditKeeps ==
  ASSUME IInv, TypeOK', topology' = topology + 1, gate' \subseteq gate,
         UNCHANGED <<held, inbox, callbackVars>>
  PROVE  IInv'
  <1>1. SeenIsPast' /\ ResetDue'
    <2>1. seen' = seen /\ seen.topology <= topology /\ topology \in Nat /\ seen.topology \in Nat
      BY DEF callbackVars, IInv, SeenIsPast, TypeOK, UiType, CallbackType
    <2> QED
      BY <2>1 DEF SeenIsPast, ResetDue
  <1>2. KeysInv'
    BY DEF KeysInv, OnsAreHeld, OnsAlternate, Pressed, On, Off, IInv
  <1>3. TableInv'
    <2>1. table' = table /\ seen' = seen /\ held' = held /\ inbox' = inbox
      BY DEF callbackVars
    <2>2. TableInv
      BY DEF IInv
    <2> QED
      BY <1>1, <2>1, <2>2 DEF TableInv, RecordsLive, RecordsBeforeOns, RecordsUnique,
         RecordsCounted, RecordsOfEngine, Pressed, On, Off
  <1>4. OffsInv'
    <2>1. pending' = pending /\ by' = by
      BY DEF callbackVars
    <2>2. OffsInv
      BY DEF IInv
    <2> QED
      BY <1>1, <2>1, <2>2 DEF OffsInv, OneOff, OffsOfSteps, GatesClose
  <1>5. PoolInv'
    <2>1. pool' = pool /\ spools' = spools /\ pending' = pending /\ table' = table
      BY DEF callbackVars
    <2>2. PoolInv
      BY DEF IInv
    <2> QED
      BY <2>1, <2>2 DEF PoolInv, OrdersCover, GatesActive, ActiveEnabled, UsedAreOwned
  <1> QED
    BY <1>1, <1>2, <1>3, <1>4, <1>5 DEF IInv

\* So does whatever keeps the tracks and their kinds.
LEMMA SettingKeeps ==
  ASSUME IInv, TypeOK', Len(tracks') = Len(tracks),
         \A t \in 1..Len(tracks) : tracks'[t].kind = tracks[t].kind,
         UNCHANGED <<topology, held, inbox, gate, callbackVars>>
  PROVE  IInv'
  <1>1. DOMAIN tracks' = DOMAIN tracks /\ DOMAIN tracks = 1..Len(tracks)
    <2>1. tracks \in Seq(Track) /\ tracks' \in Seq(Track)
      BY DEF IInv, TypeOK, UiType
    <2> QED
      BY <2>1
  <1>2. /\ ResetDue' <=> ResetDue
        /\ \A t \in Tracks : Kind(t)' = Kind(t)
        /\ \A v \in Voices : Closes(v)' <=> Closes(v)
    <2>1. seen' = seen /\ pending' = pending /\ table' = table
      BY DEF callbackVars
    <2>2. \A t \in Tracks : Kind(t)' = Kind(t)
      BY <1>1 DEF Kind
    <2> QED
      BY <1>1, <2>1, <2>2 DEF ResetDue, Closes
  <1>3. SeenIsPast'
    BY DEF SeenIsPast, IInv, callbackVars
  <1>4. KeysInv'
    BY DEF KeysInv, OnsAreHeld, OnsAlternate, Pressed, On, Off, IInv
  <1>5. TableInv'
    <2>1. table' = table /\ seen' = seen /\ held' = held /\ inbox' = inbox
      BY DEF callbackVars
    <2>2. TableInv
      BY DEF IInv
    <2>3. RecordsOfEngine'
      BY <1>2, <2>1, <2>2 DEF TableInv, RecordsOfEngine
    <2> QED
      BY <2>1, <2>2, <2>3 DEF TableInv, RecordsLive, RecordsBeforeOns, RecordsUnique,
         RecordsCounted, Pressed, On, Off
  <1>6. OffsInv'
    <2>1. pending' = pending /\ by' = by
      BY DEF callbackVars
    <2>2. OffsInv
      BY DEF IInv
    <2> QED
      BY <1>2, <2>1, <2>2 DEF OffsInv, OneOff, OffsOfSteps, GatesClose
  <1>7. PoolInv'
    <2>1. pool' = pool /\ spools' = spools /\ pending' = pending /\ table' = table
      BY DEF callbackVars
    <2>2. PoolInv
      BY DEF IInv
    <2> QED
      BY <2>1, <2>2 DEF PoolInv, OrdersCover, GatesActive, ActiveEnabled, UsedAreOwned
  <1> QED
    BY <1>3, <1>4, <1>5, <1>6, <1>7 DEF IInv

\* The budget.
LEMMA MayFacts ==
  ASSUME TypeOK, NEW what \in Counted, May(what)
  PROVE  /\ left' \in [Counted -> Nat]
         /\ left[what] \in Nat \ {0}
  <1>1. left \in [Counted -> Nat]
    BY DEF TypeOK, UiType
  <1> QED
    BY <1>1 DEF May

LEMMA CallbackTypeKept ==
  ASSUME TypeOK, UNCHANGED callbackVars
  PROVE  CallbackType'
  BY DEF TypeOK, CallbackType, callbackVars

LEMMA DeleteTrackStep ==
  ASSUME IInv, NEW t \in Tracks, DeleteTrack(t)
  PROVE  IInv'
  <1>1. TypeOK
    BY DEF IInv
  <1>2. /\ tracks \in Seq(Track) /\ t \in 1..Len(tracks) /\ Len(tracks) \in Nat
        /\ Len(tracks) > 1 /\ Len(tracks) <= Cardinality(Tracks)
    <2>1. Len(tracks) \in 1..Cardinality(Tracks)
      BY <1>1, VoicesAssumption DEF TypeOK, UiType
    <2>2. tracks \in Seq(Track) /\ t \in 1..Len(tracks) /\ Len(tracks) > 1
      BY <1>1, TrackFacts DEF DeleteTrack, TypeOK, UiType
    <2> QED
      BY <1>1, <2>1, <2>2, TrackFacts
  <1>3. tracks' \in Seq(Track) /\ Len(tracks') = Len(tracks) - 1
    <2> DEFINE moved == RemoveAt(tracks, t)
    <2>1. moved \in Seq(Track) /\ Len(moved) = Len(tracks) - 1
      BY <1>2, RemoveAtProperties
    <2> HIDE DEF moved
    <2>2. \A i \in 1..Len(tracks) - 1 : moved[i] \in Track /\ tracks[i] \in Track
      BY <1>2, <2>1
    <2>3. \A i \in 1..Len(tracks) - 1 : [moved[i] EXCEPT !.cap = tracks[i].cap] \in Track
      BY <2>2 DEF Track
    <2>4. tracks' = [i \in 1..Len(tracks) - 1 |-> [moved[i] EXCEPT !.cap = tracks[i].cap]]
      BY DEF DeleteTrack, Compacted, moved
    <2> DEFINE last == Len(tracks) - 1
               value(i) == [moved[i] EXCEPT !.cap = tracks[i].cap]
    <2>5. last \in Nat /\ \A i \in 1..last : value(i) \in Track
      BY <1>2, <2>3
    <2>6. tracks' = [i \in 1..last |-> value(i)]
      BY <2>4
    <2> HIDE DEF last, value
    <2>7. tracks' \in Seq(Track) /\ Len(tracks') = last
      BY <2>5, <2>6, FunctionIsSeq
    <2> QED
      BY <2>7 DEF last
  <1>4. Len(tracks') \in Tracks
    <2>1. Len(tracks') \in 1..Cardinality(Tracks)
      BY <1>1, <1>2, <1>3, TrackFacts
    <2> QED
      BY <2>1, VoicesAssumption
  <1>5. loaded' \in [Voices -> Prints] /\ told' \in Prints
    BY <1>1, <1>3, FollowedTyped DEF DeleteTrack, TypeOK, UiType, NodeType
  <1>6. gate' \subseteq gate /\ gate' \subseteq Nat \X Voices
    BY <1>1 DEF DeleteTrack, TypeOK, NodeType
  <1>7. left' \in [Counted -> Nat]
    BY <1>1, MayFacts DEF Counted, DeleteTrack
  <1>8. topology' = topology + 1 /\ UNCHANGED <<pattern, held, inbox, callbackVars>>
    BY DEF DeleteTrack
  <1>9. TypeOK'
    BY <1>1, <1>3, <1>4, <1>5, <1>6, <1>7, <1>8, CallbackTypeKept DEF TypeOK, UiType, NodeType
  <1> QED
    BY <1>6, <1>8, <1>9, EditKeeps

LEMMA AddTrackStep ==
  ASSUME IInv, NEW kind \in {"engine", "sampler"}, AddTrack(kind)
  PROVE  IInv'
  <1>1. TypeOK
    BY DEF IInv
  <1>2. /\ tracks \in Seq(Track) /\ Len(tracks) \in Nat
        /\ Len(tracks) < Cardinality(Tracks) /\ Cardinality(Tracks) \in Nat
    BY <1>1, TrackFacts DEF AddTrack, TypeOK, UiType
  <1>3. left' \in [Counted -> Nat]
        /\ left["edit"] \in Nat
    BY <1>1, MayFacts DEF Counted, AddTrack
  <1>4. NewTrack(kind, Cardinality(Tracks) + left["edit"]) \in Track
    <2>1. DefaultPoly \in 1..MaxPoly /\ 1 \in Prints
      BY VoicesAssumption, PoolAssumption DEF Voices
    <2> QED
      BY <1>2, <1>3, <2>1 DEF NewTrack, Track
  <1>5. tracks' \in Seq(Track) /\ Len(tracks') = Len(tracks) + 1
    BY <1>2, <1>4 DEF AddTrack
  <1>6. Len(tracks') \in Tracks
    <2>1. Len(tracks') \in 1..Cardinality(Tracks)
      BY <1>2, <1>5
    <2> QED
      BY <2>1, VoicesAssumption
  <1>7. loaded' \in [Voices -> Prints] /\ told' \in Prints
    BY <1>1, VoicesAssumption DEF AddTrack, TypeOK, UiType, NodeType
  <1>8. topology' = topology + 1 /\ UNCHANGED <<pattern, held, inbox, gate, callbackVars>>
    BY DEF AddTrack
  <1>9. TypeOK'
    BY <1>1, <1>3, <1>5, <1>6, <1>7, <1>8, CallbackTypeKept DEF TypeOK, UiType, NodeType
  <1> QED
    BY <1>8, <1>9, EditKeeps

LEMMA SetPolyphonyStep ==
  ASSUME IInv, NEW t \in Tracks, SetPolyphony(t)
  PROVE  IInv'
  <1>1. TypeOK /\ tracks \in Seq(Track)
    BY DEF IInv, TypeOK, UiType
  <1>2. PICK p \in BOOLEAN, c \in 1..MaxPoly : tracks' = [tracks EXCEPT ![t].poly = p, ![t].cap = c]
    BY DEF SetPolyphony
  <1> DEFINE new == [tracks[t] EXCEPT !.poly = p, !.cap = c]
  <1>3. t \in 1..Len(tracks) /\ tracks[t] \in Track
    BY <1>1, TrackFacts DEF SetPolyphony
  <1>4. new \in Track /\ new.kind = tracks[t].kind
    BY <1>3 DEF Track
  <1>5. tracks' = [tracks EXCEPT ![t] = new]
    BY <1>2
  <1> HIDE DEF new
  <1>6. /\ tracks' \in Seq(Track) /\ Len(tracks') = Len(tracks)
        /\ \A u \in 1..Len(tracks) : tracks'[u].kind = tracks[u].kind
    BY <1>1, <1>3, <1>4, <1>5
  <1>7. left' \in [Counted -> Nat]
    BY <1>1, MayFacts DEF Counted, SetPolyphony
  <1>8. UNCHANGED <<topology, pattern, held, told, inbox, gate, loaded, callbackVars>>
    BY DEF SetPolyphony
  <1>9. TypeOK'
    BY <1>1, <1>6, <1>7, <1>8, CallbackTypeKept DEF TypeOK, UiType, NodeType
  <1> QED
    BY <1>6, <1>8, <1>9, SettingKeeps

LEMMA TweakStep ==
  ASSUME IInv, NEW t \in Tracks, NEW sound \in Prints, TweakDefault(t, sound)
  PROVE  IInv'
  <1>1. TypeOK /\ tracks \in Seq(Track)
    BY DEF IInv, TypeOK, UiType
  <1> DEFINE new == [tracks[t] EXCEPT !.sound = sound]
  <1>2. t \in 1..Len(tracks) /\ tracks[t] \in Track
    BY <1>1, TrackFacts DEF TweakDefault
  <1>3. new \in Track /\ new.kind = tracks[t].kind
    BY <1>2 DEF Track
  <1>4. tracks' = [tracks EXCEPT ![t] = new]
    BY DEF TweakDefault
  <1> HIDE DEF new
  <1>5. /\ tracks' \in Seq(Track) /\ Len(tracks') = Len(tracks)
        /\ \A u \in 1..Len(tracks) : tracks'[u].kind = tracks[u].kind
    BY <1>1, <1>2, <1>3, <1>4
  <1>6. left' \in [Counted -> Nat]
    BY <1>1, MayFacts DEF Counted, TweakDefault
  <1>7. loaded' \in [Voices -> Prints] /\ told' \in Prints
    BY <1>1, <1>5, FollowedTyped DEF TweakDefault, TypeOK, UiType, NodeType
  <1>8. UNCHANGED <<topology, pattern, held, inbox, gate, callbackVars>>
    BY DEF TweakDefault
  <1>9. TypeOK'
    BY <1>1, <1>5, <1>6, <1>7, <1>8, CallbackTypeKept DEF TypeOK, UiType, NodeType
  <1> QED
    BY <1>5, <1>8, <1>9, SettingKeeps

LEMMA SwitchStep ==
  ASSUME IInv, SwitchPattern
  PROVE  IInv'
  <1>1. TypeOK
    BY DEF IInv
  <1>2. left' \in [Counted -> Nat]
    BY <1>1, MayFacts DEF Counted, SwitchPattern
  <1>3. pattern' \in {0, 1}
    <2>1. pattern \in {0, 1} /\ pattern' = 1 - pattern
      BY <1>1 DEF SwitchPattern, TypeOK, UiType
    <2> QED
      BY <2>1
  <1>4. UNCHANGED <<tracks, topology, held, told, inbox, gate, loaded, callbackVars>>
    BY DEF SwitchPattern
  <1>5. TypeOK'
    BY <1>1, <1>2, <1>3, <1>4, CallbackTypeKept DEF TypeOK, UiType, NodeType
  <1> QED
    BY <1>4, <1>5, SettingKeeps

\* Keys on their way change nothing of what the callback has.
LEMMA NothingHeard ==
  ASSUME IInv, UNCHANGED <<tracks, topology, gate, callbackVars>>
  PROVE  SeenIsPast' /\ OffsInv' /\ PoolInv'
  <1>1. UNCHANGED <<seen, pool, spools, table, pending, by>>
    BY DEF callbackVars
  <1>2. SeenIsPast'
    BY <1>1 DEF IInv, SeenIsPast
  <1>3. OffsInv'
    BY <1>1 DEF IInv, OffsInv, OneOff, OffsOfSteps, GatesClose, Closes, ResetDue
  <1>4. PoolInv'
    BY <1>1 DEF IInv, PoolInv, OrdersCover, GatesActive, ActiveEnabled, UsedAreOwned
  <1> QED
    BY <1>2, <1>3, <1>4

LEMMA PressStep ==
  ASSUME IInv, NEW t \in Tracks, NEW n \in Notes, PressKey(t, n)
  PROVE  IInv'
  <1> DEFINE len == Len(inbox)
  <1>1. TypeOK /\ inbox \in Seq(Message) /\ len \in Nat
    BY LenProperties DEF IInv, TypeOK, UiType
  <1>2. /\ UNCHANGED <<tracks, topology, pattern, told, gate, loaded, callbackVars>>
        /\ held' = held \cup {[track |-> t, note |-> n]}
        /\ inbox' = Append(inbox, On(t, n))
        /\ ~ Pressed(t, n)
    BY DEF PressKey, On, Pressed
  <1>3. On(t, n) \in Message /\ [track |-> t, note |-> n] \in Key
    BY DEF On, Message, Key
  <1>4. /\ inbox' \in Seq(Message) /\ Len(inbox') = len + 1
        /\ \A i \in 1..len : inbox'[i] = inbox[i]
        /\ inbox'[len + 1] = On(t, n)
    BY <1>1, <1>2, <1>3
  <1>5. left' \in [Counted -> Nat]
    BY <1>1, MayFacts DEF PressKey, Counted
  <1>6. TypeOK'
    <2>1. held' \subseteq Key
      BY <1>1, <1>2, <1>3 DEF TypeOK, UiType
    <2> QED
      BY <1>1, <1>2, <1>4, <1>5, <2>1, CallbackTypeKept DEF TypeOK, UiType, NodeType
  <1> HIDE DEF len
  <1>7. \A u \in Tracks, m \in Notes : Pressed(u, m) => Pressed(u, m)'
    BY <1>2 DEF Pressed
  <1>8. Pressed(t, n)'
    BY <1>2 DEF Pressed
  <1>9. \A u \in Tracks, m \in Notes, j \in 1..len + 1 :
          inbox'[j] = Off(u, m) => j \in 1..len /\ inbox[j] = Off(u, m)
    <2>1. \A u \in Tracks, m \in Notes : On(t, n) # Off(u, m)
      BY DEF On, Off
    <2>2. \A j \in 1..len + 1 : j \in 1..len \/ j = len + 1
      BY <1>1 DEF len
    <2> QED
      BY <1>4, <2>1, <2>2
  <1>10. OnsAreHeld'
    <2>1. ASSUME NEW u \in Tracks, NEW m \in Notes, NEW i \in 1..len + 1, inbox'[i] = On(u, m)
          PROVE  Pressed(u, m)' \/ \E j \in i + 1..len + 1 : inbox'[j] = Off(u, m)
      <3>1. CASE i \in 1..len
        <4>1. Pressed(u, m) \/ \E j \in i + 1..len : inbox[j] = Off(u, m)
          BY <1>4, <2>1, <3>1 DEF IInv, KeysInv, OnsAreHeld, len
        <4>2. \A j \in i + 1..len : j \in 1..len /\ j \in i + 1..len + 1
          BY <1>1, <3>1 DEF len
        <4> QED
          BY <1>4, <1>7, <4>1, <4>2
      <3>2. CASE i = len + 1
        <4>1. On(u, m) = On(t, n)
          BY <1>4, <2>1, <3>2
        <4>2. u = t /\ m = n
          BY <4>1 DEF On
        <4> QED
          BY <1>8, <4>2
      <3> QED
        BY <1>1, <3>1, <3>2 DEF len
    <2> QED
      BY <1>4, <2>1, ZenonT(40) DEF OnsAreHeld, On, Off
  <1>11. \A i \in 1..len : inbox[i] = On(t, n) => \E j \in i + 1..len : inbox[j] = Off(t, n)
    BY <1>2 DEF IInv, KeysInv, OnsAreHeld, len
  <1>12. OnsAlternate'
    <2>1. ASSUME NEW u \in Tracks, NEW m \in Notes, NEW i \in 1..len + 1, NEW j \in 1..len + 1,
                 i < j, inbox'[i] = On(u, m), inbox'[j] = On(u, m)
          PROVE  \E k \in i + 1..j - 1 : inbox'[k] = Off(u, m)
      <3>1. i \in 1..len /\ inbox[i] = On(u, m)
        BY <1>1, <1>4, <2>1 DEF len
      <3>2. CASE j \in 1..len
        <4>1. PICK k \in i + 1..j - 1 : inbox[k] = Off(u, m)
          BY <1>4, <2>1, <3>1, <3>2 DEF IInv, KeysInv, OnsAlternate, len
        <4>2. k \in 1..len
          BY <1>1, <3>1, <3>2 DEF len
        <4> QED
          BY <1>4, <4>1, <4>2
      <3>3. CASE j = len + 1
        <4>1. On(u, m) = On(t, n)
          BY <1>4, <2>1, <3>3
        <4>2. u = t /\ m = n
          BY <4>1 DEF On
        <4>3. PICK k \in i + 1..len : inbox[k] = Off(t, n)
          BY <1>11, <3>1, <4>2
        <4>4. k \in 1..len /\ k \in i + 1..j - 1
          BY <1>1, <3>1, <3>3 DEF len
        <4> QED
          BY <1>4, <4>2, <4>3, <4>4
      <3> QED
        BY <1>1, <3>2, <3>3 DEF len
    <2> QED
      BY <1>4, <2>1 DEF OnsAlternate, On, Off
  <1>13. table' = table /\ seen' = seen
    BY <1>2 DEF callbackVars
  <1>14. ASSUME NEW u \in Tracks, NEW r \in table[u]
         PROVE  Justified(u, r.note)'
    <2> DEFINE m == r.note
    <2>1. /\ Pressed(u, m) \/ \E j \in 1..len : inbox[j] = Off(u, m)
          /\ \A i \in 1..len :
               inbox[i] = On(u, m) => \E k \in 1..i - 1 : inbox[k] = Off(u, m)
      BY DEF IInv, TableInv, RecordsLive, RecordsBeforeOns, len
    <2>2. m \in Notes
      BY <1>1, RecordFacts
    <2> HIDE DEF m
    <2>3. \A j \in 1..len : j \in 1..len + 1
      BY <1>1 DEF len
    <2>4. Pressed(u, m)' \/ \E j \in 1..len + 1 : inbox'[j] = Off(u, m)
      BY <1>4, <1>7, <2>1, <2>2, <2>3
    <2>5. ASSUME NEW i \in 1..len + 1, inbox'[i] = On(u, m)
          PROVE  \E k \in 1..i - 1 : inbox'[k] = Off(u, m)
      <3>1. CASE i \in 1..len
        <4>1. PICK k \in 1..i - 1 : inbox[k] = Off(u, m)
          BY <1>4, <2>1, <2>5, <3>1
        <4>2. k \in 1..len
          BY <1>1, <3>1 DEF len
        <4> QED
          BY <1>4, <4>1, <4>2
      <3>2. CASE i = len + 1
        <4>1. On(u, m) = On(t, n)
          BY <1>4, <2>5, <3>2
        <4>2. u = t /\ m = n
          BY <4>1 DEF On
        <4>3. PICK k \in 1..len : inbox[k] = Off(u, m)
          BY <1>2, <2>1, <4>2
        <4>4. k \in 1..i - 1
          BY <1>1, <3>2 DEF len
        <4> QED
          BY <1>4, <4>3, <4>4
      <3> QED
        BY <1>1, <3>1, <3>2 DEF len
    <2> QED
      BY <1>4, <2>4, <2>5 DEF Justified, On, Off, m
  <1>15. TableInv'
    <2>1. RecordsLive' /\ RecordsBeforeOns'
      BY <1>13, <1>14 DEF RecordsLive, RecordsBeforeOns, Justified, On, Off
    <2>2. RecordsUnique' /\ RecordsCounted' /\ RecordsOfEngine'
      BY <1>2, <1>13 DEF IInv, TableInv, RecordsUnique, RecordsCounted, RecordsOfEngine,
         ResetDue, Kind
    <2> QED
      BY <2>1, <2>2 DEF TableInv
  <1>16. SeenIsPast' /\ OffsInv' /\ PoolInv'
    BY <1>2, NothingHeard
  <1> QED
    BY <1>6, <1>10, <1>12, <1>15, <1>16 DEF IInv, KeysInv

LEMMA ReleaseStep ==
  ASSUME IInv, NEW key \in held, ReleaseKey(key)
  PROVE  IInv'
  <1> DEFINE len == Len(inbox)
             t == key.track
             n == key.note
  <1>1. TypeOK /\ inbox \in Seq(Message) /\ len \in Nat
    BY LenProperties DEF IInv, TypeOK, UiType
  <1>2. t \in Tracks /\ n \in Notes /\ key = [track |-> t, note |-> n]
    BY <1>1 DEF TypeOK, UiType, Key
  <1>3. /\ UNCHANGED <<tracks, topology, pattern, told, left, gate, loaded, callbackVars>>
        /\ held' = held \ {key}
        /\ inbox' = Append(inbox, Off(t, n))
    BY DEF ReleaseKey, Off
  <1> HIDE DEF t, n
  <1>4. Off(t, n) \in Message
    BY <1>2 DEF Off, Message
  <1>5. /\ inbox' \in Seq(Message) /\ Len(inbox') = len + 1
        /\ \A i \in 1..len : inbox'[i] = inbox[i]
        /\ inbox'[len + 1] = Off(t, n)
    BY <1>1, <1>3, <1>4
  <1>6. TypeOK'
    <2>1. held' \subseteq Key
      BY <1>1, <1>3 DEF TypeOK, UiType
    <2> QED
      BY <1>1, <1>3, <1>5, <2>1, CallbackTypeKept DEF TypeOK, UiType, NodeType
  <1> HIDE DEF len
  <1>7. ASSUME NEW u \in Tracks, NEW m \in Notes, Pressed(u, m)
        PROVE  Pressed(u, m)' \/ inbox'[len + 1] = Off(u, m)
    <2>1. CASE [track |-> u, note |-> m] = key
      <3>1. u = t /\ m = n
        BY <2>1 DEF t, n
      <3> QED
        BY <1>5, <3>1
    <2>2. CASE [track |-> u, note |-> m] # key
      BY <1>3, <1>7, <2>2 DEF Pressed
    <2> QED
      BY <2>1, <2>2
  <1>8. \A u \in Tracks, m \in Notes, i \in 1..len + 1 :
          inbox'[i] = On(u, m) => i \in 1..len /\ inbox[i] = On(u, m)
    <2>1. \A u \in Tracks, m \in Notes : Off(t, n) # On(u, m)
      BY DEF On, Off
    <2>2. \A j \in 1..len + 1 : j \in 1..len \/ j = len + 1
      BY <1>1 DEF len
    <2> QED
      BY <1>5, <2>1, <2>2
  <1>9. OnsAreHeld'
    <2>1. ASSUME NEW u \in Tracks, NEW m \in Notes, NEW i \in 1..len + 1, inbox'[i] = On(u, m)
          PROVE  Pressed(u, m)' \/ \E j \in i + 1..len + 1 : inbox'[j] = Off(u, m)
      <3>1. i \in 1..len /\ (Pressed(u, m) \/ \E j \in i + 1..len : inbox[j] = Off(u, m))
        BY <1>8, <2>1 DEF IInv, KeysInv, OnsAreHeld, len
      <3>2. /\ \A j \in i + 1..len : j \in 1..len /\ j \in i + 1..len + 1
            /\ len + 1 \in i + 1..len + 1
        BY <1>1, <3>1 DEF len
      <3> QED
        BY <1>5, <1>7, <3>1, <3>2
    <2> QED
      BY <1>5, <2>1 DEF OnsAreHeld, On, Off
  <1>10. OnsAlternate'
    <2>1. ASSUME NEW u \in Tracks, NEW m \in Notes, NEW i \in 1..len + 1, NEW j \in 1..len + 1,
                 i < j, inbox'[i] = On(u, m), inbox'[j] = On(u, m)
          PROVE  \E k \in i + 1..j - 1 : inbox'[k] = Off(u, m)
      <3>1. i \in 1..len /\ inbox[i] = On(u, m) /\ j \in 1..len /\ inbox[j] = On(u, m)
        BY <1>8, <2>1
      <3>2. PICK k \in i + 1..j - 1 : inbox[k] = Off(u, m)
        BY <2>1, <3>1 DEF IInv, KeysInv, OnsAlternate, len
      <3>3. k \in 1..len
        BY <1>1, <3>1 DEF len
      <3> QED
        BY <1>5, <3>2, <3>3
    <2> QED
      BY <1>5, <2>1 DEF OnsAlternate, On, Off
  <1>11. table' = table /\ seen' = seen
    BY <1>3 DEF callbackVars
  <1>12. ASSUME NEW u \in Tracks, NEW r \in table[u]
         PROVE  Justified(u, r.note)'
    <2> DEFINE m == r.note
    <2>1. /\ Pressed(u, m) \/ \E j \in 1..len : inbox[j] = Off(u, m)
          /\ \A i \in 1..len :
               inbox[i] = On(u, m) => \E k \in 1..i - 1 : inbox[k] = Off(u, m)
      BY DEF IInv, TableInv, RecordsLive, RecordsBeforeOns, len
    <2>2. m \in Notes
      BY <1>1, RecordFacts
    <2> HIDE DEF m
    <2>3. len + 1 \in 1..len + 1 /\ \A j \in 1..len : j \in 1..len + 1
      BY <1>1 DEF len
    <2>4. Pressed(u, m)' \/ \E j \in 1..len + 1 : inbox'[j] = Off(u, m)
      BY <1>5, <1>7, <2>1, <2>2, <2>3
    <2>5. ASSUME NEW i \in 1..len + 1, inbox'[i] = On(u, m)
          PROVE  \E k \in 1..i - 1 : inbox'[k] = Off(u, m)
      <3>1. i \in 1..len /\ inbox[i] = On(u, m)
        BY <1>8, <2>2, <2>5
      <3>2. PICK k \in 1..i - 1 : inbox[k] = Off(u, m)
        BY <2>1, <3>1
      <3>3. k \in 1..len
        BY <1>1, <3>1 DEF len
      <3> QED
        BY <1>5, <3>2, <3>3
    <2> QED
      BY <1>5, <2>4, <2>5 DEF Justified, On, Off, m
  <1>13. TableInv'
    <2>1. RecordsLive' /\ RecordsBeforeOns'
      BY <1>11, <1>12 DEF RecordsLive, RecordsBeforeOns, Justified, On, Off
    <2>2. RecordsUnique' /\ RecordsCounted' /\ RecordsOfEngine'
      BY <1>3, <1>11 DEF IInv, TableInv, RecordsUnique, RecordsCounted, RecordsOfEngine,
         ResetDue, Kind
    <2> QED
      BY <2>1, <2>2 DEF TableInv
  <1>14. SeenIsPast' /\ OffsInv' /\ PoolInv'
    BY <1>3, NothingHeard
  <1> QED
    BY <1>6, <1>9, <1>10, <1>13, <1>14 DEF IInv, KeysInv

-----------------------------------------------------------------------------
(* The steps of the callback *)

LEMMA KeysKept ==
  ASSUME IInv, UNCHANGED <<held, inbox>>
  PROVE  KeysInv'
  BY DEF IInv, KeysInv, OnsAreHeld, OnsAlternate, Pressed, On, Off

LEMMA TableKept ==
  ASSUME IInv, UNCHANGED <<tracks, topology, held, inbox, table, seen>>
  PROVE  TableInv'
  <1>1. RecordsLive' /\ RecordsBeforeOns'
    BY DEF IInv, TableInv, RecordsLive, RecordsBeforeOns, Pressed, On, Off
  <1>2. RecordsUnique' /\ RecordsCounted' /\ RecordsOfEngine'
    BY DEF IInv, TableInv, RecordsUnique, RecordsCounted, RecordsOfEngine, ResetDue, Kind
  <1> QED
    BY <1>1, <1>2 DEF TableInv

LEMMA CountedDown ==
  ASSUME TypeOK, NEW what \in Counted, left[what] > 0, left' = [left EXCEPT ![what] = @ - 1]
  PROVE  left' \in [Counted -> Nat]
  BY DEF TypeOK, UiType

\* The start and the end of a callback.
LEMMA PhaseStep ==
  ASSUME IInv, phase' \in {"idle", "keys", "render"},
         UNCHANGED <<inbox, gate, loaded, seen, pool, spools, table, pending, by, heard>>,
         CallbackElse
  PROVE  IInv'
  <1>1. UNCHANGED <<tracks, topology, pattern, held, told, left>>
    BY DEF CallbackElse, uiVars
  <1>2. TypeOK'
    BY <1>1 DEF IInv, TypeOK, UiType, NodeType, CallbackType
  <1>3. SeenIsPast' /\ KeysInv'
    BY <1>1, KeysKept DEF IInv, SeenIsPast
  <1>4. TableInv'
    BY <1>1, TableKept
  <1>5. OffsInv'
    BY <1>1 DEF IInv, OffsInv, OneOff, OffsOfSteps, GatesClose, Closes, ResetDue
  <1>6. PoolInv'
    BY <1>1 DEF IInv, PoolInv, OrdersCover, GatesActive, ActiveEnabled, UsedAreOwned
  <1> QED
    BY <1>2, <1>3, <1>4, <1>5, <1>6 DEF IInv

LEMMA ResetStep ==
  ASSUME IInv, ResetForTopology
  PROVE  IInv'
  <1>1. TypeOK
    BY DEF IInv
  <1>2. /\ UNCHANGED <<tracks, topology, pattern, held, told, left, inbox, loaded, by, heard>>
        /\ phase' = "keys" /\ gate' = gate \ EngineIds /\ pool' = NewCustomPool
        /\ spools' = [t \in Tracks |-> Synced(t)] /\ table' = NoNotes /\ pending' = NoPending
        /\ seen' = Seen
    BY DEF ResetForTopology, CallbackElse, uiVars
  <1>3. /\ \A t \in Tracks : table'[t] = {}
        /\ \A t \in Tracks, v \in Voices : pending'[t][v] = 0
        /\ \A v \in Voices : <<0, v>> \notin gate'
        /\ \A v \in Voices : ~ pool'.tail[v] > 0
    BY <1>2, NewFacts DEF NoNotes, NoPending, EngineIds
  <1>4. Seen \in [count : Tracks, topology : Nat, pattern : {-1, 0, 1}, engine : BOOLEAN]
    BY <1>1 DEF TypeOK, UiType, Seen
  <1>5. \A t \in Tracks : /\ Synced(t) \in [pool : SamplerPool, of : Nat]
                          /\ Synced(t).pool = NewSamplerPool
    <2>1. ASSUME NEW t \in Tracks
          PROVE  (IF Kind(t) = "sampler" THEN tracks[t].id ELSE 0) \in Nat
      BY <1>1, TrackFacts DEF Kind
    <2> QED
      BY <2>1, NewFacts DEF Synced
  <1>6. /\ spools' \in [Tracks -> [pool : SamplerPool, of : Nat]]
        /\ \A t \in Tracks : spools'[t].pool = NewSamplerPool
    BY <1>2, <1>5
  <1>7. table' \in [Tracks -> SUBSET Record] /\ pending' \in [Tracks -> [Voices -> Nat]]
    BY <1>2 DEF NoNotes, NoPending
  <1>8. TypeOK'
    <2>1. UiType' /\ NodeType'
      BY <1>1, <1>2 DEF TypeOK, UiType, NodeType
    <2>2. CallbackType'
      BY <1>1, <1>2, <1>4, <1>6, <1>7, NewFacts DEF TypeOK, CallbackType
    <2> QED
      BY <2>1, <2>2 DEF TypeOK
  <1>9. SeenIsPast'
    BY <1>1, <1>2 DEF SeenIsPast, Seen, TypeOK, UiType
  <1>10. KeysInv'
    BY <1>2 DEF IInv, KeysInv, OnsAreHeld, OnsAlternate, Pressed, On, Off
  <1>11. TableInv'
    BY <1>3 DEF TableInv, RecordsLive, RecordsBeforeOns, RecordsUnique, RecordsCounted,
       RecordsOfEngine
  <1>12. OffsInv'
    <2>1. \A t \in Tracks, v \in Voices : ~ pending'[t][v] > 0
      BY <1>3
    <2>2. OneOff' /\ OffsOfSteps'
      BY <2>1 DEF OneOff, OffsOfSteps
    <2>3. GatesClose'
      BY <1>3 DEF GatesClose
    <2> QED
      BY <2>2, <2>3 DEF OffsInv
  <1>13. PoolInv'
    <2>1. OrdersCover'
      BY <1>2, <1>6, NewFacts DEF OrdersCover
    <2>2. GatesActive' /\ ActiveEnabled' /\ UsedAreOwned'
      BY <1>2, <1>3, NewFacts DEF GatesActive, ActiveEnabled, UsedAreOwned
    <2> QED
      BY <2>1, <2>2 DEF PoolInv
  <1> QED
    BY <1>8, <1>9, <1>10, <1>11, <1>12, <1>13 DEF IInv

LEMMA IgnoreKeyStep ==
  ASSUME IInv, IgnoreKey
  PROVE  IInv'
  <1> DEFINE k == Head(inbox)
  <1>1. TypeOK /\ TakeKey
    BY DEF IInv, IgnoreKey
  <1>2. UNCHANGED <<tracks, topology, pattern, held, told, left, gate, loaded, callbackVars>>
    BY DEF IgnoreKey, TakeKey, CallbackElse, uiVars
  <1>3. k \in Message /\ inbox' \in Seq(Message)
    BY <1>1, TakenFacts
  <1>4. TypeOK'
    BY <1>1, <1>2, <1>3, CallbackTypeKept DEF TypeOK, UiType, NodeType
  <1>5. KeysInv'
    BY <1>1, KeysAfterTake
  <1>6. table' = table /\ seen' = seen
    BY <1>2 DEF callbackVars
  <1>7. ASSUME NEW t \in Tracks, NEW r \in table[t]
        PROVE  k # Off(t, r.note)
    <2>1. SUFFICES ASSUME k = Off(t, r.note) PROVE FALSE
      OBVIOUS
    <2>2. ~ k.on /\ k.track = t /\ k.note = r.note
      BY <2>1 DEF Off
    <2>3. ~ t > seen.count
      BY DEF IInv, TableInv, RecordsCounted
    <2> QED
      BY <2>2, <2>3 DEF IgnoreKey
  <1>8. \A t \in Tracks : \A r \in table[t] : Justified(t, r.note)'
    BY <1>1, <1>7, OldRecordsJustified
  <1>9. TableInv'
    <2>1. RecordsLive' /\ RecordsBeforeOns'
      BY <1>6, <1>8 DEF RecordsLive, RecordsBeforeOns, Justified, On, Off
    <2>2. RecordsUnique' /\ RecordsCounted' /\ RecordsOfEngine'
      BY <1>2, <1>6 DEF IInv, TableInv, RecordsUnique, RecordsCounted, RecordsOfEngine,
         ResetDue, Kind
    <2> QED
      BY <2>1, <2>2 DEF TableInv
  <1>10. SeenIsPast' /\ OffsInv' /\ PoolInv'
    BY <1>2, NothingHeard
  <1> QED
    BY <1>4, <1>5, <1>9, <1>10 DEF IInv

\* What a note of the engine changes.
LEMMA StrikeFacts ==
  ASSUME IInv, NEW t \in Tracks, NEW n \in Notes, NEW sound \in Prints, NEW v \in Voices,
         Strike(t, n, sound, v)
  PROVE  /\ phase' = phase /\ seen' = seen /\ spools' = spools
         /\ gate' = gate \cup {<<0, v>>} /\ gate' \subseteq Nat \X Voices
         /\ loaded' \in [Voices -> Prints] /\ heard' \in [asked : Prints, got : Prints, told : Prints]
         /\ pool' \in CustomPool /\ pool'.owner[v] = t
         /\ \A w \in Voices \ {v} : /\ pool'.tail[w] = pool.tail[w]
                                    /\ pool'.owner[w] = pool.owner[w]
                                    /\ w \in pool'.active => w \in pool.active
         /\ OrdersCover' /\ GatesActive' /\ ActiveEnabled'
  <1>1. /\ pool \in CustomPool /\ Covers(pool.order) /\ gate \subseteq Nat \X Voices
        /\ loaded \in [Voices -> Prints]
        /\ GatesActive /\ ActiveEnabled /\ OrdersCover
    BY DEF IInv, TypeOK, NodeType, CallbackType, PoolInv, OrdersCover
  <1>2. /\ phase' = phase /\ seen' = seen /\ spools' = spools
        /\ gate' = gate \cup {<<0, v>>} /\ pool' = Allocated(pool, v, t, n, sound)
    BY DEF Strike
  <1>3. loaded' \in [Voices -> Prints]
    BY <1>1 DEF Strike
  <1>4. heard' \in [asked : Prints, got : Prints, told : Prints]
    <2>1. loaded'[v] \in Prints /\ told \in Prints
      BY <1>3 DEF IInv, TypeOK, UiType
    <2> QED
      BY <2>1 DEF Strike
  <1>5. /\ pool' \in CustomPool /\ Covers(pool'.order)
        /\ pool'.active = pool.active \cup {v}
        /\ \A w \in Voices : /\ pool'.tail[w] = IF w = v THEN 0 ELSE pool.tail[w]
                             /\ pool'.owner[w] = IF w = v THEN t ELSE pool.owner[w]
        /\ v <= pool'.enabled /\ pool.enabled <= pool'.enabled
    BY <1>1, <1>2, AllocatedFacts
  <1>6. OrdersCover'
    BY <1>1, <1>2, <1>5 DEF OrdersCover
  <1>7. GatesActive'
    BY <1>1, <1>2, <1>5 DEF GatesActive
  <1>8. ActiveEnabled'
    <2>1. /\ pool.active \in SUBSET Voices /\ pool.enabled \in Voices
          /\ pool'.enabled \in Voices /\ Voices \subseteq Int
      BY <1>1, <1>5 DEF CustomPool, Voices
    <2>2. ASSUME NEW w \in pool.active PROVE w <= pool'.enabled
      <3>1. w <= pool.enabled /\ w \in Int /\ pool.enabled \in Int /\ pool'.enabled \in Int
        BY <1>1, <2>1 DEF ActiveEnabled
      <3> QED
        BY <1>5, <3>1
    <2> QED
      BY <1>5, <2>2 DEF ActiveEnabled
  <1>9. gate' \subseteq Nat \X Voices
    BY <1>1, <1>2
  <1> QED
    BY <1>2, <1>3, <1>4, <1>5, <1>6, <1>7, <1>8, <1>9

LEMMA CancelledFacts ==
  ASSUME TypeOK, NEW v \in Voices
  PROVE  /\ Cancelled(v) \in [Tracks -> [Voices -> Nat]]
         /\ \A t \in Tracks, w \in Voices :
              Cancelled(v)[t][w] = IF w = v THEN 0 ELSE pending[t][w]
  <1>1. pending \in [Tracks -> [Voices -> Nat]]
    BY DEF TypeOK, CallbackType
  <1> QED
    BY <1>1 DEF Cancelled

\* The voice that an engine track strikes next for a note.
LEMMA PickTyped ==
  ASSUME IInv, NEW t \in Tracks, NEW n \in Notes, OnEngine(t)
  PROVE  /\ t \in DOMAIN tracks
         /\ Pick(pool, t, n, tracks[t].poly, tracks[t].cap) \in Voices
  <1>1. TypeOK /\ pool \in CustomPool /\ Covers(pool.order)
    BY DEF IInv, TypeOK, CallbackType, PoolInv, OrdersCover
  <1>2. t \in DOMAIN tracks /\ tracks[t].poly \in BOOLEAN /\ tracks[t].cap \in Voices
    BY <1>1, TrackFacts DEF OnEngine
  <1> QED
    BY <1>1, <1>2, PickFacts

LEMMA KeyOnEngineStep ==
  ASSUME IInv, KeyOnEngine
  PROVE  IInv'
  <1> DEFINE k == Head(inbox)
             t == k.track
             n == k.note
             v == Pick(pool, t, n, tracks[t].poly, tracks[t].cap)
             lid == <<0, v>>
             new == [note |-> n, lid |-> lid]
  <1>1. TypeOK /\ TakeKey /\ k.on /\ t <= seen.count /\ OnEngine(t)
    BY DEF IInv, KeyOnEngine
  <1>2. k \in Message /\ inbox' \in Seq(Message)
    BY <1>1, TakenFacts
  <1>3. t \in Tracks /\ n \in Notes
    BY <1>2 DEF Message
  <1>4. k = On(t, n) /\ k = inbox[1] /\ 1 \in 1..Len(inbox)
    BY <1>1, TakenFacts
  <1>5. /\ Strike(t, n, tracks[t].sound, v)
        /\ pending' = Cancelled(v) /\ table' = Stored(t, n, lid)
        /\ by' = [by EXCEPT ![v] = "key"]
    BY DEF KeyOnEngine
  <1>6. UNCHANGED <<tracks, topology, pattern, held, told, left>>
    BY <1>1 DEF TakeKey, CallbackElse, uiVars
  <1> HIDE DEF k, t, n
  <1>7. t \in DOMAIN tracks /\ v \in Voices /\ tracks[t].sound \in Prints /\ t # NoOne
        /\ Kind(t) = "engine"
    BY <1>1, <1>3, PickTyped, TrackFacts DEF NoOne, OnEngine
  <1> HIDE DEF v
  <1>8. /\ phase' = phase /\ seen' = seen /\ spools' = spools
        /\ gate' = gate \cup {lid} /\ gate' \subseteq Nat \X Voices
        /\ loaded' \in [Voices -> Prints] /\ heard' \in [asked : Prints, got : Prints, told : Prints]
        /\ pool' \in CustomPool /\ pool'.owner[v] = t
        /\ \A w \in Voices \ {v} : /\ pool'.tail[w] = pool.tail[w]
                                   /\ pool'.owner[w] = pool.owner[w]
                                   /\ w \in pool'.active => w \in pool.active
        /\ OrdersCover' /\ GatesActive' /\ ActiveEnabled'
    BY <1>3, <1>5, <1>7, StrikeFacts
  <1>9. lid \in Nat \X Voices
    BY <1>7
  <1> HIDE DEF lid
  <1>10. /\ table' \in [Tracks -> SUBSET Record]
         /\ new \in table'[t]
         /\ \A u \in Tracks : \A r \in table'[u] : r \in table[u] \/ (u = t /\ r = new)
         /\ \A r \in table'[t] : r.note = n => r = new
         /\ \A u \in Tracks : \A r \in table[u] :
              r \in table'[u] \/ r.lid = lid \/ (u = t /\ r.note = n)
    BY <1>1, <1>3, <1>5, <1>9, StoredFacts
  <1>11. /\ pending' \in [Tracks -> [Voices -> Nat]]
         /\ \A u \in Tracks, w \in Voices : pending'[u][w] = IF w = v THEN 0 ELSE pending[u][w]
    BY <1>1, <1>5, <1>7, CancelledFacts
  <1>12. /\ by' \in [Voices -> {"nothing", "key", "step", "endless step"}]
         /\ by'[v] = "key" /\ \A w \in Voices \ {v} : by'[w] = by[w]
    BY <1>1, <1>5, <1>7 DEF TypeOK, CallbackType
  <1>13. TypeOK'
    <2>1. UiType' /\ NodeType'
      BY <1>1, <1>2, <1>6, <1>8 DEF TypeOK, UiType, NodeType
    <2>2. CallbackType'
      BY <1>1, <1>8, <1>10, <1>11, <1>12 DEF TypeOK, CallbackType
    <2> QED
      BY <2>1, <2>2 DEF TypeOK
  <1>14. SeenIsPast' /\ KeysInv'
    BY <1>1, <1>6, <1>8, KeysAfterTake DEF IInv, SeenIsPast
  <1>15. \A u \in Tracks, m \in Notes : k # Off(u, m)
    BY <1>4 DEF On, Off
  <1>16. \A r \in table[t] : r.note # n
    <2>1. ASSUME NEW r \in table[t], r.note = n PROVE FALSE
      <3>1. \E m \in 1..1 - 1 : inbox[m] = Off(t, r.note)
        BY <1>3, <1>4, <2>1 DEF IInv, TableInv, RecordsBeforeOns
      <3> QED
        BY <3>1
    <2> QED
      BY <2>1
  <1>17. TableInv'
    <2>1. ASSUME NEW u \in Tracks, NEW r \in table'[u]
          PROVE  Justified(u, r.note)'
      <3>1. CASE r \in table[u]
        <4>1. r.note \in Notes
          BY <1>1, <3>1, RecordFacts
        <4>2. Head(inbox) # Off(u, r.note)
          BY <1>15, <4>1 DEF k
        <4> QED
          BY <1>1, <3>1, <4>2, OldRecordsJustified
      <3>2. CASE u = t /\ r = new
        <4>1. r.note = n
          BY <3>2
        <4>2. Head(inbox) = On(t, n)
          BY <1>4 DEF k
        <4> QED
          BY <1>1, <1>3, <3>2, <4>1, <4>2, NewRecordJustified
      <3> QED
        BY <1>10, <3>1, <3>2
    <2>2. RecordsLive' /\ RecordsBeforeOns'
      BY <2>1 DEF RecordsLive, RecordsBeforeOns, Justified, On, Off
    <2>3. RecordsUnique'
      BY <1>10 DEF IInv, TableInv, RecordsUnique
    <2>4. RecordsCounted'
      <3>1. ASSUME NEW u \in Tracks, u > seen.count PROVE table'[u] = {}
        <4>1. u # t /\ table[u] = {}
          <5>1. seen.count \in Tracks /\ t \in Int /\ u \in Int /\ seen.count \in Int
            <6>1. seen.count \in Tracks
              BY <1>1 DEF TypeOK, CallbackType
            <6>2. \A x \in Tracks : x \in Int
              BY PoolAssumption
            <6> QED
              BY <1>3, <3>1, <6>1, <6>2
          <5> QED
            BY <1>1, <3>1, <5>1 DEF IInv, TableInv, RecordsCounted, t, k
        <4> QED
          BY <1>10, <4>1
      <3> QED
        BY <1>8, <3>1 DEF RecordsCounted
    <2>5. RecordsOfEngine'
      <3>1. (ResetDue' <=> ResetDue) /\ \A u \in Tracks : Kind(u)' = Kind(u)
        BY <1>6, <1>8 DEF ResetDue, Kind
      <3> QED
        BY <1>7, <1>10, <3>1 DEF IInv, TableInv, RecordsOfEngine
    <2> QED
      BY <2>2, <2>3, <2>4, <2>5 DEF TableInv
  <1>18. OffsInv'
    <2>1. OneOff'
      BY <1>11 DEF IInv, OffsInv, OneOff
    <2>2. OffsOfSteps'
      <3>1. ASSUME NEW w \in Voices, NEW u \in Tracks, pending'[u][w] > 0
            PROVE  by'[w] = "step" \/ <<0, w>> \notin gate'
        <4>1. w # v /\ pending[u][w] > 0
          BY <1>11, <3>1
        <4>2. by[w] = "step" \/ <<0, w>> \notin gate
          BY <4>1 DEF IInv, OffsInv, OffsOfSteps
        <4>3. <<0, w>> # lid
          BY <4>1 DEF lid
        <4> QED
          BY <1>8, <1>12, <4>1, <4>2, <4>3
      <3> QED
        BY <3>1 DEF OffsOfSteps
    <2>3. GatesClose'
      <3>1. ASSUME ~ ResetDue', NEW w \in Voices, <<0, w>> \in gate'
            PROVE  by'[w] = "endless step" \/ Closes(w)'
        <4>1. CASE w = v
          <5>1. new.lid = <<0, w>>
            BY <4>1 DEF lid
          <5> QED
            BY <1>6, <1>7, <1>10, <5>1 DEF Closes
        <4>2. CASE w # v
          <5>1. <<0, w>> \in gate /\ <<0, w>> # lid
            BY <1>8, <3>1, <4>2 DEF lid
          <5>2. ~ ResetDue
            BY <1>6, <1>8, <3>1 DEF ResetDue
          <5>3. by[w] = "endless step" \/ Closes(w)
            BY <5>1, <5>2 DEF IInv, OffsInv, GatesClose
          <5>4. DOMAIN tracks \subseteq Tracks
            BY <1>1, TrackFacts
          <5>5. \A u \in Tracks : pending'[u][w] = pending[u][w]
            BY <1>11, <4>2
          <5>6. \A u \in Tracks : \A r \in table[u] : r.lid = <<0, w>> => r \in table'[u]
            BY <1>10, <1>16, <5>1
          <5>7. Closes(w) => Closes(w)'
            BY <1>6, <5>4, <5>5, <5>6 DEF Closes
          <5> QED
            BY <1>12, <4>2, <5>3, <5>7
        <4> QED
          BY <4>1, <4>2
      <3> QED
        BY <3>1 DEF GatesClose
    <2> QED
      BY <2>1, <2>2, <2>3 DEF OffsInv
  <1>19. UsedAreOwned'
    <2>1. ASSUME NEW w \in Voices, w # v,
                 \/ w \in pool'.active \/ pool'.tail[w] > 0
                 \/ \E u \in Tracks : pending'[u][w] > 0 \/ \E r \in table'[u] : r.lid = <<0, w>>
          PROVE  pool'.owner[w] # NoOne
      <3>1. new.lid # <<0, w>>
        BY <2>1 DEF lid
      <3>2. \A u \in Tracks : \A r \in table'[u] : r.lid = <<0, w>> => r \in table[u]
        BY <1>10, <3>1
      <3>3. \A u \in Tracks : pending'[u][w] = pending[u][w]
        BY <1>11, <2>1
      <3>4. \/ w \in pool.active \/ pool.tail[w] > 0
            \/ \E u \in Tracks : pending[u][w] > 0 \/ \E r \in table[u] : r.lid = <<0, w>>
        BY <1>8, <2>1, <3>2, <3>3
      <3>5. pool.owner[w] # NoOne
        BY <3>4 DEF IInv, PoolInv, UsedAreOwned
      <3> QED
        BY <1>8, <2>1, <3>5
    <2> QED
      BY <1>7, <1>8, <2>1 DEF UsedAreOwned
  <1> QED
    BY <1>8, <1>13, <1>14, <1>17, <1>18, <1>19 DEF IInv, PoolInv

LEMMA StepOnEngineStep ==
  ASSUME IInv, NEW t \in Tracks, NEW n \in Notes, NEW sound \in Prints, NEW len \in Lengths,
         NEW gated \in BOOLEAN, StepOnEngine(t, n, sound, len, gated)
  PROVE  IInv'
  <1> DEFINE v == Pick(pool, t, n, tracks[t].poly, tracks[t].cap)
  <1>1. TypeOK /\ OnEngine(t)
    BY DEF IInv, StepOnEngine
  <1>2. /\ Strike(t, n, sound, v)
        /\ pending' = IF gated THEN [Cancelled(v) EXCEPT ![t][v] = len] ELSE Cancelled(v)
        /\ by' = [by EXCEPT ![v] = IF gated THEN "step" ELSE "endless step"]
        /\ left' = [left EXCEPT !["step"] = @ - 1] /\ left["step"] > 0
        /\ UNCHANGED <<tracks, topology, pattern, held, told, inbox, table>>
    BY DEF StepOnEngine, uiVars
  <1>3. t \in DOMAIN tracks /\ v \in Voices /\ t # NoOne /\ len \in Nat \ {0}
    BY <1>1, PickTyped, TrackFacts, VoicesAssumption DEF NoOne
  <1> HIDE DEF v
  <1>4. /\ phase' = phase /\ seen' = seen /\ spools' = spools
        /\ gate' = gate \cup {<<0, v>>} /\ gate' \subseteq Nat \X Voices
        /\ loaded' \in [Voices -> Prints] /\ heard' \in [asked : Prints, got : Prints, told : Prints]
        /\ pool' \in CustomPool /\ pool'.owner[v] = t
        /\ \A w \in Voices \ {v} : /\ pool'.tail[w] = pool.tail[w]
                                   /\ pool'.owner[w] = pool.owner[w]
                                   /\ w \in pool'.active => w \in pool.active
        /\ OrdersCover' /\ GatesActive' /\ ActiveEnabled'
    BY <1>2, <1>3, StrikeFacts
  <1>5. /\ pending' \in [Tracks -> [Voices -> Nat]]
        /\ \A u \in Tracks, w \in Voices :
             pending'[u][w] = IF w = v THEN IF gated /\ u = t THEN len ELSE 0
                                       ELSE pending[u][w]
    <2> DEFINE c == Cancelled(v)
    <2>1. /\ c \in [Tracks -> [Voices -> Nat]]
          /\ \A u \in Tracks, w \in Voices : c[u][w] = IF w = v THEN 0 ELSE pending[u][w]
      BY <1>1, <1>3, CancelledFacts
    <2>2. pending' = IF gated THEN [c EXCEPT ![t][v] = len] ELSE c
      BY <1>2
    <2> HIDE DEF c
    <2> QED
      BY <1>3, <2>1, <2>2
  <1>6. /\ by' \in [Voices -> {"nothing", "key", "step", "endless step"}]
        /\ by'[v] = IF gated THEN "step" ELSE "endless step"
        /\ \A w \in Voices \ {v} : by'[w] = by[w]
    BY <1>1, <1>2, <1>3 DEF TypeOK, CallbackType
  <1>7. left' \in [Counted -> Nat]
    BY <1>1, <1>2, CountedDown DEF Counted
  <1>8. TypeOK'
    <2>1. UiType' /\ NodeType'
      BY <1>1, <1>2, <1>4, <1>7 DEF TypeOK, UiType, NodeType
    <2>2. CallbackType'
      BY <1>1, <1>2, <1>4, <1>5, <1>6 DEF TypeOK, CallbackType
    <2> QED
      BY <2>1, <2>2 DEF TypeOK
  <1>9. SeenIsPast' /\ KeysInv'
    BY <1>2, <1>4, KeysKept DEF IInv, SeenIsPast
  <1>10. TableInv'
    BY <1>2, <1>4, TableKept
  <1>11. OffsInv'
    <2>1. OneOff'
      <3>1. ASSUME NEW w \in Voices, NEW u \in Tracks, NEW x \in Tracks,
                   pending'[u][w] > 0, pending'[x][w] > 0
            PROVE  u = x
        <4>1. CASE w = v
          BY <1>5, <3>1, <4>1
        <4>2. CASE w # v
          BY <1>5, <3>1, <4>2 DEF IInv, OffsInv, OneOff
        <4> QED
          BY <4>1, <4>2
      <3> QED
        BY <3>1 DEF OneOff
    <2>2. OffsOfSteps'
      <3>1. ASSUME NEW w \in Voices, NEW u \in Tracks, pending'[u][w] > 0
            PROVE  by'[w] = "step" \/ <<0, w>> \notin gate'
        <4>1. CASE w = v
          <5>1. gated
            BY <1>5, <3>1, <4>1
          <5> QED
            BY <1>6, <4>1, <5>1
        <4>2. CASE w # v
          <5>1. by[w] = "step" \/ <<0, w>> \notin gate
            BY <1>5, <3>1, <4>2 DEF IInv, OffsInv, OffsOfSteps
          <5> QED
            BY <1>4, <1>6, <4>2, <5>1
        <4> QED
          BY <4>1, <4>2
      <3> QED
        BY <3>1 DEF OffsOfSteps
    <2>3. GatesClose'
      <3>1. ASSUME ~ ResetDue', NEW w \in Voices, <<0, w>> \in gate'
            PROVE  by'[w] = "endless step" \/ Closes(w)'
        <4>1. CASE w = v /\ gated
          <5>1. pending'[t][w] > 0
            BY <1>3, <1>5, <4>1
          <5> QED
            BY <1>2, <1>3, <5>1 DEF Closes
        <4>2. CASE w = v /\ ~ gated
          BY <1>6, <4>2
        <4>3. CASE w # v
          <5>1. <<0, w>> \in gate
            BY <1>4, <3>1, <4>3
          <5>2. ~ ResetDue
            BY <1>2, <1>4, <3>1 DEF ResetDue
          <5>3. by[w] = "endless step" \/ Closes(w)
            BY <5>1, <5>2 DEF IInv, OffsInv, GatesClose
          <5>4. DOMAIN tracks \subseteq Tracks
            BY <1>1, TrackFacts
          <5>5. \A u \in Tracks : pending'[u][w] = pending[u][w]
            BY <1>5, <4>3
          <5>6. Closes(w) => Closes(w)'
            BY <1>2, <5>4, <5>5 DEF Closes
          <5> QED
            BY <1>6, <4>3, <5>3, <5>6
        <4> QED
          BY <4>1, <4>2, <4>3
      <3> QED
        BY <3>1 DEF GatesClose
    <2> QED
      BY <2>1, <2>2, <2>3 DEF OffsInv
  <1>12. UsedAreOwned'
    <2>1. ASSUME NEW w \in Voices, w # v,
                 \/ w \in pool'.active \/ pool'.tail[w] > 0
                 \/ \E u \in Tracks : pending'[u][w] > 0 \/ \E r \in table'[u] : r.lid = <<0, w>>
          PROVE  pool'.owner[w] # NoOne
      <3>1. \A u \in Tracks : pending'[u][w] = pending[u][w]
        BY <1>5, <2>1
      <3>2. \/ w \in pool.active \/ pool.tail[w] > 0
            \/ \E u \in Tracks : pending[u][w] > 0 \/ \E r \in table[u] : r.lid = <<0, w>>
        BY <1>2, <1>4, <2>1, <3>1
      <3>3. pool.owner[w] # NoOne
        BY <3>2 DEF IInv, PoolInv, UsedAreOwned
      <3> QED
        BY <1>4, <2>1, <3>3
    <2> QED
      BY <1>3, <1>4, <2>1 DEF UsedAreOwned
  <1> QED
    BY <1>4, <1>8, <1>9, <1>10, <1>11, <1>12 DEF IInv, PoolInv

\* What a struck sampler changes of its pools.
LEMMA SamplerStruck ==
  ASSUME IInv, NEW t \in Tracks, NEW n \in Notes, NEW poly \in BOOLEAN,
         spools' = [spools EXCEPT ![t].pool = Struck(@, n, poly)]
  PROVE  /\ spools' \in [Tracks -> [pool : SamplerPool, of : Nat]]
         /\ \A u \in Tracks : Covers(spools'[u].pool.order)
         /\ <<spools[t].of, PickSampler(spools[t].pool, n, poly)>> \in Nat \X Voices
  <1> DEFINE p == spools[t].pool
             q == Struck(p, n, poly)
  <1>1. /\ spools \in [Tracks -> [pool : SamplerPool, of : Nat]]
        /\ \A u \in Tracks : Covers(spools[u].pool.order)
    BY DEF IInv, TypeOK, CallbackType, PoolInv, OrdersCover
  <1>2. p \in SamplerPool /\ Covers(p.order) /\ spools[t].of \in Nat
    BY <1>1
  <1>3. q \in SamplerPool /\ Covers(q.order) /\ PickSampler(p, n, poly) \in Voices
    BY <1>2, StruckFacts
  <1>4. spools' = [spools EXCEPT ![t] = [spools[t] EXCEPT !.pool = q]]
    OBVIOUS
  <1> HIDE DEF q
  <1>5. /\ [spools[t] EXCEPT !.pool = q] \in [pool : SamplerPool, of : Nat]
        /\ [spools[t] EXCEPT !.pool = q].pool = q
    BY <1>1, <1>3
  <1>6. spools' \in [Tracks -> [pool : SamplerPool, of : Nat]]
    BY <1>1, <1>4, <1>5
  <1>7. \A u \in Tracks : spools'[u].pool = IF u = t THEN q ELSE spools[u].pool
    BY <1>1, <1>4, <1>5
  <1> QED
    BY <1>1, <1>2, <1>3, <1>6, <1>7

LEMMA StepOnSamplerStep ==
  ASSUME IInv, NEW t \in Tracks, NEW n \in Notes, StepOnSampler(t, n)
  PROVE  IInv'
  <1>1. TypeOK
    BY DEF IInv
  <1>2. /\ UNCHANGED <<tracks, topology, pattern, held, told, inbox, loaded, phase, seen, pool, table,
                       pending, by, heard>>
        /\ spools' = [spools EXCEPT ![t].pool = Struck(@, n, tracks[t].poly)]
        /\ gate' \subseteq gate
        /\ left' = [left EXCEPT !["step"] = @ - 1] /\ left["step"] > 0
        /\ Kind(t) = "sampler"
    BY DEF StepOnSampler, uiVars
  <1>3. tracks[t].poly \in BOOLEAN
    BY <1>1, <1>2, TrackFacts DEF Kind
  <1>4. /\ spools' \in [Tracks -> [pool : SamplerPool, of : Nat]]
        /\ \A u \in Tracks : Covers(spools'[u].pool.order)
    BY <1>2, <1>3, SamplerStruck
  <1>5. left' \in [Counted -> Nat]
    BY <1>1, <1>2, CountedDown DEF Counted
  <1>6. TypeOK'
    <2>1. UiType' /\ NodeType'
      BY <1>1, <1>2, <1>5 DEF TypeOK, UiType, NodeType
    <2>2. CallbackType'
      BY <1>1, <1>2, <1>4 DEF TypeOK, CallbackType
    <2> QED
      BY <2>1, <2>2 DEF TypeOK
  <1>7. SeenIsPast' /\ KeysInv'
    BY <1>2, KeysKept DEF IInv, SeenIsPast
  <1>8. TableInv'
    BY <1>2, TableKept
  <1>9. OffsInv'
    BY <1>2 DEF IInv, OffsInv, OneOff, OffsOfSteps, GatesClose, Closes, ResetDue
  <1>10. PoolInv'
    BY <1>2, <1>4 DEF IInv, PoolInv, OrdersCover, GatesActive, ActiveEnabled, UsedAreOwned
  <1> QED
    BY <1>6, <1>7, <1>8, <1>9, <1>10 DEF IInv

LEMMA KeyOnSamplerStep ==
  ASSUME IInv, KeyOnSampler
  PROVE  IInv'
  <1> DEFINE k == Head(inbox)
             t == k.track
             n == k.note
             poly == PolyOf(t)
             lid == <<spools[t].of, PickSampler(spools[t].pool, n, poly)>>
             new == [note |-> n, lid |-> lid]
  <1>1. TypeOK /\ TakeKey /\ k.on /\ t <= seen.count /\ OnSampler(t)
    BY DEF IInv, KeyOnSampler
  <1>2. k \in Message /\ inbox' \in Seq(Message)
    BY <1>1, TakenFacts
  <1>3. t \in Tracks /\ n \in Notes
    BY <1>2 DEF Message
  <1>4. k = On(t, n) /\ k = inbox[1] /\ 1 \in 1..Len(inbox)
    BY <1>1, TakenFacts
  <1>5. /\ spools' = [spools EXCEPT ![t].pool = Struck(@, n, poly)]
        /\ gate' = IF SamplerNode(lid) THEN gate \cup {lid} ELSE gate
        /\ table' = Stored(t, n, lid)
        /\ UNCHANGED <<loaded, phase, seen, pool, pending, by, heard>>
    BY DEF KeyOnSampler
  <1>6. UNCHANGED <<tracks, topology, pattern, held, told, left>>
    BY <1>1 DEF TakeKey, CallbackElse, uiVars
  <1>7. Kind(t) # "engine" /\ spools[t].of # 0
    BY <1>1 DEF OnSampler
  <1>8. poly \in BOOLEAN
    BY <1>1, TrackFacts DEF PolyOf
  <1> HIDE DEF k, t, n, poly
  <1>9. /\ spools' \in [Tracks -> [pool : SamplerPool, of : Nat]]
        /\ \A u \in Tracks : Covers(spools'[u].pool.order)
        /\ lid \in Nat \X Voices
    BY <1>3, <1>5, <1>8, SamplerStruck
  <1>10. lid[1] # 0 /\ \A w \in Voices : <<0, w>> # lid
    BY <1>7
  <1> HIDE DEF lid
  <1>11. /\ table' \in [Tracks -> SUBSET Record]
         /\ new \in table'[t]
         /\ \A u \in Tracks : \A r \in table'[u] : r \in table[u] \/ (u = t /\ r = new)
         /\ \A r \in table'[t] : r.note = n => r = new
         /\ \A u \in Tracks : \A r \in table[u] :
              r \in table'[u] \/ r.lid = lid \/ (u = t /\ r.note = n)
    BY <1>1, <1>3, <1>5, <1>9, StoredFacts
  <1>12. TypeOK'
    <2>1. gate' \subseteq Nat \X Voices
      BY <1>1, <1>5, <1>9 DEF TypeOK, NodeType
    <2>2. UiType' /\ NodeType'
      BY <1>1, <1>2, <1>5, <1>6, <2>1 DEF TypeOK, UiType, NodeType
    <2>3. CallbackType'
      BY <1>1, <1>5, <1>9, <1>11 DEF TypeOK, CallbackType
    <2> QED
      BY <2>2, <2>3 DEF TypeOK
  <1>13. SeenIsPast' /\ KeysInv'
    BY <1>1, <1>5, <1>6, KeysAfterTake DEF IInv, SeenIsPast
  <1>14. \A u \in Tracks, m \in Notes : k # Off(u, m)
    BY <1>4 DEF On, Off
  <1>15. \A r \in table[t] : r.note # n
    <2>1. ASSUME NEW r \in table[t], r.note = n PROVE FALSE
      <3>1. \E m \in 1..1 - 1 : inbox[m] = Off(t, r.note)
        BY <1>3, <1>4, <2>1 DEF IInv, TableInv, RecordsBeforeOns
      <3> QED
        BY <3>1
    <2> QED
      BY <2>1
  <1>16. TableInv'
    <2>1. ASSUME NEW u \in Tracks, NEW r \in table'[u]
          PROVE  Justified(u, r.note)'
      <3>1. CASE r \in table[u]
        <4>1. r.note \in Notes
          BY <1>1, <3>1, RecordFacts
        <4>2. Head(inbox) # Off(u, r.note)
          BY <1>14, <4>1 DEF k
        <4> QED
          BY <1>1, <3>1, <4>2, OldRecordsJustified
      <3>2. CASE u = t /\ r = new
        <4>1. r.note = n
          BY <3>2
        <4>2. Head(inbox) = On(t, n)
          BY <1>4 DEF k
        <4> QED
          BY <1>1, <1>3, <3>2, <4>1, <4>2, NewRecordJustified
      <3> QED
        BY <1>11, <3>1, <3>2
    <2>2. RecordsLive' /\ RecordsBeforeOns'
      BY <2>1 DEF RecordsLive, RecordsBeforeOns, Justified, On, Off
    <2>3. RecordsUnique'
      BY <1>11 DEF IInv, TableInv, RecordsUnique
    <2>4. RecordsCounted'
      <3>1. ASSUME NEW u \in Tracks, u > seen.count PROVE table'[u] = {}
        <4>1. u # t /\ table[u] = {}
          <5>1. seen.count \in Tracks
            BY <1>1 DEF TypeOK, CallbackType
          <5>2. \A x \in Tracks : x \in Int
            BY PoolAssumption
          <5>3. u # t
            BY <1>1, <1>3, <3>1, <5>1, <5>2 DEF t, k
          <5> QED
            BY <3>1, <5>3 DEF IInv, TableInv, RecordsCounted
        <4> QED
          BY <1>11, <4>1
      <3> QED
        BY <1>5, <3>1 DEF RecordsCounted
    <2>5. RecordsOfEngine'
      <3>1. (ResetDue' <=> ResetDue) /\ \A u \in Tracks : Kind(u)' = Kind(u)
        BY <1>5, <1>6 DEF ResetDue, Kind
      <3>2. new.lid[1] # 0
        BY <1>10
      <3> QED
        BY <1>11, <3>1, <3>2 DEF IInv, TableInv, RecordsOfEngine
    <2> QED
      BY <2>2, <2>3, <2>4, <2>5 DEF TableInv
  <1>17. \A w \in Voices : <<0, w>> \in gate' <=> <<0, w>> \in gate
    BY <1>5, <1>10
  <1>18. OffsInv'
    <2>1. OneOff' /\ OffsOfSteps'
      BY <1>5, <1>17 DEF IInv, OffsInv, OneOff, OffsOfSteps
    <2>2. DOMAIN tracks \subseteq Tracks
      BY <1>1, TrackFacts
    <2>3. \A w \in Voices, u \in Tracks : \A r \in table[u] : r.lid = <<0, w>> => r \in table'[u]
      BY <1>10, <1>11, <1>15
    <2>4. \A w \in Voices : Closes(w) => Closes(w)'
      BY <1>5, <1>6, <2>2, <2>3 DEF Closes
    <2>5. GatesClose'
      BY <1>5, <1>6, <1>17, <2>4 DEF IInv, OffsInv, GatesClose, ResetDue
    <2> QED
      BY <2>1, <2>5 DEF OffsInv
  <1>19. PoolInv'
    <2>1. OrdersCover' /\ GatesActive' /\ ActiveEnabled'
      BY <1>5, <1>9, <1>17 DEF IInv, PoolInv, OrdersCover, GatesActive, ActiveEnabled
    <2>2. \A w \in Voices, u \in Tracks : \A r \in table'[u] : r.lid = <<0, w>> => r \in table[u]
      BY <1>10, <1>11
    <2>3. UsedAreOwned'
      BY <1>5, <2>2 DEF IInv, PoolInv, UsedAreOwned
    <2> QED
      BY <2>1, <2>3 DEF PoolInv
  <1> QED
    BY <1>12, <1>13, <1>16, <1>18, <1>19 DEF IInv

\* A note-off either releases the voice of a record and closes its gate, or ends a
\* note of a sampler.
LEMMA KeyOffStep ==
  ASSUME IInv, KeyOff
  PROVE  IInv'
  <1> DEFINE k == Head(inbox)
             t == k.track
             n == k.note
  <1>1. TypeOK /\ TakeKey /\ ~ k.on /\ t <= seen.count
    BY DEF IInv, KeyOff
  <1>2. k \in Message /\ inbox' \in Seq(Message)
    BY <1>1, TakenFacts
  <1>3. t \in Tracks /\ n \in Notes
    BY <1>2 DEF Message
  <1>4. k = Off(t, n)
    BY <1>1, TakenFacts
  <1>5. UNCHANGED <<tracks, topology, pattern, held, told, left, loaded, phase, seen, pending, by, heard>>
    BY <1>1 DEF KeyOff, TakeKey, CallbackElse, uiVars
  <1>6. PICK r \in table[t] :
          /\ r.note = n
          /\ table' = [table EXCEPT ![t] = @ \ {r}]
          /\ IF Kind(t) = "engine"
               THEN /\ pool' = IF r.lid[1] = 0 THEN Released(pool, {r.lid[2]}) ELSE pool
                    /\ gate' = gate \ ({r.lid} \cap EngineIds)
                    /\ UNCHANGED spools
               ELSE /\ spools' = IF r.lid[1] = spools[t].of
                                   THEN [spools EXCEPT ![t].pool.active = @ \ {r.lid[2]}]
                                   ELSE spools
                    /\ gate' = gate \ ({r.lid} \ EngineIds)
                    /\ UNCHANGED pool
    BY DEF KeyOff
  <1> DEFINE w == r.lid[2]
             ends == Kind(t) = "engine" /\ r.lid[1] = 0
  <1> HIDE DEF k, t, n
  <1>7. r \in Record /\ r.lid \in Nat \X Voices /\ w \in Voices
    BY <1>1, <1>3, RecordFacts
  <1>8. table \in [Tracks -> SUBSET Record] /\ pool \in CustomPool /\ gate \subseteq Nat \X Voices
    BY <1>1 DEF TypeOK, NodeType, CallbackType
  <1>9. /\ table' \in [Tracks -> SUBSET Record]
        /\ \A u \in Tracks : table'[u] = IF u = t THEN table[u] \ {r} ELSE table[u]
    BY <1>3, <1>6, <1>8
  <1>10. gate' \subseteq gate
    BY <1>6
  <1>11. /\ pool' \in CustomPool /\ pool'.order = pool.order /\ pool'.owner = pool.owner
         /\ pool'.enabled = pool.enabled /\ pool'.active \subseteq pool.active
         /\ \A x \in Voices : <<0, x>> \in gate' /\ x \in pool.active => x \in pool'.active
         /\ \A x \in Voices : pool'.tail[x] > 0 => pool.tail[x] > 0 \/ pool.owner[x] # NoOne
    <2>1. CASE ends
      <3>1. /\ pool' = Released(pool, {w}) /\ r.lid = <<0, w>>
            /\ gate' = gate \ ({r.lid} \cap EngineIds)
        BY <1>6, <1>7, <2>1
      <3> HIDE DEF w
      <3>2. r.lid \in EngineIds
        BY <1>7, <3>1 DEF EngineIds
      <3>3. <<0, w>> \notin gate'
        BY <3>1, <3>2
      <3>4. /\ pool' \in CustomPool /\ pool'.order = pool.order /\ pool'.active = pool.active \ {w}
            /\ \A x \in Voices : x # w => pool'.tail[x] = pool.tail[x]
            /\ pool'.owner = pool.owner /\ pool'.enabled = pool.enabled
        BY <1>7, <1>8, <3>1, ReleasedFacts
      <3>5. pool.owner[w] # NoOne
        BY <1>3, <1>7, <3>1 DEF IInv, PoolInv, UsedAreOwned
      <3> QED
        BY <3>3, <3>4, <3>5
    <2>2. CASE ~ ends
      <3>1. pool' = pool
        BY <1>6, <2>2
      <3> QED
        BY <1>8, <3>1
    <2> QED
      BY <2>1, <2>2
  <1>12. /\ spools' \in [Tracks -> [pool : SamplerPool, of : Nat]]
         /\ \A u \in Tracks : spools'[u].pool.order = spools[u].pool.order
    <2>1. spools \in [Tracks -> [pool : SamplerPool, of : Nat]]
      BY <1>1 DEF TypeOK, CallbackType
    <2>2. CASE spools' = spools
      BY <2>1, <2>2
    <2>3. CASE spools' = [spools EXCEPT ![t].pool.active = @ \ {w}]
      <3> DEFINE p == spools[t].pool
                 q == [p EXCEPT !.active = @ \ {w}]
                 entry == [spools[t] EXCEPT !.pool = q]
      <3>1. p \in SamplerPool /\ spools[t] \in [pool : SamplerPool, of : Nat]
        BY <1>3, <2>1
      <3>2. q \in SamplerPool /\ q.order = p.order
        BY <3>1 DEF SamplerPool
      <3>3. spools' = [spools EXCEPT ![t] = entry]
        BY <2>3
      <3> HIDE DEF q
      <3>4. entry \in [pool : SamplerPool, of : Nat] /\ entry.pool = q
        BY <3>1, <3>2
      <3> HIDE DEF entry
      <3>5. spools' \in [Tracks -> [pool : SamplerPool, of : Nat]]
        BY <2>1, <3>3, <3>4
      <3>6. \A u \in Tracks : spools'[u] = IF u = t THEN entry ELSE spools[u]
        BY <2>1, <3>3
      <3> QED
        BY <3>2, <3>4, <3>5, <3>6
    <2> QED
      BY <1>6, <2>2, <2>3
  <1>13. Kind(t) = "engine" /\ r.lid[1] = 0 => r.lid \notin gate'
    <2>1. ASSUME Kind(t) = "engine", r.lid[1] = 0 PROVE r.lid \notin gate'
      <3>1. r.lid = <<0, w>>
        BY <1>7, <2>1
      <3>2. r.lid \in EngineIds
        BY <1>7, <3>1 DEF EngineIds
      <3>3. gate' = gate \ ({r.lid} \cap EngineIds)
        BY <1>6, <2>1
      <3> QED
        BY <3>2, <3>3
    <2> QED
      BY <2>1
  <1> HIDE DEF w, ends
  <1>14. TypeOK'
    <2>1. UiType' /\ NodeType'
      BY <1>1, <1>2, <1>5, <1>10 DEF TypeOK, UiType, NodeType
    <2>2. CallbackType'
      BY <1>1, <1>5, <1>9, <1>11, <1>12 DEF TypeOK, CallbackType
    <2> QED
      BY <2>1, <2>2 DEF TypeOK
  <1>15. SeenIsPast' /\ KeysInv'
    BY <1>1, <1>5, KeysAfterTake DEF IInv, SeenIsPast
  <1>16. \A u \in Tracks : table'[u] \subseteq table[u]
    BY <1>9
  <1>17. TableInv'
    <2>1. ASSUME NEW u \in Tracks, NEW s \in table'[u]
          PROVE  Justified(u, s.note)'
      <3>1. s \in table[u] /\ ~ (u = t /\ s = r)
        BY <1>9, <2>1
      <3>2. ~ (u = t /\ s.note = n)
        BY <1>3, <1>6, <3>1 DEF IInv, TableInv, RecordsUnique
      <3>3. Head(inbox) # Off(u, s.note)
        <4>1. Off(t, n) # Off(u, s.note)
          BY <3>2 DEF Off
        <4> QED
          BY <1>4, <4>1 DEF k
      <3> QED
        BY <1>1, <3>1, <3>3, OldRecordsJustified
    <2>2. RecordsLive' /\ RecordsBeforeOns'
      BY <2>1 DEF RecordsLive, RecordsBeforeOns, Justified, On, Off
    <2>3. RecordsUnique' /\ RecordsCounted'
      BY <1>5, <1>16 DEF IInv, TableInv, RecordsUnique, RecordsCounted
    <2>4. RecordsOfEngine'
      BY <1>5, <1>16 DEF IInv, TableInv, RecordsOfEngine, ResetDue, Kind
    <2> QED
      BY <2>2, <2>3, <2>4 DEF TableInv
  <1>18. OffsInv'
    <2>1. OneOff' /\ OffsOfSteps'
      BY <1>5, <1>10 DEF IInv, OffsInv, OneOff, OffsOfSteps
    <2>2. ASSUME ~ ResetDue', NEW x \in Voices, <<0, x>> \in gate'
          PROVE  by'[x] = "endless step" \/ Closes(x)'
      <3>1. ~ ResetDue /\ <<0, x>> \in gate
        BY <1>5, <1>10, <2>2 DEF ResetDue
      <3>2. by[x] = "endless step" \/ Closes(x)
        BY <3>1 DEF IInv, OffsInv, GatesClose
      <3>3. DOMAIN tracks \subseteq Tracks
        BY <1>1, TrackFacts
      <3>4. ASSUME NEW u \in DOMAIN tracks, NEW s \in table[u], s.lid = <<0, x>>
            PROVE  s \in table'[u]
        <4>1. SUFFICES ASSUME u = t, s = r PROVE FALSE
          BY <1>9, <3>3
        <4>2. r.lid[1] = 0 /\ r.lid \in gate'
          BY <2>2, <3>4, <4>1
        <4>3. Kind(t) = "engine"
          BY <1>3, <3>1, <4>2 DEF IInv, TableInv, RecordsOfEngine
        <4> QED
          BY <1>13, <4>2, <4>3
      <3>5. Closes(x) => Closes(x)'
        BY <1>5, <3>4 DEF Closes
      <3> QED
        BY <1>5, <3>2, <3>5
    <2>3. GatesClose'
      BY <2>2 DEF GatesClose
    <2> QED
      BY <2>1, <2>3 DEF OffsInv
  <1>19. PoolInv'
    <2>1. OrdersCover' /\ ActiveEnabled'
      BY <1>11, <1>12 DEF IInv, PoolInv, OrdersCover, ActiveEnabled
    <2>2. GatesActive'
      BY <1>10, <1>11 DEF IInv, PoolInv, GatesActive
    <2>3. ASSUME NEW x \in Voices,
                 \/ x \in pool'.active \/ pool'.tail[x] > 0
                 \/ \E u \in Tracks : pending'[u][x] > 0 \/ \E s \in table'[u] : s.lid = <<0, x>>
          PROVE  pool'.owner[x] # NoOne
      <3>1. \/ x \in pool.active \/ pool.tail[x] > 0 \/ pool.owner[x] # NoOne
            \/ \E u \in Tracks : pending[u][x] > 0 \/ \E s \in table[u] : s.lid = <<0, x>>
        BY <1>5, <1>11, <1>16, <2>3
      <3>2. pool.owner[x] # NoOne
        BY <3>1 DEF IInv, PoolInv, UsedAreOwned
      <3> QED
        BY <1>11, <3>2
    <2>4. UsedAreOwned'
      BY <2>3 DEF UsedAreOwned
    <2> QED
      BY <2>1, <2>2, <2>4 DEF PoolInv
  <1> QED
    BY <1>14, <1>15, <1>17, <1>18, <1>19 DEF IInv

LEMMA HousekeepStep ==
  ASSUME IInv, Housekeep
  PROVE  IInv'
  <1> DEFINE p == IF seen.pattern # pattern THEN Forgotten(pool) ELSE pool
             X == {v \in Voices : \E t \in 1..seen.count : pending[t][v] = 1 /\ Kind(t) = "engine"}
             q == Released(p, X)
  <1>1. TypeOK
    BY DEF IInv
  <1>2. /\ UNCHANGED <<tracks, topology, pattern, held, told, left, inbox, loaded, spools, table, by, heard>>
        /\ phase' = "render" /\ pool' = Shrunk(q)
        /\ seen' = [seen EXCEPT !.pattern = pattern]
        /\ pending' = [t \in Tracks |-> [v \in Voices |->
                         IF t <= seen.count /\ pending[t][v] > 0 THEN pending[t][v] - 1
                                                                 ELSE pending[t][v]]]
        /\ gate' = gate \ {<<0, v>> : v \in Expired}
    BY DEF Housekeep, CallbackElse, uiVars, ExpiredPool
  <1>3. /\ seen \in [count : Tracks, topology : Nat, pattern : {-1, 0, 1}, engine : BOOLEAN]
        /\ pool \in CustomPool /\ pending \in [Tracks -> [Voices -> Nat]]
        /\ pattern \in {0, 1}
    BY <1>1 DEF TypeOK, UiType, CallbackType
  <1>4. /\ p \in CustomPool /\ p.order = pool.order /\ p.active = pool.active
        /\ p.tail = pool.tail /\ p.owner = pool.owner /\ p.enabled = pool.enabled
    BY <1>3, ForgottenFacts
  <1> HIDE DEF p
  <1>5. /\ q \in CustomPool /\ q.order = p.order /\ q.active = p.active \ X
        /\ \A w \in Voices : q.tail[w] = IF w \in X THEN ReleaseLen + 1 ELSE p.tail[w]
        /\ q.owner = p.owner /\ q.enabled = p.enabled
    BY <1>4, ReleasedFacts
  <1> HIDE DEF q
  <1>6. /\ pool' \in CustomPool /\ pool'.order = q.order /\ pool'.active = q.active
        /\ \A w \in Voices : pool'.tail[w] = IF q.tail[w] > 0 THEN q.tail[w] - 1 ELSE 0
        /\ pool'.owner = q.owner
        /\ \A w \in Voices : w \in pool'.active \/ pool'.tail[w] > 0 =>
             (w <= q.enabled => w <= pool'.enabled)
    BY <1>2, <1>5, ShrunkFacts
  <1>7. 1..seen.count \subseteq Tracks
    <2>1. seen.count \in 1..Cardinality(Tracks) /\ Cardinality(Tracks) \in Nat
      BY <1>1, <1>3, TrackFacts, VoicesAssumption
    <2>2. 1..seen.count \subseteq 1..Cardinality(Tracks)
      BY <2>1
    <2> QED
      BY <2>2, VoicesAssumption
  <1>8. X \subseteq Expired /\ Expired \subseteq Voices
    BY DEF Expired
  <1>9. /\ pending' \in [Tracks -> [Voices -> Nat]]
        /\ \A t \in Tracks, v \in Voices : pending'[t][v] > 0 => pending[t][v] > 0
    <2>1. ASSUME NEW t \in Tracks, NEW v \in Voices
          PROVE  (IF t <= seen.count /\ pending[t][v] > 0 THEN pending[t][v] - 1
                                                          ELSE pending[t][v]) \in Nat
      <3>1. pending[t][v] \in Nat
        BY <1>3
      <3> QED
        BY <3>1
    <2>2. \A t \in Tracks, v \in Voices :
            pending'[t][v] = IF t <= seen.count /\ pending[t][v] > 0 THEN pending[t][v] - 1
                                                                     ELSE pending[t][v]
      BY <1>2
    <2>3. pending' \in [Tracks -> [Voices -> Nat]]
      BY <1>2, <2>1
    <2> QED
      BY <1>3, <2>2, <2>3
  <1>10. ASSUME NEW t \in 1..seen.count, NEW v \in Voices \ Expired, pending[t][v] > 0
         PROVE  pending'[t][v] > 0
    <2>1. t \in Tracks /\ t <= seen.count /\ pending[t][v] \in Nat /\ pending[t][v] # 1
      BY <1>3, <1>7, <1>10 DEF Expired
    <2>2. pending'[t][v] = pending[t][v] - 1
      BY <1>2, <1>10, <2>1
    <2> QED
      BY <1>10, <2>1, <2>2
  <1> HIDE DEF X
  <1>11. /\ seen' \in [count : Tracks, topology : Nat, pattern : {-1, 0, 1}, engine : BOOLEAN]
         /\ seen'.count = seen.count /\ seen'.topology = seen.topology
    BY <1>2, <1>3
  <1>12. gate' \subseteq gate
    BY <1>2
  <1>13. TypeOK'
    <2>1. UiType' /\ NodeType'
      BY <1>1, <1>2, <1>12 DEF TypeOK, UiType, NodeType
    <2>2. CallbackType'
      BY <1>1, <1>2, <1>6, <1>9, <1>11 DEF TypeOK, CallbackType
    <2> QED
      BY <2>1, <2>2 DEF TypeOK
  <1>14. SeenIsPast' /\ KeysInv'
    BY <1>2, <1>11, KeysKept DEF IInv, SeenIsPast
  <1>15. (ResetDue' <=> ResetDue) /\ \A t \in Tracks : Kind(t)' = Kind(t)
    BY <1>2, <1>11 DEF ResetDue, Kind
  <1>16. TableInv'
    <2>1. RecordsLive' /\ RecordsBeforeOns'
      BY <1>2 DEF IInv, TableInv, RecordsLive, RecordsBeforeOns, Pressed, On, Off
    <2>2. RecordsUnique' /\ RecordsCounted' /\ RecordsOfEngine'
      BY <1>2, <1>11, <1>15 DEF IInv, TableInv, RecordsUnique, RecordsCounted, RecordsOfEngine
    <2> QED
      BY <2>1, <2>2 DEF TableInv
  <1>17. OffsInv'
    <2>1. OneOff' /\ OffsOfSteps'
      BY <1>2, <1>9, <1>12 DEF IInv, OffsInv, OneOff, OffsOfSteps
    <2>2. ASSUME ~ ResetDue', NEW v \in Voices, <<0, v>> \in gate'
          PROVE  by'[v] = "endless step" \/ Closes(v)'
      <3>1. ~ ResetDue /\ <<0, v>> \in gate /\ v \notin Expired
        BY <1>2, <1>15, <2>2
      <3>2. by[v] = "endless step" \/ Closes(v)
        BY <3>1 DEF IInv, OffsInv, GatesClose
      <3>3. DOMAIN tracks = 1..seen.count
        BY <1>1, <3>1, TrackFacts DEF ResetDue
      <3>4. \A t \in DOMAIN tracks : pending[t][v] > 0 => pending'[t][v] > 0
        BY <1>10, <3>1, <3>3
      <3>5. Closes(v) => Closes(v)'
        BY <1>2, <3>4 DEF Closes
      <3> QED
        BY <1>2, <3>2, <3>5
    <2>3. GatesClose'
      BY <2>2 DEF GatesClose
    <2> QED
      BY <2>1, <2>3 DEF OffsInv
  <1>18. PoolInv'
    <2>1. OrdersCover'
      BY <1>2, <1>4, <1>5, <1>6 DEF IInv, PoolInv, OrdersCover
    <2>2. pool'.active = pool.active \ X /\ pool.active \subseteq Voices
      BY <1>3, <1>4, <1>5, <1>6 DEF CustomPool
    <2>3. GatesActive'
      <3>1. ASSUME NEW v \in Voices, <<0, v>> \in gate' PROVE v \in pool'.active
        <4>1. <<0, v>> \in gate /\ v \notin X
          BY <1>2, <1>8, <3>1
        <4> QED
          BY <2>2, <4>1 DEF IInv, PoolInv, GatesActive
      <3> QED
        BY <3>1 DEF GatesActive
    <2>4. ActiveEnabled'
      <3>1. ASSUME NEW v \in pool'.active PROVE v <= pool'.enabled
        <4>1. v \in Voices /\ v <= pool.enabled
          BY <2>2 DEF IInv, PoolInv, ActiveEnabled
        <4>2. v <= q.enabled
          BY <1>4, <1>5, <4>1
        <4> QED
          BY <1>6, <4>1, <4>2
      <3> QED
        BY <3>1 DEF ActiveEnabled
    <2>5. ASSUME NEW v \in Voices,
                 \/ v \in pool'.active \/ pool'.tail[v] > 0
                 \/ \E t \in Tracks : pending'[t][v] > 0 \/ \E r \in table'[t] : r.lid = <<0, v>>
          PROVE  pool'.owner[v] # NoOne
      <3>1. pool'.tail[v] > 0 => v \in X \/ pool.tail[v] > 0
        <4>1. ASSUME pool'.tail[v] > 0, v \notin X PROVE pool.tail[v] > 0
          <5>1. q.tail[v] = pool.tail[v]
            BY <1>4, <1>5, <4>1
          <5> QED
            BY <1>6, <4>1, <5>1
        <4> QED
          BY <4>1
      <3>2. v \in X => \E t \in Tracks : pending[t][v] > 0
        BY <1>7 DEF X
      <3>3. \/ v \in pool.active \/ pool.tail[v] > 0
            \/ \E t \in Tracks : pending[t][v] > 0 \/ \E r \in table[t] : r.lid = <<0, v>>
        BY <1>2, <1>9, <2>2, <2>5, <3>1, <3>2
      <3>4. pool.owner[v] # NoOne
        BY <3>3 DEF IInv, PoolInv, UsedAreOwned
      <3> QED
        BY <1>4, <1>5, <1>6, <3>4
    <2>6. UsedAreOwned'
      BY <2>5 DEF UsedAreOwned
    <2> QED
      BY <2>1, <2>3, <2>4, <2>6 DEF PoolInv
  <1> QED
    BY <1>13, <1>14, <1>16, <1>17, <1>18 DEF IInv

-----------------------------------------------------------------------------
(* The invariant *)

LEMMA InitEstablishes ==
  ASSUME Init
  PROVE  IInv
  <1>1. PICK kinds \in Lineups : tracks = [t \in DOMAIN kinds |-> NewTrack(kinds[t], t)]
    BY DEF Init
  <1>2. /\ kinds \in Seq({"engine", "sampler"}) /\ Len(kinds) \in Tracks
        /\ DOMAIN kinds = 1..Len(kinds) /\ Len(kinds) \in Nat
    BY VoicesAssumption, LenProperties
  <1>3. \A t \in 1..Len(kinds) : NewTrack(kinds[t], t) \in Track
    <2>1. DefaultPoly \in 1..MaxPoly /\ 1 \in Prints
      BY VoicesAssumption, PoolAssumption DEF Voices
    <2>2. \A t \in 1..Len(kinds) : kinds[t] \in {"engine", "sampler"} /\ t \in Nat
      BY <1>2
    <2> QED
      BY <2>1, <2>2 DEF NewTrack, Track
  <1>4. tracks \in [1..Len(kinds) -> Track]
    BY <1>1, <1>2, <1>3
  <1>5. tracks \in Seq(Track) /\ Len(tracks) \in Tracks
    BY <1>2, <1>4, FunctionIsSeq
  <1>6. UiType /\ NodeType
    <2>1. /\ topology = 0 /\ pattern = 0 /\ held = {} /\ inbox = << >> /\ left \in Budgets
          /\ told = 1
          /\ gate = {} /\ loaded = [v \in Voices |-> 1]
      BY DEF Init
    <2> QED
      BY <1>5, <2>1, VoicesAssumption DEF UiType, NodeType
  <1>7. \A t \in Tracks : /\ Synced(t) \in [pool : SamplerPool, of : Nat]
                          /\ Synced(t).pool = NewSamplerPool
    <2>1. ASSUME NEW t \in Tracks
          PROVE  (IF Kind(t) = "sampler" THEN tracks[t].id ELSE 0) \in Nat
      <3>1. Kind(t) = "sampler" => t \in 1..Len(kinds)
        BY <1>4 DEF Kind
      <3> QED
        BY <1>4, <3>1 DEF Track
    <2> QED
      BY <2>1, NewFacts DEF Synced
  <1>8. /\ phase = "idle" /\ seen = Seen /\ pool = NewCustomPool
        /\ spools = [t \in Tracks |-> Synced(t)] /\ table = NoNotes /\ pending = NoPending
        /\ by = [v \in Voices |-> "nothing"] /\ heard = [asked |-> 1, got |-> 1, told |-> 1]
        /\ topology = 0 /\ inbox = << >> /\ gate = {}
    BY DEF Init
  <1>9. CallbackType
    <2>1. Seen \in [count : Tracks, topology : Nat, pattern : {-1, 0, 1}, engine : BOOLEAN]
      BY <1>5, <1>8 DEF Seen
    <2>2. spools \in [Tracks -> [pool : SamplerPool, of : Nat]]
      BY <1>7, <1>8
    <2>3. table \in [Tracks -> SUBSET Record] /\ pending \in [Tracks -> [Voices -> Nat]]
      BY <1>8 DEF NoNotes, NoPending
    <2>4. /\ heard \in [asked : Prints, got : Prints, told : Prints]
          /\ by \in [Voices -> {"nothing", "key", "step", "endless step"}]
      BY <1>8, VoicesAssumption
    <2> QED
      BY <1>8, <2>1, <2>2, <2>3, <2>4, NewFacts DEF CallbackType
  <1>10. SeenIsPast
    BY <1>8 DEF SeenIsPast, Seen
  <1>11. /\ \A t \in Tracks : table[t] = {}
         /\ \A t \in Tracks, v \in Voices : ~ pending[t][v] > 0
         /\ \A v \in Voices : ~ pool.tail[v] > 0
         /\ \A t \in Tracks : spools[t].pool = NewSamplerPool
    BY <1>7, <1>8, NewFacts DEF NoNotes, NoPending
  <1>12. KeysInv
    BY <1>8 DEF KeysInv, OnsAreHeld, OnsAlternate
  <1>13. TableInv
    BY <1>11 DEF TableInv, RecordsLive, RecordsBeforeOns, RecordsUnique, RecordsCounted,
       RecordsOfEngine
  <1>14. OffsInv
    BY <1>8, <1>11 DEF OffsInv, OneOff, OffsOfSteps, GatesClose
  <1>15. PoolInv
    BY <1>8, <1>11, NewFacts DEF PoolInv, OrdersCover, GatesActive, ActiveEnabled, UsedAreOwned
  <1> QED
    BY <1>6, <1>9, <1>10, <1>12, <1>13, <1>14, <1>15 DEF IInv, TypeOK

LEMMA NextKeeps == IInv /\ [Next]_vars => IInv'
  <1> SUFFICES ASSUME IInv, [Next]_vars PROVE IInv'
    OBVIOUS
  <1>1. CASE UI
    BY <1>1, DeleteTrackStep, SetPolyphonyStep, AddTrackStep, TweakStep, SwitchStep, PressStep,
       ReleaseStep DEF UI
  <1>2. CASE ResetForTopology
    BY <1>2, ResetStep
  <1>3. CASE Begin \/ End
    BY <1>3, PhaseStep DEF Begin, End
  <1>4. CASE IgnoreKey \/ KeyOnEngine \/ KeyOnSampler \/ KeyOff \/ Housekeep
    BY <1>4, IgnoreKeyStep, KeyOnEngineStep, KeyOnSamplerStep, KeyOffStep, HousekeepStep
  <1>5. ASSUME NEW t \in Tracks, NEW n \in Notes, StepOnSampler(t, n) PROVE IInv'
    BY <1>5, StepOnSamplerStep
  <1>6. ASSUME NEW t \in Tracks, NEW n \in Notes, NEW sound \in Prints, NEW len \in Lengths,
               NEW gated \in BOOLEAN, StepOnEngine(t, n, sound, len, gated)
        PROVE  IInv'
    BY <1>6, StepOnEngineStep
  <1>7. CASE UNCHANGED vars
    <2>1. phase \in {"idle", "keys", "render"}
      BY DEF IInv, TypeOK, CallbackType
    <2> QED
      BY <1>7, <2>1, PhaseStep DEF vars, uiVars, callbackVars, CallbackElse
  <1> QED
    BY <1>1, <1>2, <1>3, <1>4, <1>5, <1>6, <1>7 DEF Next, Callback

-----------------------------------------------------------------------------
(* Theorems *)

\* Every reachable state satisfies the inductive invariant.
THEOREM InvariantHolds == Spec => []IInv
  BY InitEstablishes, NextKeeps, PTL DEF Spec

\* The voices, records, countdowns and messages always are what they are taken for.
THEOREM TypeCorrect == Spec => []TypeOK
  <1>1. IInv => TypeOK
    BY DEF IInv
  <1> QED
    BY <1>1, InvariantHolds, PTL

\* A gate-off that counts down belongs to one track, and ends the step that its
\* voice plays: cancel_gate_off_for_lid leaves none of an older note behind.
THEOREM OffsAreRight == Spec => []OffsBelong
  <1>1. ASSUME IInv PROVE OffsBelong
    <2>1. ASSUME NEW v \in Voices
          PROVE  Cardinality({t \in Tracks : pending[t][v] > 0}) <= 1
      <3> DEFINE T == {t \in Tracks : pending[t][v] > 0}
      <3>1. \A t, u \in T : t = u
        BY <1>1 DEF IInv, OffsInv, OneOff
      <3>2. CASE T = {}
        <4>1. Cardinality({}) = 0
          BY FS_EmptySet
        <4>2. Cardinality(T) = 0
          BY <3>2, <4>1, Zenon
        <4> QED
          BY <4>2
      <3>3. CASE T # {}
        <4>1. PICK t \in T : TRUE
          BY <3>3
        <4>2. T = {t}
          BY <3>1, <4>1
        <4>3. Cardinality({t}) = 1
          BY FS_Singleton
        <4>4. Cardinality(T) = 1
          BY <4>2, <4>3, Zenon
        <4> QED
          BY <4>4
      <3> QED
        BY <3>2, <3>3
    <2>2. ASSUME NEW v \in Voices, \E t \in Tracks : pending[t][v] > 0
          PROVE  by[v] = "step" \/ <<0, v>> \notin gate
      BY <1>1, <2>2 DEF IInv, OffsInv, OffsOfSteps
    <2> QED
      BY <2>1, <2>2 DEF OffsBelong
  <1> QED
    BY <1>1, InvariantHolds, PTL

\* No note of the engine hangs: somebody will close its gate, through steals, mono
\* tracks and topology changes.
THEOREM NotesEnd == Spec => []EngineNotesEnd
  <1>1. ASSUME IInv, ~ ResetDue, NEW lid \in gate \cap EngineIds
        PROVE  by[lid[2]] = "endless step" \/ WillEnd(lid)
    <2>1. PICK v \in Voices : lid = <<0, v>>
      BY <1>1 DEF EngineIds
    <2>2. lid[1] = 0 /\ lid[2] = v
      BY <2>1
    <2>3. by[v] = "endless step" \/ Closes(v)
      BY <1>1, <2>1 DEF IInv, OffsInv, GatesClose
    <2>4. ASSUME NEW t \in DOMAIN tracks, pending[t][v] > 0 PROVE WillEnd(lid)
      BY <2>2, <2>4 DEF WillEnd
    <2>5. ASSUME NEW t \in DOMAIN tracks, NEW r \in table[t], r.lid = <<0, v>>
          PROVE  WillEnd(lid)
      <3>1. t \in Tracks
        BY <1>1, TrackFacts DEF IInv
      <3>2. Pressed(t, r.note) \/ \E j \in 1..Len(inbox) : inbox[j] = Off(t, r.note)
        BY <1>1, <3>1 DEF IInv, TableInv, RecordsLive
      <3>3. DOMAIN inbox = 1..Len(inbox)
        <4>1. inbox \in Seq(Message)
          BY <1>1 DEF IInv, TypeOK, UiType
        <4> QED
          BY <4>1, LenProperties
      <3>4. \/ [track |-> t, note |-> r.note] \in held
            \/ [track |-> t, note |-> r.note, on |-> FALSE] \in Range(inbox)
        BY <3>2, <3>3 DEF Pressed, Off, Range
      <3> QED
        BY <2>1, <2>5, <3>4 DEF WillEnd
    <2> QED
      BY <2>2, <2>3, <2>4, <2>5 DEF Closes
  <1>2. IInv => EngineNotesEnd
    BY <1>1 DEF EngineNotesEnd
  <1> QED
    BY <1>2, InvariantHolds, PTL

-----------------------------------------------------------------------------
(* What a step does to the engine's pool *)

LEMMA PoolChanges ==
  ASSUME IInv, [Next]_vars
  PROVE  \/ UNCHANGED pool \/ pool' = NewCustomPool \/ Housekeep
         \/ \E S \in SUBSET Voices : pool' = Released(pool, S)
         \/ \E t \in Tracks, n \in Notes, sound \in Prints :
              /\ t \in DOMAIN tracks
              /\ Strike(t, n, sound, Pick(pool, t, n, tracks[t].poly, tracks[t].cap))
  <1>1. TypeOK
    BY DEF IInv
  <1>2. CASE UI
    BY <1>2 DEF UI, DeleteTrack, SetPolyphony, AddTrack, TweakDefault, SwitchPattern, PressKey,
       ReleaseKey, callbackVars
  <1>3. CASE ResetForTopology
    BY <1>3 DEF ResetForTopology
  <1>4. CASE Begin \/ End \/ IgnoreKey \/ KeyOnSampler
    BY <1>4 DEF Begin, End, IgnoreKey, KeyOnSampler, callbackVars
  <1>5. CASE KeyOnEngine
    <2> DEFINE k == Head(inbox)
    <2>1. TakeKey /\ OnEngine(k.track)
      BY <1>5 DEF KeyOnEngine
    <2>2. k.track \in Tracks /\ k.note \in Notes
      BY <2>1, TakenFacts DEF Message
    <2>3. k.track \in DOMAIN tracks /\ tracks[k.track].sound \in Prints
      BY <1>1, <2>1, <2>2, PickTyped, TrackFacts
    <2>4. Strike(k.track, k.note, tracks[k.track].sound,
                 Pick(pool, k.track, k.note, tracks[k.track].poly, tracks[k.track].cap))
      BY <1>5 DEF KeyOnEngine
    <2> HIDE DEF k
    <2> QED
      BY <2>2, <2>3, <2>4
  <1>6. CASE KeyOff
    <2> DEFINE k == Head(inbox)
    <2>1. TakeKey
      BY <1>6 DEF KeyOff
    <2>2. k.track \in Tracks
      BY <2>1, TakenFacts DEF Message
    <2>3. PICK r \in table[k.track] :
            pool' = pool \/ pool' = Released(pool, {r.lid[2]})
      BY <1>6 DEF KeyOff
    <2> HIDE DEF k
    <2>4. r.lid \in Nat \X Voices
      BY <1>1, <2>2, RecordFacts
    <2>5. {r.lid[2]} \in SUBSET Voices
      BY <2>4
    <2> QED
      BY <2>3, <2>5
  <1>7. ASSUME NEW t \in Tracks, NEW n \in Notes, StepOnSampler(t, n) PROVE UNCHANGED pool
    BY <1>7 DEF StepOnSampler
  <1>8. ASSUME NEW t \in Tracks, NEW n \in Notes, NEW sound \in Prints, NEW len \in Lengths,
               NEW gated \in BOOLEAN, StepOnEngine(t, n, sound, len, gated)
        PROVE  /\ t \in DOMAIN tracks
               /\ Strike(t, n, sound, Pick(pool, t, n, tracks[t].poly, tracks[t].cap))
    <2>1. OnEngine(t) /\ Strike(t, n, sound, Pick(pool, t, n, tracks[t].poly, tracks[t].cap))
      BY <1>8 DEF StepOnEngine
    <2> QED
      BY <2>1, PickTyped
  <1>9. CASE UNCHANGED vars
    BY <1>9 DEF vars, callbackVars
  <1> QED
    BY <1>2, <1>3, <1>4, <1>5, <1>6, <1>7, <1>8, <1>9 DEF Next, Callback

\* Housekeeping ends notes and leaves the voices with their owners.
LEMMA HousekeepFacts ==
  ASSUME IInv, Housekeep
  PROVE  /\ pool'.owner = pool.owner
         /\ \A v \in Voices : v \in pool'.active \/ pool'.tail[v] > 0 =>
              (v <= pool.enabled => v <= pool'.enabled)
  <1> DEFINE p == IF seen.pattern # pattern THEN Forgotten(pool) ELSE pool
             X == {v \in Voices : \E t \in 1..seen.count : pending[t][v] = 1 /\ Kind(t) = "engine"}
             q == Released(p, X)
  <1>1. pool \in CustomPool
    BY DEF IInv, TypeOK, CallbackType
  <1>2. pool' = Shrunk(q)
    BY DEF Housekeep, ExpiredPool
  <1>3. p \in CustomPool /\ p.owner = pool.owner /\ p.enabled = pool.enabled
    BY <1>1, ForgottenFacts
  <1> HIDE DEF p
  <1>4. q \in CustomPool /\ q.owner = p.owner /\ q.enabled = p.enabled
    BY <1>3, ReleasedFacts
  <1> HIDE DEF q
  <1> QED
    BY <1>2, <1>3, <1>4, ShrunkFacts

-----------------------------------------------------------------------------
(* Theorems about steps *)

\* No step leaves a voice disabled that sounds, or that was run while it releases.
THEOREM SoundingVoicesRun == Spec => EnabledCovers
  <1>1. ASSUME IInv, IInv', [Next]_vars, NEW v \in Voices,
               <<0, v>> \in gate' \/ (v <= pool.enabled /\ v \in Releasing(pool'))
        PROVE  v <= pool'.enabled
    <2>1. pool \in CustomPool /\ Covers(pool.order) /\ Voices \subseteq Int /\ pool.enabled \in Int
      <3>1. pool \in CustomPool /\ Covers(pool.order)
        BY <1>1 DEF IInv, TypeOK, CallbackType, PoolInv, OrdersCover
      <3>2. Voices \subseteq Int
        BY DEF Voices
      <3>3. pool.enabled \in Voices
        BY <3>1 DEF CustomPool
      <3> QED
        BY <3>1, <3>2, <3>3
    <2>2. CASE <<0, v>> \in gate'
      BY <1>1, <2>2 DEF IInv, PoolInv, GatesActive, ActiveEnabled
    <2>3. CASE v <= pool.enabled /\ pool'.tail[v] > 0
      <3>1. CASE pool' = pool
        BY <2>3, <3>1
      <3>2. CASE pool' = NewCustomPool
        BY <2>3, <3>2, NewFacts
      <3>3. CASE Housekeep
        BY <1>1, <2>3, <3>3, HousekeepFacts
      <3>4. ASSUME NEW S \in SUBSET Voices, pool' = Released(pool, S)
            PROVE  v <= pool'.enabled
        BY <2>1, <2>3, <3>4, ReleasedFacts
      <3>5. ASSUME NEW t \in Tracks, NEW n \in Notes, NEW sound \in Prints, t \in DOMAIN tracks,
                   Strike(t, n, sound, Pick(pool, t, n, tracks[t].poly, tracks[t].cap))
            PROVE  v <= pool'.enabled
        <4> DEFINE w == Pick(pool, t, n, tracks[t].poly, tracks[t].cap)
        <4>1. w \in Voices
          BY <1>1, <2>1, <3>5, PickFacts, TrackFacts DEF IInv
        <4>2. pool' = Allocated(pool, w, t, n, sound)
          BY <3>5 DEF Strike
        <4> HIDE DEF w
        <4>3. pool'.enabled \in Int /\ pool.enabled <= pool'.enabled
          <5>1. pool' \in CustomPool /\ pool.enabled <= pool'.enabled
            BY <2>1, <4>1, <4>2, AllocatedFacts
          <5> QED
            BY <5>1 DEF CustomPool, Voices
        <4> QED
          BY <2>1, <2>3, <4>3
      <3> QED
        BY <1>1, <3>1, <3>2, <3>3, <3>4, <3>5, PoolChanges
    <2> QED
      BY <1>1, <2>2, <2>3 DEF Releasing
  <1>2. IInv /\ IInv' /\ [Next]_vars => [SoundingIsRun]_vars
    BY <1>1 DEF SoundingIsRun
  <1> QED
    BY <1>2, InvariantHolds, PTL DEF Spec, EnabledCovers

\* Whose voices a step may take: those of the track of a note, and what is picked for it.
LEMMA OwnersChange ==
  ASSUME IInv, [Next]_vars
  PROVE  \/ \A w \in Voices : pool'.owner[w] \in {pool.owner[w], NoOne}
         \/ \E t \in Tracks, v \in Voices :
              /\ t \in DOMAIN tracks
              /\ pool'.owner[v] = t
              /\ \A w \in Voices : w # v => pool'.owner[w] = pool.owner[w]
              /\ Cardinality(Owned(pool, t)) >= tracks[t].cap => pool.owner[v] = t
              /\ v \in pool.active /\ pool.owner[v] # t =>
                   /\ Owned(pool, t) = {} /\ Idle(pool) = {}
                   /\ Releasing(pool) \subseteq Owned(pool, NoOne)
  <1>1. TypeOK /\ pool \in CustomPool /\ Covers(pool.order)
    BY DEF IInv, TypeOK, CallbackType, PoolInv, OrdersCover
  <1>2. CASE pool' = pool
    BY <1>2
  <1>3. CASE pool' = NewCustomPool
    BY <1>3, NewFacts
  <1>4. CASE Housekeep
    BY <1>4, HousekeepFacts
  <1>5. ASSUME NEW S \in SUBSET Voices, pool' = Released(pool, S)
        PROVE  pool'.owner = pool.owner
    BY <1>1, <1>5, ReleasedFacts
  <1>6. ASSUME NEW t \in Tracks, NEW n \in Notes, NEW sound \in Prints, t \in DOMAIN tracks,
               Strike(t, n, sound, Pick(pool, t, n, tracks[t].poly, tracks[t].cap))
        PROVE  \E v \in Voices :
                 /\ pool'.owner[v] = t
                 /\ \A w \in Voices : w # v => pool'.owner[w] = pool.owner[w]
                 /\ Cardinality(Owned(pool, t)) >= tracks[t].cap => pool.owner[v] = t
                 /\ v \in pool.active /\ pool.owner[v] # t =>
                      /\ Owned(pool, t) = {} /\ Idle(pool) = {}
                      /\ Releasing(pool) \subseteq Owned(pool, NoOne)
    <2> DEFINE v == Pick(pool, t, n, tracks[t].poly, tracks[t].cap)
    <2>1. tracks[t].poly \in BOOLEAN /\ tracks[t].cap \in Voices
      BY <1>1, <1>6, TrackFacts
    <2>2. /\ v \in Voices
          /\ Cardinality(Owned(pool, t)) >= tracks[t].cap => pool.owner[v] = t
          /\ v \in pool.active /\ pool.owner[v] # t =>
               /\ Owned(pool, t) = {} /\ Idle(pool) = {}
               /\ Releasing(pool) \subseteq Owned(pool, NoOne)
      BY <1>1, <2>1, PickFacts
    <2>3. pool' = Allocated(pool, v, t, n, sound)
      BY <1>6 DEF Strike
    <2> HIDE DEF v
    <2>4. \A w \in Voices : pool'.owner[w] = IF w = v THEN t ELSE pool.owner[w]
      BY <1>1, <2>2, <2>3, AllocatedFacts
    <2> QED
      BY <2>2, <2>4
  <1> QED
    BY <1>2, <1>3, <1>4, <1>5, <1>6, PoolChanges

\* A track that owns max_polyphony voices gets no further one: it plays on its own.
THEOREM CapsHold == Spec => CapHolds
  <1>1. ASSUME IInv, [Next]_vars, NEW t \in Tracks,
               Cardinality(Owned(pool', t)) > Cardinality(Owned(pool, t))
        PROVE  Cardinality(Owned(pool, t)) < tracks[t].cap
    <2> DEFINE mine == Owned(pool, t)
               after == Owned(pool', t)
    <2>1. IsFiniteSet(mine) /\ mine \subseteq Voices /\ Cardinality(mine) \in Nat
      <3>1. IsFiniteSet(Voices) /\ mine \subseteq Voices
        BY FS_Interval, PoolAssumption DEF Voices, Owned
      <3> QED
        BY <3>1, FS_Subset, FS_CardinalityType
    <2>2. after \subseteq mine => Cardinality(after) \in Nat /\ Cardinality(after) <= Cardinality(mine)
      BY <2>1, FS_Subset, FS_CardinalityType
    <2>3. ~ after \subseteq mine
      <3>1. Cardinality(after) > Cardinality(mine)
        BY <1>1
      <3> HIDE DEF mine, after
      <3> QED
        BY <2>1, <2>2, <3>1
    <2>4. PICK w \in Voices : pool'.owner[w] = t /\ pool.owner[w] # t
      BY <2>3 DEF Owned
    <2>5. t # NoOne
      BY PoolAssumption DEF NoOne
    <2>6. PICK u \in Tracks, v \in Voices :
            /\ u \in DOMAIN tracks
            /\ pool'.owner[v] = u
            /\ \A x \in Voices : x # v => pool'.owner[x] = pool.owner[x]
            /\ Cardinality(Owned(pool, u)) >= tracks[u].cap => pool.owner[v] = u
      BY <1>1, <2>4, <2>5, OwnersChange
    <2>7. w = v /\ u = t
      BY <2>4, <2>6
    <2>8. ~ Cardinality(mine) >= tracks[t].cap
      BY <2>4, <2>6, <2>7
    <2>9. tracks[t].cap \in Int
      BY <1>1, <2>6, <2>7, TrackFacts DEF IInv, Voices
    <2> HIDE DEF mine
    <2> QED
      BY <2>1, <2>8, <2>9 DEF mine
  <1>2. IInv /\ [Next]_vars => [TakesBelowCap]_vars
    BY <1>1 DEF TakesBelowCap
  <1> QED
    BY <1>2, InvariantHolds, PTL DEF Spec, CapHolds

\* A note cuts off that of another track only when every voice sounds and its own
\* track has none: then no voice is idle, and one that releases always has an owner.
THEOREM OthersAreCutInNeed == Spec => NoTrackCutsAnother
  <1>1. ASSUME IInv, [Next]_vars, NEW v \in pool.active,
               pool'.owner[v] \notin {pool.owner[v], NoOne}
        PROVE  Owned(pool, pool'.owner[v]) = {} /\ pool.active = Voices
    <2>1. pool.active \subseteq Voices
      BY <1>1 DEF IInv, TypeOK, CallbackType, CustomPool
    <2>2. PICK t \in Tracks, x \in Voices :
            /\ pool'.owner[x] = t
            /\ \A w \in Voices : w # x => pool'.owner[w] = pool.owner[w]
            /\ x \in pool.active /\ pool.owner[x] # t =>
                 /\ Owned(pool, t) = {} /\ Idle(pool) = {}
                 /\ Releasing(pool) \subseteq Owned(pool, NoOne)
      BY <1>1, <2>1, OwnersChange
    <2>3. x = v /\ pool'.owner[v] = t /\ pool.owner[v] # t
      BY <1>1, <2>1, <2>2
    <2>4. /\ Owned(pool, t) = {} /\ Idle(pool) = {}
          /\ Releasing(pool) \subseteq Owned(pool, NoOne)
      BY <1>1, <2>2, <2>3
    <2>5. ASSUME NEW w \in Voices, w \notin pool.active PROVE FALSE
      <3>1. w \in Releasing(pool)
        BY <2>4, <2>5 DEF Idle
      <3>2. pool.tail[w] > 0 /\ pool.owner[w] = NoOne
        BY <2>4, <3>1 DEF Releasing, Owned
      <3> QED
        BY <1>1, <3>2 DEF IInv, PoolInv, UsedAreOwned
    <2> QED
      BY <2>1, <2>3, <2>4, <2>5
  <1>2. IInv /\ [Next]_vars => [CutsInNeed]_vars
    BY <1>1 DEF CutsInNeed
  <1> QED
    BY <1>2, InvariantHolds, PTL DEF Spec, NoTrackCutsAnother

-----------------------------------------------------------------------------
(* The sounds of the voices *)

\* A voice has the sound of its fingerprint, unless it has none or the UI has told
\* all nodes another since.
PrintsTell == \A v \in Voices : pool.print[v] = NoPrint \/ loaded[v] \in {pool.print[v], told}

\* What changes the sounds and fingerprints.
LEMMA PrintsChange ==
  ASSUME IInv, [Next]_vars
  PROVE  \/ /\ \/ \A v \in Voices : loaded'[v] = told'
               \/ UNCHANGED <<loaded, told>>
            /\ \A v \in Voices : pool'.print[v] \in {pool.print[v], NoPrint}
            /\ heard' = heard
         \/ /\ told' = told
            /\ \E t \in Tracks, n \in Notes, sound \in Prints, v \in Voices : Strike(t, n, sound, v)
  <1>1. TypeOK /\ pool \in CustomPool
    BY DEF IInv, TypeOK, CallbackType
  <1>2. CASE UI
    <2>1. UNCHANGED callbackVars
      BY <1>2 DEF UI, DeleteTrack, SetPolyphony, AddTrack, TweakDefault, SwitchPattern, PressKey,
         ReleaseKey
    <2>2. (\A v \in Voices : loaded'[v] = told') \/ UNCHANGED <<loaded, told>>
      <3>1. \A ts : \/ \A v \in Voices : FollowedBy(ts)[v] = ToldBy(ts)
                    \/ FollowedBy(ts) = loaded /\ ToldBy(ts) = told
        BY DEF FollowedBy, ToldBy
      <3>2. ASSUME NEW kind \in {"engine", "sampler"}, AddTrack(kind)
            PROVE  (\A v \in Voices : loaded'[v] = told') \/ UNCHANGED <<loaded, told>>
        BY <3>2 DEF AddTrack
      <3>3. ASSUME NEW t \in Tracks, DeleteTrack(t) \/ \E sound \in Prints : TweakDefault(t, sound)
            PROVE  (\A v \in Voices : loaded'[v] = told') \/ UNCHANGED <<loaded, told>>
        <4>1. loaded' = FollowedBy(tracks') /\ told' = ToldBy(tracks')
          BY <3>3 DEF DeleteTrack, TweakDefault
        <4> QED
          BY <3>1, <4>1
      <3> QED
        BY <1>2, <3>2, <3>3 DEF UI, SetPolyphony, SwitchPattern, PressKey, ReleaseKey
    <2> QED
      BY <2>1, <2>2 DEF callbackVars
  <1>3. CASE ResetForTopology
    <2>1. UNCHANGED <<loaded, told, heard>> /\ pool' = NewCustomPool
      BY <1>3 DEF ResetForTopology, CallbackElse, uiVars
    <2> QED
      BY <2>1 DEF NewCustomPool
  <1>4. CASE Begin \/ End \/ IgnoreKey \/ KeyOnSampler
    <2>1. UNCHANGED <<loaded, told, heard, pool>>
      BY <1>4 DEF Begin, End, IgnoreKey, KeyOnSampler, TakeKey, callbackVars, CallbackElse, uiVars
    <2> QED
      BY <2>1
  <1>5. CASE KeyOnEngine
    <2> DEFINE k == Head(inbox)
               v == Pick(pool, k.track, k.note, tracks[k.track].poly, tracks[k.track].cap)
    <2>1. TakeKey /\ OnEngine(k.track) /\ told' = told
      BY <1>5 DEF KeyOnEngine, TakeKey, CallbackElse, uiVars
    <2>2. k.track \in Tracks /\ k.note \in Notes
      BY <2>1, TakenFacts DEF Message
    <2>3. tracks[k.track].sound \in Prints /\ v \in Voices
      BY <1>1, <2>1, <2>2, PickTyped, TrackFacts
    <2>4. Strike(k.track, k.note, tracks[k.track].sound, v)
      BY <1>5 DEF KeyOnEngine
    <2> HIDE DEF k, v
    <2> QED
      BY <2>1, <2>2, <2>3, <2>4
  <1>6. CASE KeyOff
    <2>1. /\ UNCHANGED <<loaded, told, heard>>
          /\ pool' = pool \/ \E S : pool' = Released(pool, S)
      BY <1>6 DEF KeyOff, TakeKey, CallbackElse, uiVars
    <2> QED
      BY <1>1, <2>1 DEF Released, CustomPool
  <1>7. CASE Housekeep
    <2> DEFINE p == IF seen.pattern # pattern THEN Forgotten(pool) ELSE pool
    <2>1. /\ UNCHANGED <<loaded, told, heard>> /\ pool' = Shrunk(ExpiredPool(p))
      BY <1>7 DEF Housekeep, CallbackElse, uiVars
    <2>2. /\ p \in CustomPool
          /\ \A v \in Voices : p.print[v] \in {pool.print[v], NoPrint}
      BY <1>1 DEF Forgotten, CustomPool
    <2> HIDE DEF p
    <2>3. ExpiredPool(p).print = p.print
      BY <2>2 DEF ExpiredPool, Released, CustomPool
    <2>4. Shrunk(ExpiredPool(p)).print = ExpiredPool(p).print
      <3>1. ExpiredPool(p) \in CustomPool
        BY <2>2, ReleasedFacts DEF ExpiredPool
      <3> QED
        BY <3>1 DEF Shrunk, CustomPool
    <2> QED
      BY <2>1, <2>2, <2>3, <2>4
  <1>8. ASSUME NEW t \in Tracks, NEW n \in Notes, StepOnSampler(t, n)
        PROVE  UNCHANGED <<loaded, told, heard, pool>>
    BY <1>8 DEF StepOnSampler, uiVars
  <1>9. ASSUME NEW t \in Tracks, NEW n \in Notes, NEW sound \in Prints, NEW len \in Lengths,
               NEW gated \in BOOLEAN, StepOnEngine(t, n, sound, len, gated)
        PROVE  told' = told /\ \E v \in Voices : Strike(t, n, sound, v)
    <2> DEFINE v == Pick(pool, t, n, tracks[t].poly, tracks[t].cap)
    <2>1. OnEngine(t) /\ Strike(t, n, sound, v) /\ told' = told
      BY <1>9 DEF StepOnEngine, uiVars
    <2>2. v \in Voices
      BY <2>1, PickTyped
    <2> QED
      BY <2>1, <2>2
  <1>10. CASE UNCHANGED vars
    BY <1>10 DEF vars, uiVars, callbackVars
  <1> QED
    BY <1>2, <1>3, <1>4, <1>5, <1>6, <1>7, <1>8, <1>9, <1>10 DEF Next, Callback

\* A note of the engine sounds as its step or track asks, or as the UI had last told
\* all nodes: never as another step, track or pattern has asked before.
THEOREM SoundsAreAsked == Spec => []PlaysItsSound
  <1>1. Init => PrintsTell /\ PlaysItsSound
    <2>1. ASSUME Init PROVE PrintsTell /\ PlaysItsSound
      BY <2>1 DEF Init, PrintsTell, PlaysItsSound, NewCustomPool
    <2> QED
      BY <2>1
  <1>2. IInv /\ PrintsTell /\ PlaysItsSound /\ [Next]_vars => PrintsTell' /\ PlaysItsSound'
    <2> SUFFICES ASSUME IInv, PrintsTell, PlaysItsSound, [Next]_vars
                 PROVE  PrintsTell' /\ PlaysItsSound'
      OBVIOUS
    <2>1. loaded \in [Voices -> Prints] /\ pool \in CustomPool
      BY DEF IInv, TypeOK, NodeType, CallbackType
    <2>2. CASE /\ \/ \A v \in Voices : loaded'[v] = told'
                  \/ UNCHANGED <<loaded, told>>
               /\ \A v \in Voices : pool'.print[v] \in {pool.print[v], NoPrint}
               /\ heard' = heard
      <3>1. PrintsTell'
        BY <2>2 DEF PrintsTell
      <3>2. PlaysItsSound'
        BY <2>2 DEF PlaysItsSound
      <3> QED
        BY <3>1, <3>2
    <2>3. ASSUME told' = told, NEW t \in Tracks, NEW n \in Notes, NEW sound \in Prints,
                 NEW v \in Voices, Strike(t, n, sound, v)
          PROVE  PrintsTell' /\ PlaysItsSound'
      <3>1. /\ \A w \in Voices : pool'.print[w] = IF w = v THEN sound ELSE pool.print[w]
            /\ heard' = [asked |-> sound, got |-> loaded'[v], told |-> told]
            /\ \A w \in Voices : loaded'[w] = IF w = v /\ pool.print[v] # sound THEN sound
                                               ELSE loaded[w]
        BY <2>1, <2>3 DEF Strike, Allocated, CustomPool
      <3>2. sound # NoPrint
        BY PoolAssumption DEF NoPrint
      <3>3. loaded'[v] \in {sound, told}
        BY <3>1, <3>2 DEF PrintsTell
      <3>4. PrintsTell'
        BY <2>3, <3>1, <3>3 DEF PrintsTell
      <3>5. PlaysItsSound'
        BY <3>1, <3>3 DEF PlaysItsSound
      <3> QED
        BY <3>4, <3>5
    <2> QED
      BY <2>2, <2>3, PrintsChange
  <1> QED
    BY <1>1, <1>2, InvariantHolds, PTL DEF Spec
=============================================================================
