-------------------------- MODULE PatternBankProofs --------------------------
(***************************************************************************)
(* Proofs about PatternBank, for any tracks, number of lanes, slots and    *)
(* patterns: first its inductive invariant, then the selections of the     *)
(* effects that listen to another track and what the graph makes of them,  *)
(* and then that PatternBank keeps PatternBook's book: every step of the   *)
(* bank is a step of the book, or leaves its pages alone.                  *)
(***************************************************************************)
EXTENDS PatternBank, DataLemmas, FiniteSetTheorems, SequenceTheorems, TLAPS

-----------------------------------------------------------------------------
(* Selections *)

LEMMA OthersCounted ==
  ASSUME NEW owner, NEW upto \in Nat
  PROVE  /\ IsFiniteSet(Others(owner, upto))
         /\ Cardinality(Others(owner, upto)) = IF owner \in 1..upto THEN upto - 1 ELSE upto
  <1>1. IsFiniteSet(1..upto) /\ Cardinality(1..upto) = upto
    BY FS_Interval
  <1> QED
    BY <1>1, FS_RemoveElement DEF Others

LEMMA SourceIsTrack ==
  ASSUME NEW owner, NEW selection, NEW total \in Nat
  PROVE  LET source == SidechainSourceTrack(owner, selection, total)
         IN  source = NoTrack \/ source \in Others(owner, total)
  BY DEF SidechainSourceTrack

LEMMA IndexIsBelowTotal ==
  ASSUME NEW owner, NEW source, NEW total \in Nat
  PROVE  SidechainSelectionIndex(owner, source, total) \in 0..total
  <1>1. CASE source \in Others(owner, total)
    <2>1. source \in Nat /\ source <= total
      BY <1>1 DEF Others
    <2> QED
      BY <1>1, <2>1, OthersCounted DEF SidechainSelectionIndex
  <1>2. CASE source \notin Others(owner, total)
    BY <1>2 DEF SidechainSelectionIndex
  <1> QED
    BY <1>1, <1>2

LEMMA RemappedIsBelowTotal ==
  ASSUME NEW owner, NEW selection, NEW deleted, NEW total \in Nat \ {0}
  PROVE  RemapSelection(owner, selection, deleted, total) \in 0..total - 1
  BY IndexIsBelowTotal DEF RemapSelection

-----------------------------------------------------------------------------
(* Lanes.  Saving and restoring a lane moves the nodes of its slots with it. *)

SlotNode(lane, s) == lane.fx[s].node

LEMMA BlankTyped ==
  /\ BlankLane \in LaneSet
  /\ \A s \in 1..Slots : SlotNode(BlankLane, s) = NoNode
  BY BankAssumption DEF BlankLane, LaneSet, SlotSet, EmptyInstrument, EmptySlot, SlotNode

InstrumentSet == [np : {0, 1}, val : {0, 1}]

LEMMA LaneFields ==
  ASSUME NEW lane
  PROVE  lane \in LaneSet <=> /\ lane = [body |-> lane.body, inst |-> lane.inst, fx |-> lane.fx]
                              /\ lane.body \in {0, 1} /\ lane.inst \in InstrumentSet
                              /\ lane.fx \in [1..Slots -> SlotSet]
  BY DEF LaneSet, InstrumentSet

WithParts(lane, inst, fx) == [lane EXCEPT !.inst = inst, !.fx = fx]
WithChain(lane, fx) == [lane EXCEPT !.fx = fx]

LEMMA LaneUpdated ==
  ASSUME NEW lane \in LaneSet, NEW inst \in InstrumentSet, NEW fx \in [1..Slots -> SlotSet]
  PROVE  /\ WithParts(lane, inst, fx) \in LaneSet /\ WithParts(lane, inst, fx).fx = fx
         /\ WithChain(lane, fx) \in LaneSet /\ WithChain(lane, fx).fx = fx
  BY DEF LaneSet, InstrumentSet, WithParts, WithChain

LEMMA SlotSaved ==
  ASSUME NEW slot \in SlotSet
  PROVE  Captured(slot) \in SlotSet /\ Captured(slot).node = slot.node
  BY BankAssumption DEF Captured, SlotSet

LEMMA SlotBack ==
  ASSUME NEW slot \in SlotSet, NEW snap \in SlotSet
  PROVE  Restored(slot, snap) \in SlotSet /\ Restored(slot, snap).node = snap.node
  BY DEF Restored, SlotSet

LEMMA CapturedTyped ==
  ASSUME NEW lane \in LaneSet
  PROVE  /\ CapturedLane(lane) \in LaneSet
         /\ \A s \in 1..Slots : SlotNode(CapturedLane(lane), s) = SlotNode(lane, s)
  <1>1. /\ lane.inst \in InstrumentSet
        /\ lane.fx \in [1..Slots -> SlotSet]
    BY LaneFields
  <1>2. Captured(lane.inst) \in InstrumentSet
    BY <1>1 DEF Captured, InstrumentSet
  <1>3. \A s \in 1..Slots : /\ Captured(lane.fx[s]) \in SlotSet
                            /\ Captured(lane.fx[s]).node = lane.fx[s].node
    BY <1>1, SlotSaved
  <1> DEFINE inst == Captured(lane.inst)
             fx == [s \in 1..Slots |-> Captured(lane.fx[s])]
  <1>4. fx \in [1..Slots -> SlotSet] /\ \A s \in 1..Slots : fx[s].node = lane.fx[s].node
    BY <1>3
  <1>5. CapturedLane(lane) = WithParts(lane, inst, fx)
    BY DEF CapturedLane, WithParts
  <1>6. inst \in InstrumentSet
    BY <1>2
  <1> HIDE DEF inst, fx
  <1>7. CapturedLane(lane) \in LaneSet /\ CapturedLane(lane).fx = fx
    BY <1>4, <1>5, <1>6, LaneUpdated
  <1> QED
    BY <1>4, <1>7 DEF SlotNode

LEMMA RestoredTyped ==
  ASSUME NEW lane \in LaneSet, NEW snap \in LaneSet
  PROVE  /\ RestoredLane(lane, snap) \in LaneSet
         /\ \A s \in 1..Slots : SlotNode(RestoredLane(lane, snap), s) = SlotNode(snap, s)
  <1>1. /\ snap.body \in {0, 1}
        /\ lane.inst \in InstrumentSet /\ snap.inst \in InstrumentSet
        /\ lane.fx \in [1..Slots -> SlotSet] /\ snap.fx \in [1..Slots -> SlotSet]
    BY LaneFields
  <1>2. Restored(lane.inst, snap.inst) \in InstrumentSet
    BY <1>1 DEF Restored, InstrumentSet
  <1>3. \A s \in 1..Slots : /\ Restored(lane.fx[s], snap.fx[s]) \in SlotSet
                            /\ Restored(lane.fx[s], snap.fx[s]).node = snap.fx[s].node
    BY <1>1, SlotBack
  <1> QED
    BY <1>1, <1>2, <1>3 DEF RestoredLane, LaneSet, InstrumentSet, SlotNode

CaptureOf(lanes, n) == [i \in 1..n |-> CapturedLane(lanes[i])]
RestoreOf(lanes, snap) ==
  [i \in Lanes |-> IF i \in DOMAIN snap THEN RestoredLane(lanes[i], snap[i]) ELSE lanes[i]]

LEMMA CaptureOfTyped ==
  ASSUME NEW lanes \in [Lanes -> LaneSet], NEW n \in Lanes
  PROVE  /\ CaptureOf(lanes, n) \in [1..n -> LaneSet]
         /\ \A i \in 1..n, s \in 1..Slots :
              SlotNode(CaptureOf(lanes, n)[i], s) = SlotNode(lanes[i], s)
  <1>1. \A i \in 1..n : lanes[i] \in LaneSet
    BY BankAssumption DEF Lanes
  <1> QED
    BY <1>1, CapturedTyped DEF CaptureOf

LEMMA RestoreOfTyped ==
  ASSUME NEW lanes \in [Lanes -> LaneSet], NEW n \in Nat, n <= MaxTracks,
         NEW snap \in [1..n -> LaneSet]
  PROVE  /\ RestoreOf(lanes, snap) \in [Lanes -> LaneSet]
         /\ \A i \in 1..n, s \in 1..Slots :
              SlotNode(RestoreOf(lanes, snap)[i], s) = SlotNode(snap[i], s)
         /\ \A i \in Lanes \ (1..n) : RestoreOf(lanes, snap)[i] = lanes[i]
  <1>1. 1..n \subseteq Lanes /\ DOMAIN snap = 1..n
    BY BankAssumption DEF Lanes
  <1> QED
    BY <1>1, RestoredTyped DEF RestoreOf

\* What an edit makes of a lane.
WithBody(lane, v) == [lane EXCEPT !.body = v]
WithInstrument(lane, inst) == [lane EXCEPT !.inst = inst]
WithSlot(lane, s, slot) == [lane EXCEPT !.fx[s] = slot]

LEMMA LaneEdited ==
  ASSUME NEW lane \in LaneSet, NEW v \in {0, 1}, NEW inst \in InstrumentSet
  PROVE  /\ WithBody(lane, v) \in LaneSet /\ WithBody(lane, v).fx = lane.fx
         /\ WithInstrument(lane, inst) \in LaneSet /\ WithInstrument(lane, inst).fx = lane.fx
  BY DEF LaneSet, InstrumentSet, WithBody, WithInstrument

LEMMA SlotEdited ==
  ASSUME NEW lane \in LaneSet, NEW s \in 1..Slots, NEW slot \in SlotSet
  PROVE  /\ WithSlot(lane, s, slot) \in LaneSet
         /\ \A k \in 1..Slots : WithSlot(lane, s, slot).fx[k] = IF k = s THEN slot ELSE lane.fx[k]
  <1>1. lane.fx \in [1..Slots -> SlotSet] /\ lane.inst \in InstrumentSet
    BY LaneFields
  <1> DEFINE fx == [lane.fx EXCEPT ![s] = slot]
  <1>2. /\ fx \in [1..Slots -> SlotSet]
        /\ \A k \in 1..Slots : fx[k] = IF k = s THEN slot ELSE lane.fx[k]
    BY <1>1
  <1>3. WithSlot(lane, s, slot) = WithChain(lane, fx)
    BY DEF WithSlot, WithChain
  <1> HIDE DEF fx
  <1>4. WithChain(lane, fx) \in LaneSet /\ WithChain(lane, fx).fx = fx
    BY <1>1, <1>2, LaneUpdated
  <1> QED
    BY <1>2, <1>3, <1>4

-----------------------------------------------------------------------------
(* The invariant.  Bindings and slots follow the tracks only as lanes that *)
(* no track is in hold nothing, and a slot's node has to be the one in the *)
(* graph for an edge or a value to be one of the graph's.                   *)

\* A lane that no track is in holds nothing: what it held would become part of
\* the next track added, which starts from the lane as it is ("so stale state
\* cannot leak back after future restores", state.rs).
UnusedLanesBlank == \A i \in Lanes \ InUse : live[i] = BlankLane /\ poly[i] = 0

IInv == TypeOK /\ BindingsFollow /\ UnusedLanesBlank /\ SlotsFollowGraph

TrackSet == [id : Tracks, kind : Kinds]
Edges == Tracks \X Nodes

\* The slots of a lane name the nodes of a track's chain.
Sits(lane, id, chain) ==
  \A s \in 1..Slots :
    SlotNode(lane, s) = IF chain[s] = NoFx THEN NoNode ELSE <<id, chain[s]>>
Placed(lanes, vector, chains) ==
  \A i \in 1..Len(vector) : Sits(lanes[i], vector[i].id, chains[i])

LEMMA PlacedEverywhere ==
  ASSUME IInv, NEW p \in DOMAIN bank
  PROVE  Placed(IF p = cur THEN live ELSE bank[p], tracks, desc)
  BY DEF IInv, SlotsFollowGraph, Placed, Sits, SlotNode, InUse, NumTracks

\* The invariant in the form in which the steps establish it.
LEMMA Established ==
  ASSUME setup' \in Setups, ops' \in 0..setup'.ops,
         tracks' \in Seq(TrackSet), Len(tracks') \in Lanes,
         desc' \in Tables, tables' \in Tables, live' \in [Lanes -> LaneSet],
         bank' \in Seq([1..Len(tracks') -> LaneSet]), Len(bank') \in 1..MaxPatterns,
         cur' \in 1..Len(bank'),
         bind' \in [Lanes -> Tracks \cup {NoTrack}],
         \A i \in Lanes : bind'[i] = IF i \in 1..Len(tracks') THEN tracks'[i].id ELSE NoTrack,
         \A i \in Lanes \ (1..Len(tracks')) : live'[i] = BlankLane,
         poly' \in [Lanes -> {0, 1}], \A i \in Lanes \ (1..Len(tracks')) : poly'[i] = 0,
         Placed(live', tracks', desc'),
         \A p \in 1..Len(bank') : p # cur' => Placed(bank'[p], tracks', desc'),
         wires' \subseteq Edges, heard' \in [Nodes -> {0, 1}]
  PROVE  IInv'
  <1>1. DOMAIN bank' = 1..Len(bank')
    BY LenProperties
  <1>2. TypeOK'
    <2>1. tracks' \in Seq([id : Tracks, kind : Kinds]) /\ NumTracks' \in Lanes
      BY DEF TrackSet, NumTracks
    <2>2. bank' \in Seq([InUse' -> LaneSet]) /\ cur' \in DOMAIN bank'
      BY <1>1 DEF InUse, NumTracks
    <2>3. wires' \subseteq (Tracks \X Nodes)
      BY DEF Edges
    <2> QED
      BY <2>1, <2>2, <2>3, Zenon DEF TypeOK
  <1>3. BindingsFollow' /\ UnusedLanesBlank'
    BY DEF BindingsFollow, UnusedLanesBlank, InUse, NumTracks
  <1>4. SlotsFollowGraph'
    <2> SUFFICES ASSUME NEW p \in 1..Len(bank'), NEW i \in 1..Len(tracks'), NEW s \in 1..Slots
                 PROVE  (IF p = cur' THEN live'[i].fx[s] ELSE bank'[p][i].fx[s]).node
                          = IF desc'[i][s] = NoFx THEN NoNode ELSE <<tracks'[i].id, desc'[i][s]>>
      BY <1>1 DEF SlotsFollowGraph, InUse, NumTracks
    <2>1. CASE p = cur'
      BY <2>1 DEF Placed, Sits, SlotNode
    <2>2. CASE p # cur'
      BY <2>2 DEF Placed, Sits, SlotNode
    <2> QED
      BY <2>1, <2>2
  <1> QED
    BY <1>2, <1>3, <1>4 DEF IInv

\* And in the form in which they use it.
LEMMA Facts ==
  ASSUME IInv
  PROVE  /\ setup \in Setups /\ ops \in 0..setup.ops
         /\ tracks \in Seq(TrackSet) /\ Len(tracks) \in Lanes /\ InUse = 1..Len(tracks)
         /\ InUse \subseteq Lanes
         /\ \A i \in InUse : tracks[i].id \in Tracks
         /\ desc \in Tables /\ tables \in Tables /\ live \in [Lanes -> LaneSet]
         /\ bank \in Seq([InUse -> LaneSet]) /\ Len(bank) \in 1..MaxPatterns
         /\ DOMAIN bank = 1..Len(bank) /\ cur \in 1..Len(bank)
         /\ \A p \in 1..Len(bank) : bank[p] \in [InUse -> LaneSet]
         /\ bind \in [Lanes -> Tracks \cup {NoTrack}]
         /\ \A i \in Lanes : bind[i] = IF i \in InUse THEN tracks[i].id ELSE NoTrack
         /\ \A i \in Lanes \ InUse : live[i] = BlankLane
         /\ Placed(live, tracks, desc)
         /\ \A p \in 1..Len(bank) : p # cur => Placed(bank[p], tracks, desc)
         /\ wires \subseteq Edges /\ heard \in [Nodes -> {0, 1}]
  <1>1. /\ setup \in Setups /\ ops \in 0..setup.ops
        /\ desc \in Tables /\ tables \in Tables /\ live \in [Lanes -> LaneSet]
        /\ bank \in Seq([InUse -> LaneSet]) /\ Len(bank) \in 1..MaxPatterns
        /\ cur \in DOMAIN bank
        /\ bind \in [Lanes -> Tracks \cup {NoTrack}]
        /\ heard \in [Nodes -> {0, 1}]
    BY Zenon DEF IInv, TypeOK
  <1>2. tracks \in Seq(TrackSet) /\ Len(tracks) \in Lanes /\ wires \subseteq Edges
    BY Zenon DEF IInv, TypeOK, TrackSet, NumTracks, Edges
  <1>3. InUse = 1..Len(tracks) /\ InUse \subseteq Lanes
    BY <1>2, BankAssumption DEF InUse, NumTracks, Lanes
  <1>4. ASSUME NEW i \in InUse PROVE tracks[i].id \in Tracks
    <2>1. tracks[i] \in TrackSet
      BY <1>2, <1>3, ElementOfSeq
    <2> QED
      BY <2>1 DEF TrackSet
  <1>5. DOMAIN bank = 1..Len(bank) /\ \A p \in 1..Len(bank) : bank[p] \in [InUse -> LaneSet]
    BY <1>1, LenProperties, ElementOfSeq
  <1>6. /\ \A i \in Lanes : bind[i] = IF i \in InUse THEN tracks[i].id ELSE NoTrack
        /\ \A i \in Lanes \ InUse : live[i] = BlankLane
    BY DEF IInv, BindingsFollow, UnusedLanesBlank
  <1>7. /\ Placed(live, tracks, desc)
        /\ \A p \in 1..Len(bank) : p # cur => Placed(bank[p], tracks, desc)
    BY <1>1, <1>5, PlacedEverywhere
  <1> QED
    BY <1>1, <1>2, <1>3, <1>4, <1>5, <1>6, <1>7

LEMMA LimitFacts ==
  ASSUME IInv
  PROVE  poly \in [Lanes -> {0, 1}] /\ \A i \in Lanes \ InUse : poly[i] = 0
  <1>1. poly \in [Lanes -> {0, 1}]
    BY Zenon DEF IInv, TypeOK
  <1> QED
    BY <1>1 DEF IInv, UnusedLanesBlank

LEMMA SpendKeeps ==
  ASSUME IInv, NEW op, Spend(op)
  PROVE  setup' \in Setups /\ ops' \in 0..setup'.ops
  <1>1. setup \in Setups /\ ops \in 0..setup.ops /\ setup.ops \in Nat
    BY Facts, BankAssumption
  <1> QED
    BY <1>1 DEF Spend

-----------------------------------------------------------------------------
(* Edits *)

\* Nothing but the settings of lanes in use changes, and the graph.
LEMMA EditKeeps ==
  ASSUME IInv, setup' \in Setups, ops' \in 0..setup'.ops,
         UNCHANGED <<tracks, bind, desc, bank, cur, tables, poly>>,
         live' \in [Lanes -> LaneSet],
         \A i \in Lanes \ InUse : live'[i] = live[i],
         \A i \in InUse, s \in 1..Slots : SlotNode(live'[i], s) = SlotNode(live[i], s),
         wires' \subseteq Edges, heard' \in [Nodes -> {0, 1}]
  PROVE  IInv'
  <1>1. Placed(live', tracks', desc')
    <2>1. Placed(live, tracks, desc) /\ InUse = 1..Len(tracks)
      BY Facts
    <2> QED
      BY <2>1 DEF Placed, Sits
  <1>2. \A p \in 1..Len(bank') : p # cur' => Placed(bank'[p], tracks', desc')
    BY Facts
  <1>3. /\ \A i \in Lanes \ (1..Len(tracks')) : live'[i] = BlankLane /\ poly'[i] = 0
        /\ poly' \in [Lanes -> {0, 1}]
    BY Facts, LimitFacts
  <1> QED
    BY <1>1, <1>2, <1>3, Facts, Established

LEMMA LaneEditKeeps ==
  ASSUME IInv, NEW i \in InUse, NEW lane \in LaneSet,
         \A s \in 1..Slots : SlotNode(lane, s) = SlotNode(live[i], s),
         setup' \in Setups, ops' \in 0..setup'.ops,
         live' = [live EXCEPT ![i] = lane],
         UNCHANGED <<tracks, bind, desc, bank, cur, tables, poly>>,
         wires' \subseteq Edges, heard' \in [Nodes -> {0, 1}]
  PROVE  IInv'
  <1>1. /\ live' \in [Lanes -> LaneSet]
        /\ \A k \in Lanes : live'[k] = IF k = i THEN lane ELSE live[k]
    BY Facts
  <1> QED
    BY <1>1, Facts, EditKeeps

LEMMA BodyStep ==
  ASSUME IInv, NEW i \in InUse, NEW v \in {0, 1}, EditBody(i, v)
  PROVE  IInv'
  <1>1. live' = [live EXCEPT ![i] = WithBody(live[i], v)]
    BY DEF EditBody, WithBody
  <1>2. live[i] \in LaneSet /\ EmptyInstrument \in InstrumentSet
    BY Facts DEF EmptyInstrument, InstrumentSet
  <1>3. /\ WithBody(live[i], v) \in LaneSet
        /\ \A s \in 1..Slots : SlotNode(WithBody(live[i], v), s) = SlotNode(live[i], s)
    BY <1>2, LaneEdited DEF SlotNode
  <1>4. setup' \in Setups /\ ops' \in 0..setup'.ops
    BY SpendKeeps DEF EditBody
  <1>5. /\ UNCHANGED <<tracks, bind, desc, bank, cur, tables, poly>>
        /\ wires' \subseteq Edges /\ heard' \in [Nodes -> {0, 1}]
    BY Facts DEF EditBody, trackVars, graphVars
  <1> QED
    BY <1>1, <1>3, <1>4, <1>5, LaneEditKeeps

LEMMA InstrumentStep ==
  ASSUME IInv, NEW i \in InUse, NEW v \in {0, 1}, SetInstrument(i, v)
  PROVE  IInv'
  <1> DEFINE inst == [live[i].inst EXCEPT !.val = v]
  <1>1. live[i] \in LaneSet /\ live[i].inst \in InstrumentSet
    BY Facts, LaneFields
  <1>2. inst \in InstrumentSet
    BY <1>1 DEF InstrumentSet
  <1>3. live' = [live EXCEPT ![i] = WithInstrument(live[i], inst)]
    BY DEF SetInstrument, WithInstrument
  <1> HIDE DEF inst
  <1>4. /\ WithInstrument(live[i], inst) \in LaneSet
        /\ \A s \in 1..Slots : SlotNode(WithInstrument(live[i], inst), s) = SlotNode(live[i], s)
    BY <1>1, <1>2, LaneEdited DEF SlotNode
  <1>5. setup' \in Setups /\ ops' \in 0..setup'.ops
    BY SpendKeeps DEF SetInstrument
  <1>6. /\ UNCHANGED <<tracks, bind, desc, bank, cur, tables, poly>>
        /\ wires' \subseteq Edges /\ heard' \in [Nodes -> {0, 1}]
    BY Facts DEF SetInstrument, trackVars, graphVars
  <1> QED
    BY <1>3, <1>4, <1>5, <1>6, LaneEditKeeps

\* One slot of a lane is set to a value.
LEMMA SettingStep ==
  ASSUME IInv, NEW i \in InUse, NEW s \in 1..Slots, NEW v \in 0..MaxTracks,
         live' = [live EXCEPT ![i].fx[s].val = v],
         setup' \in Setups, ops' \in 0..setup'.ops,
         UNCHANGED <<tracks, bind, desc, bank, cur, tables, poly>>,
         wires' \subseteq Edges, heard' \in [Nodes -> {0, 1}]
  PROVE  IInv'
  <1> DEFINE slot == [live[i].fx[s] EXCEPT !.val = v]
  <1>1. live[i] \in LaneSet
    BY Facts
  <1>2. live[i].fx[s] \in SlotSet
    BY <1>1, LaneFields
  <1>3. slot \in SlotSet /\ slot.node = live[i].fx[s].node
    BY <1>2 DEF SlotSet
  <1>4. live' = [live EXCEPT ![i] = WithSlot(live[i], s, slot)]
    BY DEF WithSlot
  <1> HIDE DEF slot
  <1>5. /\ WithSlot(live[i], s, slot) \in LaneSet
        /\ \A k \in 1..Slots : SlotNode(WithSlot(live[i], s, slot), k) = SlotNode(live[i], k)
    BY <1>1, <1>3, SlotEdited DEF SlotNode
  <1> QED
    BY <1>4, <1>5, LaneEditKeeps

LEMMA EffectStep ==
  ASSUME IInv, NEW i \in InUse, NEW s \in 1..Slots, NEW v \in {0, 1}, SetEffect(i, s, v)
  PROVE  IInv'
  <1>1. setup' \in Setups /\ ops' \in 0..setup'.ops
    BY SpendKeeps DEF SetEffect
  <1>2. v \in 0..MaxTracks
    BY BankAssumption
  <1>3. heard' \in [Nodes -> {0, 1}]
    <2>1. heard \in [Nodes -> {0, 1}]
      BY Facts
    <2> QED
      BY <2>1 DEF SetEffect
  <1>4. UNCHANGED <<tracks, bind, desc, bank, cur, tables, poly>> /\ wires' \subseteq Edges
    BY Facts DEF SetEffect, trackVars
  <1>5. live' = [live EXCEPT ![i].fx[s].val = v]
    BY DEF SetEffect
  <1> QED
    BY <1>1, <1>2, <1>3, <1>4, <1>5, SettingStep

-----------------------------------------------------------------------------
(* The graph *)

EdgeOf(vector, i, selection, node) ==
  LET source == SidechainSourceTrack(i, selection, Len(vector))
  IN  IF source = NoTrack THEN {} ELSE {<<vector[source].id, node>>}

LEMMA EdgeTyped ==
  ASSUME NEW vector \in Seq(TrackSet), NEW i, NEW selection, NEW node \in Nodes
  PROVE  EdgeOf(vector, i, selection, node) \subseteq Edges
  <1> DEFINE source == SidechainSourceTrack(i, selection, Len(vector))
  <1>1. Len(vector) \in Nat
    BY LenProperties
  <1>2. source = NoTrack \/ source \in 1..Len(vector)
    BY <1>1, SourceIsTrack DEF Others
  <1>3. source # NoTrack => vector[source] \in TrackSet
    BY <1>2, ElementOfSeq
  <1>4. source # NoTrack => <<vector[source].id, node>> \in Edges
    BY <1>3 DEF TrackSet, Edges
  <1> QED
    BY <1>4 DEF EdgeOf

LEMMA PushTyped ==
  ASSUME NEW graph \in SUBSET Edges, NEW told \in [Nodes -> {0, 1}],
         PushAllRestoredDefaults(graph, told),
         tracks' \in Seq(TrackSet), Len(tracks') \in Lanes, live' \in [Lanes -> LaneSet]
  PROVE  wires' \subseteq Edges /\ heard' \in [Nodes -> {0, 1}]
  <1>1. ASSUME NEW p \in Loaded'
        PROVE  Edge(p[1], SlotAt(p).val, SlotAt(p).node)' \subseteq Edges
    <2>1. p[1] \in Lanes /\ p[2] \in 1..Slots /\ live'[p[1]].fx[p[2]].node # NoNode
      BY BankAssumption DEF Loaded, InUse, NumTracks, Lanes
    <2>2. live'[p[1]].fx[p[2]] \in SlotSet
      BY <2>1, LaneFields
    <2>3. live'[p[1]].fx[p[2]].node \in Nodes
      BY <2>1, <2>2 DEF SlotSet
    <2>4. Edge(p[1], SlotAt(p).val, SlotAt(p).node)'
            = EdgeOf(tracks', p[1], live'[p[1]].fx[p[2]].val, live'[p[1]].fx[p[2]].node)
      BY DEF Edge, EdgeOf, SlotAt, NumTracks
    <2> QED
      BY <2>3, <2>4, EdgeTyped
  <1>2. Selected' \subseteq Edges
    BY <1>1 DEF Selected
  <1>3. wires' = graph \cup Selected'
    BY DEF PushAllRestoredDefaults
  <1>4. heard' \in [Nodes -> {0, 1}]
    BY DEF PushAllRestoredDefaults
  <1> QED
    BY <1>2, <1>3, <1>4

LEMMA SidechainStep ==
  ASSUME IInv, NEW i \in InUse, NEW s \in 1..Slots, NEW selection \in 0..(NumTracks - 1),
         SelectSidechain(i, s, selection)
  PROVE  IInv'
  <1>1. setup' \in Setups /\ ops' \in 0..setup'.ops
    BY SpendKeeps DEF SelectSidechain
  <1>2. selection \in 0..MaxTracks
    BY Facts, BankAssumption DEF NumTracks, Lanes
  <1>3. live[i].fx[s].node \in Nodes
    <2>1. /\ Placed(live, tracks, desc) /\ InUse = 1..Len(tracks)
          /\ tracks[i].id \in Tracks /\ desc[i][s] = Duck
      BY Facts DEF SelectSidechain
    <2>2. live[i].fx[s].node = <<tracks[i].id, Duck>>
      BY <2>1 DEF Placed, Sits, SlotNode, Duck, NoFx
    <2> QED
      BY <2>1, <2>2 DEF Nodes, Effects
  <1>4. wires' \subseteq Edges
    <2>1. wires \subseteq Edges /\ tracks \in Seq(TrackSet)
      BY Facts
    <2>2. Edge(i, selection, live[i].fx[s].node) \subseteq Edges
      BY <1>3, <2>1, EdgeTyped DEF Edge, EdgeOf, NumTracks
    <2> QED
      BY <2>1, <2>2 DEF SelectSidechain, ApplySelection
  <1>5. UNCHANGED <<tracks, bind, desc, bank, cur, tables, poly>> /\ heard' \in [Nodes -> {0, 1}]
    BY Facts DEF SelectSidechain, trackVars
  <1>6. live' = [live EXCEPT ![i].fx[s].val = selection]
    BY DEF SelectSidechain
  <1> QED
    BY <1>1, <1>2, <1>4, <1>5, <1>6, SettingStep

LEMMA PolyphonyStep ==
  ASSUME IInv, NEW i \in InUse, NEW v \in {0, 1}, SetPolyphony(i, v)
  PROVE  IInv'
  <1>1. setup' \in Setups /\ ops' \in 0..setup'.ops
    BY SpendKeeps DEF SetPolyphony
  <1>2. /\ UNCHANGED <<tracks, bind, desc, bank, cur, tables, live, wires, heard>>
        /\ poly' = [poly EXCEPT ![i] = v]
    BY DEF SetPolyphony, trackVars, graphVars
  <1>3. /\ poly' \in [Lanes -> {0, 1}]
        /\ \A k \in Lanes \ (1..Len(tracks')) : poly'[k] = 0
    BY <1>2, Facts, LimitFacts
  <1> QED
    BY <1>1, <1>2, <1>3, Facts, Established

-----------------------------------------------------------------------------
(* Patterns *)

Snapshot == [InUse -> LaneSet]
PlacedHere(lanes) == Placed(lanes, tracks, desc)

LEMMA CaptureFacts ==
  ASSUME IInv
  PROVE  Capture \in Snapshot /\ PlacedHere(Capture)
  <1>1. /\ live \in [Lanes -> LaneSet] /\ Len(tracks) \in Lanes
        /\ InUse = 1..Len(tracks) /\ Placed(live, tracks, desc)
    BY Facts
  <1>2. Capture = CaptureOf(live, Len(tracks))
    BY DEF Capture, CaptureOf, InUse, NumTracks
  <1> QED
    BY <1>1, <1>2, CaptureOfTyped DEF Snapshot, PlacedHere, Placed, Sits

LEMMA RestoreFacts ==
  ASSUME IInv, NEW snap \in Snapshot, PlacedHere(snap)
  PROVE  /\ Restore(snap) \in [Lanes -> LaneSet] /\ PlacedHere(Restore(snap))
         /\ \A i \in Lanes \ InUse : Restore(snap)[i] = BlankLane
  <1>1. /\ live \in [Lanes -> LaneSet] /\ Len(tracks) \in Nat /\ Len(tracks) <= MaxTracks
        /\ InUse = 1..Len(tracks) /\ \A i \in Lanes \ InUse : live[i] = BlankLane
    BY Facts, BankAssumption DEF Lanes
  <1>2. Restore(snap) = RestoreOf(live, snap)
    BY DEF Restore, RestoreOf
  <1>3. snap \in [1..Len(tracks) -> LaneSet]
    BY <1>1 DEF Snapshot
  <1>4. /\ RestoreOf(live, snap) \in [Lanes -> LaneSet]
        /\ \A i \in 1..Len(tracks), s \in 1..Slots :
             SlotNode(RestoreOf(live, snap)[i], s) = SlotNode(snap[i], s)
        /\ \A i \in Lanes \ (1..Len(tracks)) : RestoreOf(live, snap)[i] = live[i]
    BY <1>1, <1>3, RestoreOfTyped
  <1> QED
    BY <1>1, <1>2, <1>4 DEF PlacedHere, Placed, Sits

\* The bank and the open pattern change, the tracks and their effects do not.
LEMMA PatternKeeps ==
  ASSUME IInv, setup' \in Setups, ops' \in 0..setup'.ops,
         UNCHANGED <<tracks, bind, desc, tables, poly>>,
         live' \in [Lanes -> LaneSet], PlacedHere(live'),
         \A i \in Lanes \ InUse : live'[i] = BlankLane,
         bank' \in Seq(Snapshot), Len(bank') \in 1..MaxPatterns, cur' \in 1..Len(bank'),
         \A p \in 1..Len(bank') : p # cur' => PlacedHere(bank'[p]),
         UNCHANGED <<wires, heard>> \/ PushAllRestoredDefaults(wires, heard)
  PROVE  IInv'
  <1>1. /\ tracks \in Seq(TrackSet) /\ Len(tracks) \in Lanes /\ InUse = 1..Len(tracks)
        /\ desc \in Tables /\ tables \in Tables /\ bind \in [Lanes -> Tracks \cup {NoTrack}]
        /\ \A i \in Lanes : bind[i] = IF i \in InUse THEN tracks[i].id ELSE NoTrack
        /\ wires \subseteq Edges /\ heard \in [Nodes -> {0, 1}]
        /\ poly \in [Lanes -> {0, 1}] /\ \A i \in Lanes \ InUse : poly[i] = 0
    BY Facts, LimitFacts
  <1>2. wires' \subseteq Edges /\ heard' \in [Nodes -> {0, 1}]
    BY <1>1, PushTyped
  <1>3. bank' \in Seq([1..Len(tracks') -> LaneSet])
    BY <1>1 DEF Snapshot
  <1>4. /\ Placed(live', tracks', desc')
        /\ \A p \in 1..Len(bank') : p # cur' => Placed(bank'[p], tracks', desc')
    BY DEF PlacedHere
  <1> QED
    BY <1>1, <1>2, <1>3, <1>4, Established

\* The bank with the open pattern captured into it.
Caught == [bank EXCEPT ![cur] = Capture]

LEMMA CaughtFacts ==
  ASSUME IInv
  PROVE  /\ Caught \in Seq(Snapshot) /\ Len(Caught) = Len(bank)
         /\ \A p \in 1..Len(bank) : /\ Caught[p] = IF p = cur THEN Capture ELSE bank[p]
                                    /\ PlacedHere(Caught[p])
  <1>1. /\ bank \in Seq(Snapshot) /\ cur \in 1..Len(bank)
        /\ \A p \in 1..Len(bank) : p # cur => PlacedHere(bank[p])
    BY Facts DEF Snapshot, PlacedHere
  <1>2. Capture \in Snapshot /\ PlacedHere(Capture)
    BY CaptureFacts
  <1>3. /\ Caught \in Seq(Snapshot) /\ Len(Caught) = Len(bank)
        /\ \A p \in 1..Len(bank) : Caught[p] = IF p = cur THEN Capture ELSE bank[p]
    BY <1>1, <1>2, ExceptSeq DEF Caught
  <1> QED
    BY <1>1, <1>2, <1>3

LEMMA SwitchStep ==
  ASSUME IInv, NEW p \in 1..Len(bank), SwitchPattern(p)
  PROVE  IInv'
  <1>1. setup' \in Setups /\ ops' \in 0..setup'.ops
    BY SpendKeeps DEF SwitchPattern
  <1>2. /\ p # cur /\ bank' = Caught /\ live' = Restore(bank[p]) /\ cur' = p
        /\ UNCHANGED <<tracks, bind, desc, tables, poly>>
        /\ PushAllRestoredDefaults(wires, heard)
    BY DEF SwitchPattern, Caught, trackVars
  <1>3. bank[p] \in Snapshot /\ PlacedHere(bank[p]) /\ Len(bank) \in 1..MaxPatterns
    BY <1>2, Facts DEF Snapshot, PlacedHere
  <1> QED
    BY <1>1, <1>2, <1>3, RestoreFacts, CaughtFacts, PatternKeeps

LEMMA CloneStep ==
  ASSUME IInv, ClonePattern
  PROVE  IInv'
  <1>1. setup' \in Setups /\ ops' \in 0..setup'.ops
    BY SpendKeeps DEF ClonePattern
  <1>2. /\ Len(bank) < MaxPatterns /\ bank' = Append(Caught, Capture) /\ cur' = Len(bank) + 1
        /\ live' = live /\ UNCHANGED <<tracks, bind, desc, tables, poly>> /\ UNCHANGED <<wires, heard>>
    BY DEF ClonePattern, Caught, trackVars, graphVars
  <1>3. /\ live \in [Lanes -> LaneSet] /\ PlacedHere(live) /\ Len(bank) \in 1..MaxPatterns
        /\ \A i \in Lanes \ InUse : live[i] = BlankLane
    BY Facts DEF PlacedHere
  <1>4. /\ bank' \in Seq(Snapshot) /\ Len(bank') = Len(bank) + 1
        /\ \A q \in 1..Len(bank) : bank'[q] = Caught[q]
    BY <1>2, <1>3, CaughtFacts, CaptureFacts, AppendProperties
  <1>5. Len(bank') \in 1..MaxPatterns /\ cur' \in 1..Len(bank')
    BY <1>2, <1>3, <1>4, BankAssumption
  <1>6. \A q \in 1..Len(bank') : q # cur' => PlacedHere(bank'[q])
    BY <1>2, <1>3, <1>4, CaughtFacts
  <1> QED
    BY <1>1, <1>2, <1>3, <1>4, <1>5, <1>6, PatternKeeps

LEMMA DeletePatternStep ==
  ASSUME IInv, DeletePattern
  PROVE  IInv'
  <1>1. setup' \in Setups /\ ops' \in 0..setup'.ops
    BY SpendKeeps DEF DeletePattern
  <1>2. /\ Len(bank) > 1 /\ bank' = RemoveAt(bank, cur) /\ live' = Restore(bank'[cur'])
        /\ cur' = IF cur = Len(bank) THEN cur - 1 ELSE cur
        /\ UNCHANGED <<tracks, bind, desc, tables, poly>>
        /\ PushAllRestoredDefaults(wires, heard)
    BY DEF DeletePattern, trackVars
  <1>3. /\ bank \in Seq(Snapshot) /\ Len(bank) \in 1..MaxPatterns /\ cur \in 1..Len(bank)
        /\ \A q \in 1..Len(bank) : q # cur => PlacedHere(bank[q])
    BY Facts DEF Snapshot, PlacedHere
  <1>4. /\ bank' \in Seq(Snapshot) /\ Len(bank') = Len(bank) - 1
        /\ \A q \in 1..Len(bank) - 1 : bank'[q] = IF q < cur THEN bank[q] ELSE bank[q + 1]
    BY <1>2, <1>3, RemoveAtProperties
  <1>5. Len(bank') \in 1..MaxPatterns /\ cur' \in 1..Len(bank')
    BY <1>2, <1>3, <1>4, BankAssumption
  <1>6. ASSUME NEW q \in 1..Len(bank') PROVE PlacedHere(bank'[q])
    <2>1. CASE q < cur
      BY <1>3, <1>4, <2>1
    <2>2. CASE ~ q < cur
      <3>1. bank'[q] = bank[q + 1] /\ q + 1 \in 1..Len(bank) /\ q + 1 # cur
        BY <1>3, <1>4, <2>2
      <3> QED
        BY <1>3, <3>1
    <2> QED
      BY <2>1, <2>2
  <1>7. bank'[cur'] \in Snapshot
    BY <1>4, <1>5, ElementOfSeq
  <1> QED
    BY <1>1, <1>2, <1>4, <1>5, <1>6, <1>7, RestoreFacts, PatternKeeps

LEMMA PropagateStep ==
  ASSUME IInv, NEW i \in InUse, PropagateTrack(i)
  PROVE  IInv'
  <1> DEFINE page(p) == IF p = cur THEN Capture ELSE [bank[p] EXCEPT ![i] = Capture[i]]
  <1>1. setup' \in Setups /\ ops' \in 0..setup'.ops
    BY SpendKeeps DEF PropagateTrack
  <1>2. /\ Len(bank) \in Nat /\ Len(bank) \in 1..MaxPatterns
        /\ DOMAIN bank = 1..Len(bank) /\ cur \in 1..Len(bank) /\ InUse = 1..Len(tracks)
        /\ \A p \in 1..Len(bank) : /\ bank[p] \in Snapshot
                                   /\ p # cur => PlacedHere(bank[p])
    BY Facts, BankAssumption DEF Snapshot, PlacedHere
  <1>3. /\ bank' = [p \in 1..Len(bank) |-> page(p)] /\ cur' = cur /\ live' = live
        /\ UNCHANGED <<tracks, bind, desc, tables, poly>> /\ UNCHANGED <<wires, heard>>
    BY <1>2 DEF PropagateTrack, trackVars, graphVars
  <1>4. ASSUME NEW p \in 1..Len(bank) PROVE page(p) \in Snapshot /\ PlacedHere(page(p))
    <2>1. /\ Capture \in Snapshot /\ PlacedHere(Capture) /\ Capture[i] \in LaneSet
      BY CaptureFacts DEF Snapshot
    <2>2. CASE p = cur
      BY <2>1, <2>2
    <2>3. CASE p # cur
      <3> DEFINE told == [bank[p] EXCEPT ![i] = Capture[i]]
      <3>1. bank[p] \in [InUse -> LaneSet] /\ PlacedHere(bank[p])
        BY <1>2, <2>3 DEF Snapshot
      <3>2. /\ told \in [InUse -> LaneSet]
            /\ \A k \in InUse : told[k] = IF k = i THEN Capture[i] ELSE bank[p][k]
        BY <2>1, <3>1
      <3> HIDE DEF told
      <3>3. PlacedHere(told)
        BY <1>2, <2>1, <3>1, <3>2 DEF PlacedHere, Placed
      <3>4. page(p) = told
        BY <2>3 DEF told
      <3> QED
        BY <3>2, <3>3, <3>4 DEF Snapshot
    <2> QED
      BY <2>2, <2>3
  <1>5. bank' \in [1..Len(bank) -> Snapshot] /\ \A p \in 1..Len(bank) : PlacedHere(bank'[p])
    BY <1>3, <1>4
  <1>6. bank' \in Seq(Snapshot) /\ Len(bank') = Len(bank)
    BY <1>2, <1>5, FunctionIsSeq
  <1>7. /\ live \in [Lanes -> LaneSet] /\ PlacedHere(live)
        /\ \A k \in Lanes \ InUse : live[k] = BlankLane
    BY Facts DEF PlacedHere
  <1> QED
    BY <1>1, <1>2, <1>3, <1>5, <1>6, <1>7, PatternKeeps

-----------------------------------------------------------------------------
(* Effects *)

Chain == [1..Slots -> Effects \cup {NoFx}]

\* The chain of one track changes, and that track's lane in every pattern.
LEMMA ChainKeeps ==
  ASSUME IInv, setup' \in Setups, ops' \in 0..setup'.ops,
         NEW i \in InUse, NEW chain \in Chain, NEW lane \in LaneSet,
         NEW pages \in [1..Len(bank) -> LaneSet],
         Sits(lane, tracks[i].id, chain),
         \A p \in 1..Len(bank) : p # cur => Sits(pages[p], tracks[i].id, chain),
         UNCHANGED <<tracks, bind, cur, poly>>, tables' \in Tables,
         desc' = [desc EXCEPT ![i] = chain],
         live' = [live EXCEPT ![i] = lane],
         bank' = [p \in DOMAIN bank |-> IF p = cur THEN Capture'
                                        ELSE [bank[p] EXCEPT ![i] = pages[p]]],
         wires' \subseteq Edges, heard' \in [Nodes -> {0, 1}]
  PROVE  IInv'
  <1>1. /\ tracks \in Seq(TrackSet) /\ Len(tracks) \in Lanes /\ InUse = 1..Len(tracks)
        /\ InUse \subseteq Lanes /\ desc \in [Lanes -> Chain] /\ live \in [Lanes -> LaneSet]
        /\ Len(bank) \in 1..MaxPatterns /\ Len(bank) \in Nat /\ DOMAIN bank = 1..Len(bank)
        /\ cur \in 1..Len(bank)
        /\ bind \in [Lanes -> Tracks \cup {NoTrack}]
        /\ \A k \in Lanes : bind[k] = IF k \in InUse THEN tracks[k].id ELSE NoTrack
        /\ \A k \in Lanes \ InUse : live[k] = BlankLane
        /\ poly \in [Lanes -> {0, 1}] /\ \A k \in Lanes \ InUse : poly[k] = 0
        /\ Placed(live, tracks, desc)
    BY Facts, LimitFacts, BankAssumption DEF Tables, Chain
  <1>2. /\ desc' \in [Lanes -> Chain]
        /\ \A k \in Lanes : desc'[k] = IF k = i THEN chain ELSE desc[k]
    BY <1>1
  <1>3. /\ live' \in [Lanes -> LaneSet]
        /\ \A k \in Lanes : live'[k] = IF k = i THEN lane ELSE live[k]
    BY <1>1
  <1>4. Placed(live', tracks', desc')
    BY <1>1, <1>2, <1>3 DEF Placed
  <1>5. Capture' \in Snapshot
    <2>1. Capture' = CaptureOf(live', Len(tracks))
      BY DEF Capture, CaptureOf, InUse, NumTracks
    <2> QED
      BY <1>1, <1>3, <2>1, CaptureOfTyped DEF Snapshot
  <1>6. ASSUME NEW p \in 1..Len(bank)
        PROVE  bank'[p] \in Snapshot /\ (p # cur => Placed(bank'[p], tracks', desc'))
    <2>1. CASE p = cur
      BY <1>1, <1>5, <2>1
    <2>2. CASE p # cur
      <3>1. bank[p] \in [InUse -> LaneSet] /\ Placed(bank[p], tracks, desc)
        BY <2>2, Facts
      <3>2. bank'[p] = [bank[p] EXCEPT ![i] = pages[p]]
        BY <1>1, <2>2
      <3>3. /\ bank'[p] \in [InUse -> LaneSet]
            /\ \A k \in InUse : bank'[p][k] = IF k = i THEN pages[p] ELSE bank[p][k]
        BY <3>1, <3>2
      <3>4. Placed(bank'[p], tracks', desc')
        BY <1>1, <1>2, <2>2, <3>1, <3>3 DEF Placed
      <3> QED
        BY <3>3, <3>4 DEF Snapshot
    <2> QED
      BY <2>1, <2>2
  <1>7. bank' \in Seq(Snapshot) /\ Len(bank') = Len(bank)
    <2>1. bank' \in [1..Len(bank) -> Snapshot]
      BY <1>1, <1>6
    <2> QED
      BY <1>1, <2>1, FunctionIsSeq
  <1>8. /\ bank' \in Seq([1..Len(tracks') -> LaneSet]) /\ desc' \in Tables
        /\ \A k \in Lanes \ (1..Len(tracks')) : live'[k] = BlankLane
    BY <1>1, <1>2, <1>3, <1>7 DEF Snapshot, Tables, Chain
  <1> QED
    BY <1>1, <1>3, <1>4, <1>6, <1>7, <1>8, Established

LEMMA SlotFilled ==
  ASSUME NEW lane \in LaneSet, NEW s \in 1..Slots, NEW slot \in SlotSet, NEW fx \in Effects,
         NEW id, NEW chain \in Chain, Sits(lane, id, chain), slot.node = <<id, fx>>
  PROVE  /\ [chain EXCEPT ![s] = fx] \in Chain
         /\ WithSlot(lane, s, slot) \in LaneSet
         /\ Sits(WithSlot(lane, s, slot), id, [chain EXCEPT ![s] = fx])
  <1>1. fx # NoFx
    BY DEF Effects, Duck, Gain, NoFx
  <1>2. /\ [chain EXCEPT ![s] = fx] \in Chain
        /\ \A k \in 1..Slots : [chain EXCEPT ![s] = fx][k] = IF k = s THEN fx ELSE chain[k]
    BY DEF Chain
  <1>3. /\ WithSlot(lane, s, slot) \in LaneSet
        /\ \A k \in 1..Slots : WithSlot(lane, s, slot).fx[k] = IF k = s THEN slot ELSE lane.fx[k]
    BY SlotEdited
  <1> QED
    BY <1>1, <1>2, <1>3 DEF Sits, SlotNode

LEMMA LoadStep ==
  ASSUME IInv, NEW i \in InUse, NEW fx \in Effects, LoadEffect(i, fx)
  PROVE  IInv'
  <1> DEFINE node == <<tracks[i].id, fx>>
             slot == [node |-> node, np |-> 1, val |-> Default[fx]]
             free == {k \in 1..Slots : live[i].fx[k].node = NoNode}
             s == CHOOSE k \in free : \A m \in free : k <= m
             synced(p) == Synced(bank[p][i].fx[s], node, Default[fx])
             chain == [desc[i] EXCEPT ![s] = fx]
             pages == [p \in 1..Len(bank) |->
                         IF p = cur THEN BlankLane ELSE WithSlot(bank[p][i], s, synced(p))]
  <1>1. setup' \in Setups /\ ops' \in 0..setup'.ops
    BY SpendKeeps DEF LoadEffect
  <1>2. s \in 1..Slots
    <2>1. free # {} /\ free \in SUBSET Nat
      BY SMTT(20) DEF LoadEffect
    <2>2. \E k \in free : \A m \in free : k <= m
      BY <2>1, LeastExists
    <2> QED
      BY <2>2
  <1>3. /\ UNCHANGED <<tracks, bind, cur, poly>> /\ wires' = wires
        /\ desc' = [desc EXCEPT ![i][s] = fx]
        /\ live' = [live EXCEPT ![i].fx[s] = slot]
        /\ tables' = [tables EXCEPT ![i][s] = fx]
        /\ bank' = [p \in DOMAIN bank |->
                      IF p = cur THEN Capture'
                      ELSE [bank[p] EXCEPT ![i].fx[s] = Synced(@, node, Default[fx])]]
        /\ heard' = [heard EXCEPT ![node] = Default[fx]]
    BY DEF LoadEffect, trackVars
  <1> HIDE DEF s
  <1>4. /\ tracks[i].id \in Tracks /\ InUse \subseteq Lanes /\ InUse = 1..Len(tracks)
        /\ tables \in Tables /\ desc \in Tables
        /\ live[i] \in LaneSet /\ Placed(live, tracks, desc)
        /\ heard \in [Nodes -> {0, 1}] /\ wires \subseteq Edges
        /\ DOMAIN bank = 1..Len(bank) /\ cur \in 1..Len(bank)
        /\ \A p \in 1..Len(bank) : p # cur => /\ bank[p][i] \in LaneSet
                                              /\ Placed(bank[p], tracks, desc)
    BY Facts
  <1>5. Default[fx] \in {0, 1} /\ Default[fx] \in 0..MaxTracks
    BY BankAssumption DEF Default
  <1>6. node \in Nodes /\ slot \in SlotSet /\ slot.node = node
    BY <1>4, <1>5 DEF Nodes, SlotSet
  <1>7. desc[i] \in Chain /\ Sits(live[i], tracks[i].id, desc[i])
    BY <1>4 DEF Tables, Chain, Placed
  <1>8. /\ chain \in Chain /\ WithSlot(live[i], s, slot) \in LaneSet
        /\ Sits(WithSlot(live[i], s, slot), tracks[i].id, chain)
    BY <1>2, <1>4, <1>6, <1>7, SlotFilled
  <1>9. ASSUME NEW p \in 1..Len(bank), p # cur
        PROVE  /\ WithSlot(bank[p][i], s, synced(p)) \in LaneSet
               /\ Sits(WithSlot(bank[p][i], s, synced(p)), tracks[i].id, chain)
    <2>1. bank[p][i] \in LaneSet /\ Sits(bank[p][i], tracks[i].id, desc[i])
      BY <1>4, <1>9 DEF Placed
    <2>2. bank[p][i].fx[s] \in SlotSet
      BY <1>2, <2>1, LaneFields
    <2>3. synced(p) \in SlotSet /\ synced(p).node = node
      BY <1>5, <1>6, <2>2 DEF Synced, SlotSet
    <2> QED
      BY <1>2, <1>7, <2>1, <2>3, SlotFilled
  <1>10. /\ pages \in [1..Len(bank) -> LaneSet]
         /\ \A p \in 1..Len(bank) : p # cur => Sits(pages[p], tracks[i].id, chain)
    BY <1>9, BlankTyped
  <1>11. /\ desc' = [desc EXCEPT ![i] = chain]
         /\ live' = [live EXCEPT ![i] = WithSlot(live[i], s, slot)]
    BY <1>3 DEF WithSlot
  <1>12. bank' = [p \in DOMAIN bank |-> IF p = cur THEN Capture'
                                        ELSE [bank[p] EXCEPT ![i] = pages[p]]]
    <2>1. ASSUME NEW p \in 1..Len(bank), p # cur
          PROVE  [bank[p] EXCEPT ![i].fx[s] = Synced(@, node, Default[fx])]
                   = [bank[p] EXCEPT ![i] = pages[p]]
      BY <2>1 DEF WithSlot
    <2> QED
      BY <1>3, <1>4, <2>1
  <1>13. tables' \in Tables /\ heard' \in [Nodes -> {0, 1}]
    BY <1>2, <1>3, <1>4, <1>5 DEF Tables
  <1>14. UNCHANGED <<tracks, bind, cur, poly>> /\ wires' \subseteq Edges
    BY <1>3, <1>4
  <1> HIDE DEF slot, node, chain, pages
  <1> QED
    BY <1>1, <1>8, <1>10, <1>11, <1>12, <1>13, <1>14, ChainKeeps

\* A gap closed in the slots and in the chain.
LEMMA GapClosed ==
  ASSUME NEW lane \in LaneSet, NEW s \in 1..Slots, NEW id, NEW chain \in Chain,
         Sits(lane, id, chain), NEW slots \in [1..Slots -> SlotSet],
         \A k \in 1..Slots : slots[k].node = Closed(lane.fx, s, EmptySlot)[k].node
  PROVE  /\ Closed(chain, s, NoFx) \in Chain
         /\ WithChain(lane, slots) \in LaneSet
         /\ Sits(WithChain(lane, slots), id, Closed(chain, s, NoFx))
  <1>1. \A k \in 1..Slots : k # Slots => k + 1 \in 1..Slots
    BY BankAssumption
  <1>2. Closed(chain, s, NoFx) \in Chain
    BY <1>1 DEF Closed, Chain
  <1>3. lane.inst \in InstrumentSet
    BY LaneFields
  <1>4. WithChain(lane, slots) \in LaneSet /\ WithChain(lane, slots).fx = slots
    BY <1>3, LaneUpdated
  <1>5. ASSUME NEW k \in 1..Slots
        PROVE  slots[k].node = IF Closed(chain, s, NoFx)[k] = NoFx THEN NoNode
                               ELSE <<id, Closed(chain, s, NoFx)[k]>>
    <2>1. CASE k = Slots
      BY <2>1 DEF Closed, EmptySlot
    <2>2. CASE k # Slots /\ k < s
      BY <2>2 DEF Closed, Sits, SlotNode
    <2>3. CASE k # Slots /\ ~ k < s
      BY <1>1, <2>3 DEF Closed, Sits, SlotNode
    <2> QED
      BY <2>1, <2>2, <2>3
  <1> QED
    BY <1>2, <1>4, <1>5 DEF Sits, SlotNode

LEMMA UnloadStep ==
  ASSUME IInv, NEW i \in InUse, NEW s \in 1..Slots, DeleteEffect(i, s)
  PROVE  IInv'
  <1> DEFINE node == live[i].fx[s].node
             chain == Closed(desc[i], s, NoFx)
             slots == [k \in 1..Slots |->
                         IF k = Slots THEN EmptySlot
                         ELSE IF k < s THEN live[i].fx[k]
                         ELSE Restored(live[i].fx[k], Captured(live[i].fx[k + 1]))]
             lane == WithChain(live[i], slots)
             pages == [p \in 1..Len(bank) |->
                         IF p = cur THEN BlankLane
                         ELSE WithChain(bank[p][i], Closed(bank[p][i].fx, s, EmptySlot))]
  <1>1. setup' \in Setups /\ ops' \in 0..setup'.ops
    BY SpendKeeps DEF DeleteEffect
  <1>2. /\ UNCHANGED <<tracks, bind, cur, poly>>
        /\ desc' = [desc EXCEPT ![i] = chain]
        /\ live' = [live EXCEPT ![i] = lane]
        /\ tables' = [tables EXCEPT ![i][Slots] = NoFx]
    BY DEF DeleteEffect, trackVars, WithChain
  <1>3. /\ bank' = [p \in DOMAIN bank |->
                      IF p = cur THEN Capture'
                      ELSE [bank[p] EXCEPT ![i].fx = Closed(@, s, EmptySlot)]]
        /\ PushAllRestoredDefaults({w \in wires : w[2] # node}, [heard EXCEPT ![node] = 0])
    BY DEF DeleteEffect
  <1>4. /\ tracks \in Seq(TrackSet) /\ Len(tracks) \in Lanes
        /\ InUse \subseteq Lanes /\ InUse = 1..Len(tracks)
        /\ tables \in Tables /\ desc \in Tables
        /\ live \in [Lanes -> LaneSet] /\ live[i] \in LaneSet /\ Placed(live, tracks, desc)
        /\ heard \in [Nodes -> {0, 1}] /\ wires \subseteq Edges
        /\ DOMAIN bank = 1..Len(bank) /\ cur \in 1..Len(bank)
        /\ \A p \in 1..Len(bank) : p # cur => /\ bank[p][i] \in LaneSet
                                              /\ Placed(bank[p], tracks, desc)
    BY Facts
  <1>5. desc[i] \in Chain /\ Sits(live[i], tracks[i].id, desc[i])
    BY <1>4 DEF Tables, Chain, Placed
  <1>6. /\ EmptySlot \in SlotSet
        /\ \A k \in 1..Slots : k # Slots => k + 1 \in 1..Slots
        /\ live[i].fx \in [1..Slots -> SlotSet]
    BY <1>4, LaneFields, BankAssumption DEF EmptySlot, SlotSet
  <1>7. ASSUME NEW k \in 1..Slots
        PROVE  /\ slots[k] \in SlotSet
               /\ slots[k].node = Closed(live[i].fx, s, EmptySlot)[k].node
    <2>1. CASE k = Slots \/ k < s
      BY <1>6, <2>1 DEF Closed
    <2>2. CASE k # Slots /\ ~ k < s
      <3>1. live[i].fx[k] \in SlotSet /\ live[i].fx[k + 1] \in SlotSet
        BY <1>6, <2>2
      <3>2. /\ slots[k] \in SlotSet
            /\ slots[k].node = live[i].fx[k + 1].node
        BY <2>2, <3>1, SlotSaved, SlotBack
      <3> QED
        BY <2>2, <3>2 DEF Closed
    <2> QED
      BY <2>1, <2>2
  <1>8. slots \in [1..Slots -> SlotSet]
    BY <1>7
  <1> HIDE DEF slots
  <1>9. chain \in Chain /\ lane \in LaneSet /\ Sits(lane, tracks[i].id, chain)
    BY <1>4, <1>5, <1>7, <1>8, GapClosed
  <1>10. ASSUME NEW p \in 1..Len(bank), p # cur
         PROVE  pages[p] \in LaneSet /\ Sits(pages[p], tracks[i].id, chain)
    <2>1. bank[p][i] \in LaneSet /\ Sits(bank[p][i], tracks[i].id, desc[i])
      BY <1>4, <1>10 DEF Placed
    <2>2. bank[p][i].fx \in [1..Slots -> SlotSet]
      BY <2>1, LaneFields
    <2>3. Closed(bank[p][i].fx, s, EmptySlot) \in [1..Slots -> SlotSet]
      BY <1>6, <2>2 DEF Closed
    <2>4. pages[p] = WithChain(bank[p][i], Closed(bank[p][i].fx, s, EmptySlot))
      BY <1>10
    <2> QED
      BY <1>5, <2>1, <2>3, <2>4, GapClosed
  <1>11. pages \in [1..Len(bank) -> LaneSet]
    BY <1>10, BlankTyped
  <1>12. bank' = [p \in DOMAIN bank |-> IF p = cur THEN Capture'
                                        ELSE [bank[p] EXCEPT ![i] = pages[p]]]
    <2>1. ASSUME NEW p \in 1..Len(bank), p # cur
          PROVE  [bank[p] EXCEPT ![i].fx = Closed(@, s, EmptySlot)]
                   = [bank[p] EXCEPT ![i] = pages[p]]
      BY <2>1 DEF WithChain
    <2> QED
      BY <1>3, <1>4, <2>1
  <1>13. tables' \in Tables
    BY <1>2, <1>4, BankAssumption DEF Tables
  <1>14. wires' \subseteq Edges /\ heard' \in [Nodes -> {0, 1}]
    <2>1. live' \in [Lanes -> LaneSet]
      BY <1>2, <1>4, <1>9
    <2>2. {w \in wires : w[2] # node} \in SUBSET Edges
      BY <1>4
    <2>3. [heard EXCEPT ![node] = 0] \in [Nodes -> {0, 1}]
      BY <1>4
    <2>4. tracks' \in Seq(TrackSet) /\ Len(tracks') \in Lanes
      BY <1>2, <1>4
    <2> QED
      BY <1>3, <2>1, <2>2, <2>3, <2>4, PushTyped
  <1> HIDE DEF chain, lane, pages
  <1> QED
    BY <1>1, <1>2, <1>9, <1>10, <1>11, <1>12, <1>13, <1>14, ChainKeeps

-----------------------------------------------------------------------------
(* Tracks *)

NoChain == [s \in 1..Slots |-> NoFx]

LEMMA AddStep ==
  ASSUME IInv, NEW id \in Tracks, NEW kind \in Kinds, AddTrack(id, kind)
  PROVE  IInv'
  <1> DEFINE n == Len(tracks)
             i == n + 1
             inst == [np |-> 1, val |-> InstrumentDefault]
             extended == [BlankLane EXCEPT !.inst = IF kind = "custom" THEN inst ELSE @]
             track == [id |-> id, kind |-> kind]
  <1>1. setup' \in Setups /\ ops' \in 0..setup'.ops
    BY SpendKeeps DEF AddTrack
  <1>2. /\ i \in Lanes /\ tracks' = Append(tracks, track)
        /\ bind' = [bind EXCEPT ![i] = id]
        /\ live' = [live EXCEPT ![i] = WithInstrument(live[i], inst)]
        /\ desc' = [desc EXCEPT ![i] = NoChain]
        /\ bank' = [p \in DOMAIN bank |-> Append(bank[p], extended)]
        /\ UNCHANGED <<cur, tables, poly, wires, heard>>
    BY DEF AddTrack, NumTracks, WithInstrument, NoChain, graphVars
  <1>3. /\ tracks \in Seq(TrackSet) /\ n \in Nat /\ InUse = 1..n /\ InUse \subseteq Lanes
        /\ desc \in [Lanes -> Chain] /\ tables \in Tables /\ live \in [Lanes -> LaneSet]
        /\ Len(bank) \in 1..MaxPatterns /\ Len(bank) \in Nat /\ DOMAIN bank = 1..Len(bank)
        /\ cur \in 1..Len(bank)
        /\ bind \in [Lanes -> Tracks \cup {NoTrack}]
        /\ \A k \in Lanes : bind[k] = IF k \in InUse THEN tracks[k].id ELSE NoTrack
        /\ \A k \in Lanes \ InUse : live[k] = BlankLane
        /\ wires \subseteq Edges /\ heard \in [Nodes -> {0, 1}]
    BY Facts, BankAssumption DEF Lanes, Tables, Chain
  <1>4. track \in TrackSet /\ track.id = id
    BY DEF TrackSet
  <1>5. /\ tracks' \in Seq(TrackSet) /\ Len(tracks') = i
        /\ \A k \in 1..n : tracks'[k] = tracks[k]
        /\ tracks'[i].id = id
    BY <1>2, <1>3, <1>4, AppendProperties
  <1>6. /\ NoChain \in Chain /\ desc' \in [Lanes -> Chain] /\ desc'[i] = NoChain
        /\ \A k \in 1..n : desc'[k] = desc[k]
    BY <1>2, <1>3 DEF NoChain, Chain
  <1>7. inst \in InstrumentSet
    BY DEF InstrumentSet, InstrumentDefault
  <1>8. extended \in LaneSet /\ \A s \in 1..Slots : SlotNode(extended, s) = NoNode
    <2>1. extended = BlankLane \/ extended = WithInstrument(BlankLane, inst)
      BY BlankTyped DEF WithInstrument, BlankLane
    <2> QED
      BY <1>7, <2>1, BlankTyped, LaneEdited DEF SlotNode
  <1>9. /\ WithInstrument(live[i], inst) \in LaneSet
        /\ \A s \in 1..Slots : SlotNode(WithInstrument(live[i], inst), s) = NoNode
    <2>1. live[i] = BlankLane
      BY <1>2, <1>3
    <2> QED
      BY <1>7, <2>1, BlankTyped, LaneEdited DEF SlotNode
  <1> HIDE DEF extended, inst, track
  <1>10. /\ live' \in [Lanes -> LaneSet]
         /\ \A k \in Lanes : live'[k] = IF k = i THEN WithInstrument(live[i], inst) ELSE live[k]
    BY <1>2, <1>3, <1>9
  <1>11. Sits(live'[i], tracks'[i].id, desc'[i]) /\ Sits(extended, tracks'[i].id, desc'[i])
    BY <1>2, <1>6, <1>8, <1>9, <1>10 DEF Sits, NoChain
  <1>12. Placed(live', tracks', desc')
    <2>1. Placed(live, tracks, desc)
      BY Facts
    <2> QED
      BY <1>2, <1>3, <1>5, <1>6, <1>10, <1>11, <2>1 DEF Placed
  <1>13. ASSUME NEW p \in 1..Len(bank)
         PROVE  /\ bank'[p] \in [1..i -> LaneSet]
                /\ p # cur => Placed(bank'[p], tracks', desc')
    <2>1. bank[p] \in [1..n -> LaneSet] /\ (p # cur => Placed(bank[p], tracks, desc))
      BY <1>3, Facts
    <2>2. bank[p] \in Seq(LaneSet) /\ Len(bank[p]) = n
      BY <1>3, <2>1, FunctionIsSeq
    <2>3. bank'[p] = Append(bank[p], extended)
      BY <1>2, <1>3
    <2>4. /\ bank'[p] \in Seq(LaneSet) /\ Len(bank'[p]) = i
          /\ \A k \in 1..n : bank'[p][k] = bank[p][k]
          /\ bank'[p][i] = extended
      BY <1>8, <2>2, <2>3, AppendProperties
    <2>5. bank'[p] \in [1..i -> LaneSet]
      BY <2>4, LenProperties
    <2>6. p # cur => Placed(bank'[p], tracks', desc')
      BY <1>3, <1>5, <1>6, <1>11, <2>1, <2>4 DEF Placed
    <2> QED
      BY <2>5, <2>6
  <1>14. bank' \in Seq([1..Len(tracks') -> LaneSet]) /\ Len(bank') = Len(bank)
    <2>1. bank' \in [1..Len(bank) -> [1..Len(tracks') -> LaneSet]]
      BY <1>2, <1>3, <1>5, <1>13
    <2> QED
      BY <1>3, <2>1, FunctionIsSeq
  <1>15. /\ bind' \in [Lanes -> Tracks \cup {NoTrack}]
         /\ \A k \in Lanes : bind'[k] = IF k \in 1..Len(tracks') THEN tracks'[k].id ELSE NoTrack
    BY <1>2, <1>3, <1>5
  <1>16. /\ \A k \in Lanes \ (1..Len(tracks')) : live'[k] = BlankLane
         /\ poly' \in [Lanes -> {0, 1}] /\ \A k \in Lanes \ (1..Len(tracks')) : poly'[k] = 0
    BY <1>2, <1>3, <1>5, <1>10, LimitFacts
  <1>17. /\ desc' \in Tables /\ tables' \in Tables /\ Len(tracks') \in Lanes
         /\ Len(bank') \in 1..MaxPatterns /\ cur' \in 1..Len(bank')
         /\ \A p \in 1..Len(bank') : p # cur' => Placed(bank'[p], tracks', desc')
         /\ wires' \subseteq Edges /\ heard' \in [Nodes -> {0, 1}]
    BY <1>2, <1>3, <1>5, <1>6, <1>13, <1>14 DEF Tables, Chain
  <1> QED
    BY <1>1, <1>5, <1>10, <1>12, <1>14, <1>15, <1>16, <1>17, Established

\* Renumbering a snapshot's selections leaves its nodes alone.
LEMMA RemapTyped ==
  ASSUME IInv, NEW snap \in Snapshot, NEW deleted \in InUse
  PROVE  /\ RemapSnapshot(snap, deleted) \in Snapshot
         /\ \A i \in InUse, s \in 1..Slots :
              SlotNode(RemapSnapshot(snap, deleted)[i], s) = SlotNode(snap[i], s)
  <1> DEFINE slot(i, s) ==
               LET was == snap[i].fx[s]
               IN  IF i # deleted /\ desc[i][s] = Duck /\ was.np > 0
                   THEN [was EXCEPT !.val = RemapSelection(i, was.val, deleted, NumTracks)]
                   ELSE was
             slots(i) == [s \in 1..Slots |-> slot(i, s)]
  <1>1. RemapSnapshot(snap, deleted) = [i \in InUse |-> WithChain(snap[i], slots(i))]
    BY DEF RemapSnapshot, WithChain, Snapshot
  <1>2. NumTracks \in Nat \ {0} /\ NumTracks <= MaxTracks
    BY Facts, BankAssumption DEF NumTracks, Lanes
  <1>3. ASSUME NEW i \in InUse
        PROVE  /\ WithChain(snap[i], slots(i)) \in LaneSet
               /\ \A s \in 1..Slots : SlotNode(WithChain(snap[i], slots(i)), s) = SlotNode(snap[i], s)
    <2>1. snap[i] \in LaneSet
      BY DEF Snapshot
    <2>2. snap[i].fx \in [1..Slots -> SlotSet] /\ snap[i].inst \in InstrumentSet
      BY <2>1, LaneFields
    <2>3. ASSUME NEW s \in 1..Slots
          PROVE  slot(i, s) \in SlotSet /\ slot(i, s).node = snap[i].fx[s].node
      <3>1. snap[i].fx[s] \in SlotSet
        BY <2>2
      <3> DEFINE selection == RemapSelection(i, snap[i].fx[s].val, deleted, NumTracks)
      <3>2. selection \in 0..NumTracks - 1
        BY <1>2, RemappedIsBelowTotal
      <3>3. selection \in 0..MaxTracks
        BY <1>2, <3>2, BankAssumption
      <3>4. slot(i, s) \in {snap[i].fx[s], [snap[i].fx[s] EXCEPT !.val = selection]}
        OBVIOUS
      <3> HIDE DEF selection, slot
      <3> QED
        BY <3>1, <3>3, <3>4 DEF SlotSet
    <2> HIDE DEF slot
    <2>4. /\ slots(i) \in [1..Slots -> SlotSet]
          /\ \A s \in 1..Slots : slots(i)[s].node = snap[i].fx[s].node
      BY <2>3
    <2> HIDE DEF slots
    <2> QED
      BY <2>1, <2>2, <2>4, LaneUpdated DEF SlotNode
  <1> HIDE DEF slots
  <1> QED
    BY <1>1, <1>3 DEF Snapshot

\* The vectors without the deleted track.
NewTracks(deleted) == RemoveAt(tracks, deleted)
NewDesc(deleted) == Without(desc, deleted, NoChain)
Removed(snap, deleted) == RemoveAt(RemapSnapshot(snap, deleted), deleted)

LEMMA NewTracksFacts ==
  ASSUME IInv, NEW deleted \in InUse, NumTracks > 1
  PROVE  /\ NewTracks(deleted) \in Seq(TrackSet)
         /\ Len(NewTracks(deleted)) = NumTracks - 1 /\ NumTracks - 1 \in Lanes
         /\ NumTracks \in Lanes /\ NumTracks \in Nat
         /\ \A k \in 1..NumTracks - 1 :
              NewTracks(deleted)[k] = IF k < deleted THEN tracks[k] ELSE tracks[k + 1]
  <1>1. /\ tracks \in Seq(TrackSet) /\ NumTracks = Len(tracks) /\ NumTracks \in Lanes
        /\ deleted \in 1..Len(tracks)
    BY Facts DEF NumTracks
  <1>2. NumTracks - 1 \in Lanes /\ NumTracks \in Nat
    BY <1>1, BankAssumption DEF Lanes
  <1> QED
    BY <1>1, <1>2, RemoveAtProperties DEF NewTracks

LEMMA NewDescFacts ==
  ASSUME IInv, NEW deleted \in InUse, NumTracks > 1
  PROVE  /\ NewDesc(deleted) \in Tables
         /\ \A k \in 1..NumTracks - 1 :
              NewDesc(deleted)[k] = IF k < deleted THEN desc[k] ELSE desc[k + 1]
  <1>1. desc \in [Lanes -> Chain] /\ NumTracks \in Lanes /\ deleted \in 1..NumTracks
    BY Facts DEF Tables, Chain, NumTracks
  <1>2. NoChain \in Chain
    BY DEF NoChain, Chain
  <1>3. \A k \in Lanes : k < NumTracks => k + 1 \in Lanes
    BY <1>1, BankAssumption DEF Lanes
  <1>4. NewDesc(deleted) \in [Lanes -> Chain]
    BY <1>1, <1>2, <1>3, BankAssumption DEF NewDesc, Without, Lanes
  <1>5. \A k \in 1..NumTracks - 1 :
          NewDesc(deleted)[k] = IF k < deleted THEN desc[k] ELSE desc[k + 1]
    BY <1>1, BankAssumption DEF NewDesc, Without, Lanes
  <1> QED
    BY <1>4, <1>5 DEF Tables, Chain

LEMMA RemovedFacts ==
  ASSUME IInv, NEW deleted \in InUse, NumTracks > 1,
         NEW snap \in Snapshot, PlacedHere(snap)
  PROVE  /\ Removed(snap, deleted) \in [1..NumTracks - 1 -> LaneSet]
         /\ Placed(Removed(snap, deleted), NewTracks(deleted), NewDesc(deleted))
  <1> DEFINE remapped == RemapSnapshot(snap, deleted)
             removed == Removed(snap, deleted)
  <1>1. InUse = 1..NumTracks /\ NumTracks \in Nat
    BY NewTracksFacts DEF InUse
  <1>2. /\ remapped \in [1..NumTracks -> LaneSet]
        /\ \A i \in InUse, s \in 1..Slots : SlotNode(remapped[i], s) = SlotNode(snap[i], s)
    BY <1>1, RemapTyped DEF Snapshot
  <1>3. remapped \in Seq(LaneSet) /\ Len(remapped) = NumTracks
    BY <1>1, <1>2, FunctionIsSeq
  <1>4. removed = RemoveAt(remapped, deleted)
    BY DEF Removed
  <1> HIDE DEF remapped, removed
  <1>5. /\ removed \in Seq(LaneSet) /\ Len(removed) = NumTracks - 1
        /\ \A k \in 1..NumTracks - 1 :
             removed[k] = IF k < deleted THEN remapped[k] ELSE remapped[k + 1]
    BY <1>1, <1>3, <1>4, RemoveAtProperties
  <1>6. removed \in [1..NumTracks - 1 -> LaneSet]
    BY <1>5, LenProperties
  <1>7. \A i \in InUse : Sits(remapped[i], tracks[i].id, desc[i])
    BY <1>2 DEF PlacedHere, Placed, Sits, InUse, NumTracks
  <1>8. ASSUME NEW k \in 1..NumTracks - 1
        PROVE  Sits(removed[k], NewTracks(deleted)[k].id, NewDesc(deleted)[k])
    <2>1. k \in InUse /\ k + 1 \in InUse
      BY <1>1
    <2>2. CASE k < deleted
      BY <1>5, <1>7, <2>1, <2>2, NewTracksFacts, NewDescFacts
    <2>3. CASE ~ k < deleted
      BY <1>5, <1>7, <2>1, <2>3, NewTracksFacts, NewDescFacts
    <2> QED
      BY <2>2, <2>3
  <1> QED
    BY <1>6, <1>8, NewTracksFacts DEF Placed, removed

LEMMA RemoveStep ==
  ASSUME IInv, NEW deleted \in InUse, RemoveTrack(deleted)
  PROVE  IInv'
  <1> DEFINE current == Removed(Capture, deleted)
             n == NumTracks - 1
             id == tracks[deleted].id
  <1>1. setup' \in Setups /\ ops' \in 0..setup'.ops
    BY SpendKeeps DEF RemoveTrack
  <1>2. /\ NumTracks > 1 /\ tracks' = NewTracks(deleted) /\ desc' = NewDesc(deleted)
        /\ live' = [Restore(current) EXCEPT ![NumTracks] = BlankLane]
        /\ bind' = ShiftedBindings(deleted) /\ cur' = cur
        /\ poly' = [poly EXCEPT ![NumTracks] = 0]
    BY DEF RemoveTrack, Compacted, NewTracks, NewDesc, NoChain, Removed
  <1>3. bank' = [p \in DOMAIN bank |-> IF p = cur THEN current ELSE Removed(bank[p], deleted)]
    BY DEF RemoveTrack, Removed
  <1>4. /\ tables' = [i \in Lanes |-> [s \in 1..Slots |->
                        IF i >= NumTracks \/ desc'[i][s] # NoFx THEN desc'[i][s] ELSE tables[i][s]]]
        /\ PushAllRestoredDefaults({w \in wires : w[1] # id /\ w[2][1] # id}, heard)
    BY DEF RemoveTrack
  <1>5. /\ tracks' \in Seq(TrackSet) /\ Len(tracks') = n /\ n \in Lanes /\ n \in Nat
        /\ NumTracks \in Lanes /\ NumTracks \in Nat /\ InUse = 1..NumTracks
        /\ \A k \in 1..n : tracks'[k] = IF k < deleted THEN tracks[k] ELSE tracks[k + 1]
        /\ desc' \in Tables
    <2>1. /\ NewTracks(deleted) \in Seq(TrackSet) /\ Len(NewTracks(deleted)) = n /\ n \in Lanes
          /\ NumTracks \in Lanes /\ NumTracks \in Nat
          /\ \A k \in 1..n : NewTracks(deleted)[k] = IF k < deleted THEN tracks[k] ELSE tracks[k + 1]
      BY <1>2, NewTracksFacts
    <2>2. n \in Nat
      BY <1>2, <2>1
    <2>3. NewDesc(deleted) \in Tables
      BY <1>2, NewDescFacts
    <2> QED
      BY <1>2, <2>1, <2>2, <2>3 DEF InUse
  <1>6. /\ Len(bank) \in 1..MaxPatterns /\ Len(bank) \in Nat /\ DOMAIN bank = 1..Len(bank)
        /\ cur \in 1..Len(bank) /\ tables \in Tables /\ live \in [Lanes -> LaneSet]
        /\ bind \in [Lanes -> Tracks \cup {NoTrack}]
        /\ \A k \in Lanes : bind[k] = IF k \in InUse THEN tracks[k].id ELSE NoTrack
        /\ \A k \in Lanes \ InUse : live[k] = BlankLane
        /\ wires \subseteq Edges /\ heard \in [Nodes -> {0, 1}]
    BY Facts, BankAssumption
  <1>7. current \in [1..n -> LaneSet] /\ Placed(current, tracks', desc')
    BY <1>2, CaptureFacts, RemovedFacts
  <1>8. ASSUME NEW p \in 1..Len(bank)
        PROVE  /\ bank'[p] \in [1..n -> LaneSet]
               /\ p # cur => Placed(bank'[p], tracks', desc')
    <2>1. CASE p = cur
      BY <1>3, <1>6, <1>7, <2>1
    <2>2. CASE p # cur
      <3>1. bank[p] \in Snapshot /\ PlacedHere(bank[p])
        BY <2>2, Facts DEF Snapshot, PlacedHere
      <3>2. bank'[p] = Removed(bank[p], deleted)
        BY <1>3, <1>6, <2>2
      <3> QED
        BY <1>2, <3>1, <3>2, RemovedFacts
    <2> QED
      BY <2>1, <2>2
  <1>9. bank' \in Seq([1..Len(tracks') -> LaneSet]) /\ Len(bank') = Len(bank)
    <2>1. bank' \in [1..Len(bank) -> [1..Len(tracks') -> LaneSet]]
      BY <1>3, <1>5, <1>6, <1>8
    <2> QED
      BY <1>6, <2>1, FunctionIsSeq, SMTT(20)
  <1>10. /\ live' \in [Lanes -> LaneSet]
         /\ \A i \in 1..n, s \in 1..Slots : SlotNode(live'[i], s) = SlotNode(current[i], s)
         /\ \A i \in Lanes \ (1..n) : live'[i] = BlankLane
    <2>1. Restore(current) = RestoreOf(live, current)
      BY DEF Restore, RestoreOf
    <2>2. /\ RestoreOf(live, current) \in [Lanes -> LaneSet]
          /\ \A i \in 1..n, s \in 1..Slots :
               SlotNode(RestoreOf(live, current)[i], s) = SlotNode(current[i], s)
          /\ \A i \in Lanes \ (1..n) : RestoreOf(live, current)[i] = live[i]
      <3>1. n <= MaxTracks
        BY <1>5, BankAssumption DEF Lanes
      <3> HIDE DEF current, n
      <3> QED
        BY <1>5, <1>6, <1>7, <3>1, RestoreOfTyped, SMTT(20)
    <2> HIDE DEF current
    <2>3. /\ live' \in [Lanes -> LaneSet]
          /\ \A i \in Lanes : live'[i] = IF i = NumTracks THEN BlankLane
                                         ELSE RestoreOf(live, current)[i]
      BY <1>2, <2>1, <2>2, BlankTyped
    <2>4. \A i \in 1..n : i \in Lanes /\ i # NumTracks
      BY <1>5, BankAssumption DEF Lanes
    <2>5. \A i \in Lanes \ (1..n) : i = NumTracks \/ i \in Lanes \ InUse
      BY <1>5, BankAssumption DEF Lanes
    <2> QED
      BY <1>6, <2>2, <2>3, <2>4, <2>5
  <1>11. Placed(live', tracks', desc')
    BY <1>5, <1>7, <1>10 DEF Placed, Sits
  <1>12. /\ bind' \in [Lanes -> Tracks \cup {NoTrack}]
         /\ \A k \in Lanes : bind'[k] = IF k \in 1..n THEN tracks'[k].id ELSE NoTrack
    <2>1. \A k \in Lanes : bind'[k] = IF k = NumTracks THEN NoTrack
                                      ELSE IF k \in deleted..NumTracks THEN bind[k + 1] ELSE bind[k]
      BY <1>2 DEF ShiftedBindings
    <2>2. bind' = [k \in Lanes |-> bind'[k]]
      BY <1>2 DEF ShiftedBindings
    <2>3. ASSUME NEW k \in Lanes
          PROVE  /\ bind'[k] = IF k \in 1..n THEN tracks'[k].id ELSE NoTrack
                 /\ bind'[k] \in Tracks \cup {NoTrack}
      <3>1. k \in Nat /\ deleted \in Nat /\ deleted <= NumTracks /\ 1 <= k
        BY <1>5, BankAssumption DEF Lanes
      <3>2. \A j \in Lanes : /\ bind[j] \in Tracks \cup {NoTrack}
                             /\ bind[j] = IF j \in InUse THEN tracks[j].id ELSE NoTrack
        BY <1>6
      <3>3. CASE k < deleted
        <4>1. k \in InUse /\ k \in 1..n /\ bind'[k] = bind[k]
          BY <1>5, <2>1, <3>1, <3>3
        <4>2. tracks'[k] = tracks[k]
          BY <1>5, <3>3, <4>1
        <4> QED
          BY <3>2, <4>1, <4>2
      <3>4. CASE deleted <= k /\ k < NumTracks
        <4>1. k + 1 \in Lanes /\ k + 1 \in InUse /\ k \in 1..n
          BY <1>5, <3>1, <3>4, BankAssumption DEF Lanes
        <4>2. bind'[k] = bind[k + 1]
          BY <1>5, <2>1, <3>1, <3>4
        <4>3. tracks'[k] = tracks[k + 1]
          BY <1>5, <3>1, <3>4, <4>1
        <4> QED
          BY <3>2, <4>1, <4>2, <4>3
      <3>5. CASE k = NumTracks
        BY <1>5, <2>1, <3>5
      <3>6. CASE k > NumTracks
        <4>1. k \notin InUse /\ k \notin 1..n /\ bind'[k] = bind[k]
          BY <1>5, <2>1, <3>1, <3>6
        <4> QED
          BY <3>2, <4>1
      <3> QED
        BY <1>5, <3>1, <3>3, <3>4, <3>5, <3>6
    <2> QED
      BY <2>2, <2>3
  <1>13. tables' \in Tables
    BY <1>4, <1>5, <1>6, ZenonT(40) DEF Tables
  <1>14. wires' \subseteq Edges /\ heard' \in [Nodes -> {0, 1}]
    <2>1. {w \in wires : w[1] # id /\ w[2][1] # id} \in SUBSET Edges
      BY <1>6
    <2> QED
      BY <1>4, <1>5, <1>6, <1>10, <2>1, PushTyped
  <1>15. /\ Len(tracks') \in Lanes /\ Len(bank') \in 1..MaxPatterns /\ cur' \in 1..Len(bank')
         /\ \A k \in Lanes \ (1..Len(tracks')) : live'[k] = BlankLane
         /\ \A p \in 1..Len(bank') : p # cur' => Placed(bank'[p], tracks', desc')
    BY <1>2, <1>5, <1>6, <1>8, <1>9, <1>10
  <1>16. /\ poly' \in [Lanes -> {0, 1}]
         /\ \A k \in Lanes \ (1..Len(tracks')) : poly'[k] = 0
    <2>1. poly \in [Lanes -> {0, 1}] /\ \A k \in Lanes \ InUse : poly[k] = 0
      BY LimitFacts
    <2> QED
      BY <1>2, <1>5, <2>1
  <1> QED
    BY <1>1, <1>5, <1>9, <1>10, <1>11, <1>12, <1>13, <1>14, <1>15, <1>16, Established

-----------------------------------------------------------------------------
(* The start, and the theorems *)

LEMMA StartTracks ==
  ASSUME Init
  PROVE  /\ setup.ops \in Nat /\ setup.fx \in Chain
         /\ tracks \in Seq(TrackSet) /\ NumTracks \in Lanes
         /\ InUse \subseteq Lanes /\ \A i \in InUse : tracks[i].id \in Tracks
  <1>1. /\ setup.kinds \in Seq(Kinds) /\ Len(setup.kinds) \in Lanes
        /\ setup.fx \in Chain /\ setup.ops \in Nat
        /\ setup.names \in Seq(Tracks) /\ Len(setup.names) = Len(setup.kinds)
    BY BankAssumption DEF Init, Chain
  <1> DEFINE n == Len(setup.kinds)
  <1>2. n \in Nat /\ 1..n \subseteq Lanes /\ DOMAIN setup.kinds = 1..n
    BY <1>1, LenProperties, BankAssumption DEF Lanes
  <1>3. \A i \in 1..n : setup.kinds[i] \in Kinds /\ setup.names[i] \in Tracks
    BY <1>1, ElementOfSeq
  <1>4. tracks = [i \in 1..n |-> [id |-> setup.names[i], kind |-> setup.kinds[i]]]
    BY <1>2 DEF Init
  <1>5. tracks \in [1..n -> TrackSet] /\ \A i \in 1..n : tracks[i].id \in Tracks
    BY <1>3, <1>4 DEF TrackSet
  <1>6. tracks \in Seq(TrackSet) /\ Len(tracks) = n
    BY <1>2, <1>5, FunctionIsSeq
  <1> QED
    BY <1>1, <1>2, <1>5, <1>6 DEF NumTracks, InUse

LEMMA StartLanes ==
  ASSUME Init
  PROVE  /\ desc \in [Lanes -> Chain] /\ live \in [Lanes -> LaneSet]
         /\ Placed(live, tracks, desc)
         /\ \A i \in Lanes \ InUse : live[i] = BlankLane
  <1> DEFINE slots(i) == [s \in 1..Slots |-> StartSlot(tracks[i].id, setup.fx[s])]
             lane(i) == [body |-> 0, inst |-> [np |-> 1, val |-> InstrumentDefault],
                         fx |-> slots(i)]
  <1>1. /\ desc = [i \in Lanes |-> IF i \in InUse THEN setup.fx ELSE NoChain]
        /\ live = [i \in Lanes |-> IF i \notin InUse THEN BlankLane ELSE lane(i)]
    BY Zenon DEF Init, NoChain
  <1>2. NoChain \in Chain
    BY DEF NoChain, Chain
  <1>3. ASSUME NEW i \in InUse, NEW s \in 1..Slots
        PROVE  /\ slots(i)[s] \in SlotSet
               /\ slots(i)[s].node = IF setup.fx[s] = NoFx THEN NoNode
                                     ELSE <<tracks[i].id, setup.fx[s]>>
    <2>1. tracks[i].id \in Tracks /\ setup.fx[s] \in Effects \cup {NoFx}
      BY StartTracks DEF Chain
    <2>2. \A fx \in Effects : Default[fx] \in 0..MaxTracks
      BY BankAssumption DEF Default
    <2>3. CASE setup.fx[s] = NoFx
      BY <2>3, BankAssumption DEF StartSlot, EmptySlot, SlotSet
    <2>4. CASE setup.fx[s] # NoFx
      BY <2>1, <2>2, <2>4 DEF StartSlot, SlotSet, Nodes
    <2> QED
      BY <2>3, <2>4
  <1>4. ASSUME NEW i \in InUse
        PROVE  lane(i) \in LaneSet /\ Sits(lane(i), tracks[i].id, setup.fx)
    <2>1. slots(i) \in [1..Slots -> SlotSet]
      BY <1>3
    <2>2. lane(i) \in LaneSet /\ lane(i).fx = slots(i)
      BY <2>1 DEF LaneSet, InstrumentDefault
    <2> QED
      BY <1>3, <2>2 DEF Sits, SlotNode
  <1> HIDE DEF lane
  <1>5. desc \in [Lanes -> Chain] /\ live \in [Lanes -> LaneSet]
    BY <1>1, <1>2, <1>4, StartTracks, BlankTyped
  <1>6. \A i \in InUse : Sits(live[i], tracks[i].id, desc[i])
    BY <1>1, <1>4, StartTracks
  <1> QED
    BY <1>1, <1>5, <1>6 DEF Placed, InUse, NumTracks

LEMMA InitEstablishes == Init => IInv
  <1> SUFFICES ASSUME Init PROVE IInv
    OBVIOUS
  <1>1. /\ setup \in Setups /\ ops \in 0..setup.ops
    BY StartTracks DEF Init
  <1>2. /\ desc \in Tables /\ tables \in Tables /\ live \in [Lanes -> LaneSet]
        /\ poly \in [Lanes -> {0, 1}]
    BY StartLanes DEF Init, Tables, Chain
  <1>3. Capture \in Snapshot
    <2>1. Capture = CaptureOf(live, Len(tracks))
      BY DEF Capture, CaptureOf, InUse, NumTracks
    <2> QED
      BY <2>1, StartTracks, StartLanes, CaptureOfTyped DEF Snapshot, InUse, NumTracks
  <1>4. bank \in Seq(Snapshot) /\ Len(bank) = 1 /\ cur = 1
    BY <1>3 DEF Init
  <1>5. bank \in Seq([InUse -> LaneSet]) /\ Len(bank) \in 1..MaxPatterns /\ cur \in DOMAIN bank
    BY <1>4, BankAssumption, LenProperties DEF Snapshot
  <1>6. BindingsFollow /\ bind \in [Lanes -> Tracks \cup {NoTrack}]
    BY StartTracks DEF Init, BindingsFollow
  <1>7. heard \in [Nodes -> {0, 1}] /\ wires \subseteq (Tracks \X Nodes)
    BY DEF Init, Nodes, Default
  <1>8. tracks \in Seq([id : Tracks, kind : Kinds]) /\ NumTracks \in Lanes
    BY StartTracks DEF TrackSet
  <1>9. TypeOK
    BY <1>1, <1>2, <1>5, <1>6, <1>7, <1>8, Zenon DEF TypeOK
  <1>10. UnusedLanesBlank
    BY StartLanes DEF Init, UnusedLanesBlank
  <1>11. SlotsFollowGraph
    <2> SUFFICES ASSUME NEW p \in DOMAIN bank, NEW i \in InUse, NEW s \in 1..Slots
                 PROVE  live[i].fx[s].node
                          = IF desc[i][s] = NoFx THEN NoNode ELSE <<tracks[i].id, desc[i][s]>>
      BY <1>4, LenProperties DEF SlotsFollowGraph
    <2> QED
      BY StartLanes DEF Placed, Sits, SlotNode, InUse, NumTracks
  <1> QED
    BY <1>6, <1>9, <1>10, <1>11 DEF IInv

LEMMA StutterKeeps ==
  ASSUME IInv, UNCHANGED vars
  PROVE  IInv'
  <1>1. UNCHANGED <<tracks, bind, desc, bank, cur, tables, poly, live, wires, heard>>
    BY DEF vars, trackVars, stateVars, graphVars
  <1>2. setup' \in Setups /\ ops' \in 0..setup'.ops
    BY Facts DEF vars
  <1>3. /\ live' \in [Lanes -> LaneSet] /\ wires' \subseteq Edges /\ heard' \in [Nodes -> {0, 1}]
        /\ \A i \in Lanes \ InUse : live'[i] = live[i]
        /\ \A i \in InUse, s \in 1..Slots : SlotNode(live'[i], s) = SlotNode(live[i], s)
    BY <1>1, Facts
  <1> QED
    BY <1>1, <1>2, <1>3, EditKeeps

LEMMA NextKeeps == IInv /\ [Next]_vars => IInv'
  <1> SUFFICES ASSUME IInv, [Next]_vars PROVE IInv'
    OBVIOUS
  <1>1. DOMAIN bank = 1..Len(bank)
    BY Facts
  <1>2. ASSUME NEW i \in InUse, NEW v \in {0, 1}, EditBody(i, v) PROVE IInv'
    BY <1>2, BodyStep
  <1>3. ASSUME NEW i \in InUse, NEW v \in {0, 1}, SetInstrument(i, v) PROVE IInv'
    BY <1>3, InstrumentStep
  <1>4. ASSUME NEW i \in InUse, NEW s \in 1..Slots, NEW v \in {0, 1}, SetEffect(i, s, v)
        PROVE  IInv'
    BY <1>4, EffectStep
  <1>5. ASSUME NEW i \in InUse, NEW s \in 1..Slots, NEW selection \in 0..(NumTracks - 1),
               SelectSidechain(i, s, selection)
        PROVE  IInv'
    BY <1>5, SidechainStep
  <1>6. ASSUME NEW p \in DOMAIN bank, SwitchPattern(p) PROVE IInv'
    BY <1>1, <1>6, SwitchStep
  <1>7. CASE ClonePattern
    BY <1>7, CloneStep
  <1>8. CASE DeletePattern
    BY <1>8, DeletePatternStep
  <1>9. ASSUME NEW i \in InUse, PropagateTrack(i) PROVE IInv'
    BY <1>9, PropagateStep
  <1>10. ASSUME NEW i \in InUse, NEW fx \in Effects, LoadEffect(i, fx) PROVE IInv'
    BY <1>10, LoadStep
  <1>11. ASSUME NEW i \in InUse, NEW s \in 1..Slots, DeleteEffect(i, s) PROVE IInv'
    BY <1>11, UnloadStep
  <1>12. ASSUME NEW id \in Tracks, NEW kind \in Kinds, AddTrack(id, kind) PROVE IInv'
    BY <1>12, AddStep
  <1>13. ASSUME NEW i \in InUse, RemoveTrack(i) PROVE IInv'
    BY <1>13, RemoveStep
  <1>14. ASSUME NEW i \in InUse, NEW v \in {0, 1}, SetPolyphony(i, v) PROVE IInv'
    BY <1>14, PolyphonyStep
  <1>15. CASE UNCHANGED vars
    BY <1>15, StutterKeeps
  <1> QED
    BY <1>2, <1>3, <1>4, <1>5, <1>6, <1>7, <1>8, <1>9, <1>10, <1>11, <1>12, <1>13, <1>14, <1>15
       DEF Next

\* Whatever the player does, tracks, lanes, snapshots, bindings and chains of
\* effects fit together.
THEOREM InvariantHolds == Spec => []IInv
  BY InitEstablishes, NextKeeps, PTL DEF Spec

\* The state keeps its types: every snapshot has a lane per track, and the open
\* pattern is one of the bank's.
THEOREM TypeCorrect == Spec => []TypeOK
  <1>1. IInv => TypeOK
    BY DEF IInv
  <1> QED
    BY <1>1, InvariantHolds, PTL

\* The audio callback's bindings of a lane are those of the track in it
\* (shift_runtime_track_bindings_left).
THEOREM BindingsAreRight == Spec => []BindingsFollow
  <1>1. IInv => BindingsFollow
    BY DEF IInv
  <1> QED
    BY <1>1, InvariantHolds, PTL

\* A lane without a track holds nothing that the next track could inherit
\* (remove_track clears the lane that is left over).
THEOREM NothingLeaks == Spec => []UnusedLanesBlank
  <1>1. IInv => UnusedLanesBlank
    BY DEF IInv
  <1> QED
    BY <1>1, InvariantHolds, PTL

\* In every pattern a slot names the effect that is in its place in the graph.
THEOREM SlotsAreRight == Spec => []SlotsFollowGraph
  <1>1. IInv => SlotsFollowGraph
    BY DEF IInv
  <1> QED
    BY <1>1, InvariantHolds, PTL

-----------------------------------------------------------------------------
(* A selection counts the tracks other than the owner of the effect *)

\* Two tracks are not counted alike.
LEMMA OthersCountedApart ==
  ASSUME NEW owner \in Nat, NEW total \in Nat,
         NEW t \in Others(owner, total), NEW u \in Others(owner, total),
         Cardinality(Others(owner, t)) = Cardinality(Others(owner, u))
  PROVE  t = u
  <1> DEFINE c == Cardinality(Others(owner, t))
             d == Cardinality(Others(owner, u))
  <1>1. t \in Nat /\ u \in Nat /\ t # owner /\ u # owner
    BY DEF Others
  <1>2. /\ c = IF owner \in 1..t THEN t - 1 ELSE t
        /\ d = IF owner \in 1..u THEN u - 1 ELSE u
    BY <1>1, OthersCounted
  <1>3. c = d
    OBVIOUS
  <1> HIDE DEF c, d
  <1>4. CASE owner = 0
    BY <1>1, <1>2, <1>3, <1>4
  <1>5. CASE owner # 0
    <2>1. /\ owner \in 1..t <=> owner <= t
          /\ owner \in 1..u <=> owner <= u
      BY <1>1, <1>5
    <2> QED
      BY <1>1, <1>2, <1>3, <2>1
  <1> QED
    BY <1>4, <1>5

\* The selection that stands for a track leads back to that track.
LEMMA SelectionLeadsBack ==
  ASSUME NEW total \in Nat, NEW owner \in 1..total, NEW source \in Others(owner, total)
  PROVE  SidechainSourceTrack(owner, SidechainSelectionIndex(owner, source, total), total) = source
  <1> DEFINE selection == Cardinality(Others(owner, source))
             matches == {t \in Others(owner, total) : Cardinality(Others(owner, t)) = selection}
  <1>1. SidechainSelectionIndex(owner, source, total) = selection
    BY DEF SidechainSelectionIndex
  <1>2. source \in Nat /\ source # owner /\ source >= 1 /\ owner \in Nat /\ owner >= 1
    BY DEF Others
  <1>3. selection = IF owner \in 1..source THEN source - 1 ELSE source
    BY <1>2, OthersCounted
  <1>4. selection # 0
    BY <1>2, <1>3
  <1>5. matches = {source}
    BY <1>2, OthersCountedApart
  <1> HIDE DEF selection, matches
  <1>6. SidechainSourceTrack(owner, selection, total) = CHOOSE t \in matches : TRUE
    BY <1>4, <1>5 DEF SidechainSourceTrack, matches
  <1> QED
    BY <1>1, <1>5, <1>6

\* Another track at the end is no source of an old selection.
LEMMA SourceAmongMore ==
  ASSUME NEW total \in Nat, NEW owner \in 1..total, NEW selection \in Nat, selection < total
  PROVE  SidechainSourceTrack(owner, selection, total + 1)
           = SidechainSourceTrack(owner, selection, total)
  <1> DEFINE among(n) == {t \in Others(owner, n) : Cardinality(Others(owner, t)) = selection}
  <1>1. Cardinality(Others(owner, total + 1)) = total
    BY OthersCounted
  <1>2. ASSUME NEW t \in Others(owner, total + 1), Cardinality(Others(owner, t)) = selection
        PROVE  t \in Others(owner, total)
    <2>1. t # total + 1
      BY <1>1, <1>2
    <2>2. t \in 1..total + 1 /\ t # owner
      BY <1>2 DEF Others
    <2> QED
      BY <2>1, <2>2 DEF Others
  <1>3. Others(owner, total) \subseteq Others(owner, total + 1)
    BY DEF Others
  <1>4. among(total + 1) = among(total)
    BY <1>2, <1>3
  <1>5. \A n : SidechainSourceTrack(owner, selection, n)
                = IF selection = 0 \/ among(n) = {} THEN NoTrack
                  ELSE CHOOSE t \in among(n) : TRUE
    BY Zenon DEF SidechainSourceTrack
  <1> HIDE DEF among
  <1> QED
    BY <1>4, <1>5

\* Renumbering: a track is deleted, and the effect of another goes on listening to
\* the track it listened to, in its new place, or to none if that is the deleted.
LEMMA SelectionRemapped ==
  ASSUME NEW total \in Nat, NEW owner \in 1..total, NEW deleted \in 1..total, owner # deleted,
         NEW selection
  PROVE  LET source == SidechainSourceTrack(owner, selection, total)
             remapped == RemapSelection(owner, selection, deleted, total)
         IN  /\ remapped \in Nat /\ remapped < total - 1
             /\ SidechainSourceTrack(MovedDown(owner, deleted), remapped, total - 1)
                  = IF source \in {NoTrack, deleted} THEN NoTrack ELSE MovedDown(source, deleted)
  <1> DEFINE source == SidechainSourceTrack(owner, selection, total)
             o == MovedDown(owner, deleted)
             s == MovedDown(source, deleted)
             remapped == RemapSelection(owner, selection, deleted, total)
  <1>1. total - 1 \in Nat /\ total - 1 > 0 /\ o \in 1..total - 1
    BY DEF MovedDown
  <1>2. CASE source \in {NoTrack, deleted}
    <2>1. remapped = 0
      BY <1>2 DEF RemapSelection
    <2>2. SidechainSourceTrack(o, 0, total - 1) = NoTrack
      BY DEF SidechainSourceTrack
    <2> QED
      BY <1>1, <1>2, <2>1, <2>2
  <1>3. CASE source \notin {NoTrack, deleted}
    <2>1. source \in 1..total /\ source # owner /\ source # deleted
      BY <1>3, SourceIsTrack DEF Others
    <2> HIDE DEF source
    <2>2. s \in 1..total - 1 /\ s # o
      BY <2>1 DEF MovedDown
    <2>3. remapped = SidechainSelectionIndex(o, s, total - 1)
      BY <1>3 DEF RemapSelection, source
    <2> HIDE DEF o, s, remapped
    <2>4. s \in Others(o, total - 1)
      BY <2>2 DEF Others
    <2>5. remapped = Cardinality(Others(o, s))
      BY <2>3, <2>4 DEF SidechainSelectionIndex
    <2>6. Cardinality(Others(o, s)) = IF o \in 1..s THEN s - 1 ELSE s
      BY <2>2, OthersCounted
    <2>7. remapped \in Nat /\ remapped < total - 1
      BY <1>1, <2>2, <2>5, <2>6
    <2>8. SidechainSourceTrack(o, remapped, total - 1) = s
      BY <1>1, <2>3, <2>4, SelectionLeadsBack
    <2> QED
      BY <1>3, <2>7, <2>8 DEF source, o, s, remapped
  <1> QED
    BY <1>2, <1>3

-----------------------------------------------------------------------------
(* The invariant.  An edge or a value of a node is that of one slot only as  *)
(* tracks have different nodes and each effect once; a selection names the   *)
(* same track when one is added only as it is below their number; and the    *)
(* slots of the other patterns will be those of the open one.                *)

SlotFits(slot, fx, n) ==
  /\ fx = NoFx => slot.np = 0
  /\ fx = Gain /\ slot.np > 0 => slot.val \in {0, 1}
  /\ fx = Duck /\ slot.np > 0 => slot.val < n
LaneFits(lane, chain, n) == \A s \in 1..Slots : SlotFits(lane.fx[s], chain[s], n)
Fits(lanes, vector, chains) ==
  \A i \in 1..Len(vector) : LaneFits(lanes[i], chains[i], Len(vector))

Apart(vector) == \A i, j \in 1..Len(vector) : vector[i].id = vector[j].id => i = j
Once(chain) == \A j, k \in 1..Slots : chain[j] = chain[k] => j = k \/ chain[j] = NoFx
Settled ==
  /\ Apart(tracks) /\ \A i \in 1..Len(tracks) : Once(desc[i])
  /\ Fits(live, tracks, desc)
  /\ \A p \in 1..Len(bank) : p # cur => Fits(bank[p], tracks, desc)

\* Every effect that is addressed through its own table sounds as its slot says.
NodesSoundAsSet == \A p \in Reached : heard[SlotAt(p).node] = SlotAt(p).val

WInv == IInv /\ Settled /\ SelectionIsWired /\ NodesSoundAsSet

-----------------------------------------------------------------------------
(* Saved and restored, a slot fits as before *)

LEMMA SlotSavedFits ==
  ASSUME NEW slot \in SlotSet, NEW fx, NEW n \in Nat, SlotFits(slot, fx, n)
  PROVE  SlotFits(Captured(slot), fx, n)
  BY DEF SlotFits, Captured, SlotSet

LEMMA SlotBackFits ==
  ASSUME NEW slot \in SlotSet, NEW snap \in SlotSet, NEW fx, NEW n \in Nat, SlotFits(snap, fx, n)
  PROVE  SlotFits(Restored(slot, snap), fx, n)
  BY DEF SlotFits, Restored, SlotSet

LEMMA CapturedFits ==
  ASSUME NEW lane \in LaneSet, NEW chain, NEW n \in Nat, LaneFits(lane, chain, n)
  PROVE  LaneFits(CapturedLane(lane), chain, n)
  <1>1. lane.fx \in [1..Slots -> SlotSet] /\ lane.inst \in InstrumentSet
    BY LaneFields
  <1> DEFINE inst == Captured(lane.inst)
             fx == [s \in 1..Slots |-> Captured(lane.fx[s])]
  <1>2. CapturedLane(lane) = WithParts(lane, inst, fx)
    BY DEF CapturedLane, WithParts
  <1>3. WithParts(lane, inst, fx).fx = fx
    BY DEF WithParts, LaneSet
  <1>4. ASSUME NEW s \in 1..Slots PROVE SlotFits(CapturedLane(lane).fx[s], chain[s], n)
    <2>1. CapturedLane(lane).fx[s] = Captured(lane.fx[s])
      BY <1>2, <1>3
    <2>2. lane.fx[s] \in SlotSet
      BY <1>1
    <2> QED
      BY <2>1, <2>2, SlotSavedFits DEF LaneFits
  <1> QED
    BY <1>4 DEF LaneFits

LEMMA RestoredFits ==
  ASSUME NEW lane \in LaneSet, NEW snap \in LaneSet, NEW chain, NEW n \in Nat,
         LaneFits(snap, chain, n)
  PROVE  LaneFits(RestoredLane(lane, snap), chain, n)
  <1>1. lane.fx \in [1..Slots -> SlotSet] /\ snap.fx \in [1..Slots -> SlotSet]
    BY LaneFields
  <1>2. ASSUME NEW s \in 1..Slots PROVE SlotFits(RestoredLane(lane, snap).fx[s], chain[s], n)
    <2>1. RestoredLane(lane, snap).fx[s] = Restored(lane.fx[s], snap.fx[s])
      BY DEF RestoredLane
    <2>2. lane.fx[s] \in SlotSet /\ snap.fx[s] \in SlotSet
      BY <1>1
    <2> QED
      BY <2>1, <2>2, SlotBackFits DEF LaneFits
  <1> QED
    BY <1>2 DEF LaneFits

FitsHere(lanes) == Fits(lanes, tracks, desc)

LEMMA CaptureFits ==
  ASSUME IInv, Settled
  PROVE  FitsHere(Capture)
  <1>1. /\ live \in [Lanes -> LaneSet] /\ InUse = 1..Len(tracks) /\ InUse \subseteq Lanes
        /\ Len(tracks) \in Nat
    BY Facts DEF Lanes
  <1>2. ASSUME NEW i \in InUse PROVE LaneFits(Capture[i], desc[i], Len(tracks))
    <2>1. live[i] \in LaneSet /\ LaneFits(live[i], desc[i], Len(tracks))
      BY <1>1 DEF Settled, Fits
    <2>2. Capture[i] = CapturedLane(live[i])
      BY DEF Capture
    <2> QED
      BY <1>1, <2>1, <2>2, CapturedFits
  <1> QED
    BY <1>1, <1>2 DEF FitsHere, Fits

LEMMA RestoreFits ==
  ASSUME IInv, NEW snap \in Snapshot, FitsHere(snap)
  PROVE  FitsHere(Restore(snap))
  <1>1. /\ live \in [Lanes -> LaneSet] /\ InUse = 1..Len(tracks) /\ InUse \subseteq Lanes
        /\ Len(tracks) \in Nat /\ DOMAIN snap = InUse
    BY Facts DEF Lanes, Snapshot
  <1>2. ASSUME NEW i \in InUse PROVE LaneFits(Restore(snap)[i], desc[i], Len(tracks))
    <2>1. /\ live[i] \in LaneSet /\ snap[i] \in LaneSet
          /\ LaneFits(snap[i], desc[i], Len(tracks))
      BY <1>1 DEF Snapshot, FitsHere, Fits
    <2>2. Restore(snap)[i] = RestoredLane(live[i], snap[i])
      BY <1>1 DEF Restore
    <2> QED
      BY <1>1, <2>1, <2>2, RestoredFits
  <1> QED
    BY <1>1, <1>2 DEF FitsHere, Fits

-----------------------------------------------------------------------------
(* What the operations do to the values: edits and patterns *)

\* The tracks and their effects stay.
LEMMA PatternSettles ==
  ASSUME Settled, UNCHANGED <<tracks, desc>>, FitsHere(live'),
         \A p \in 1..Len(bank') : p # cur' => FitsHere(bank'[p])
  PROVE  Settled'
  BY DEF Settled, FitsHere

LEMMA EditSettles ==
  ASSUME IInv, Settled, UNCHANGED <<tracks, desc, bank, cur>>,
         \A i \in InUse, s \in 1..Slots : SlotFits(live'[i].fx[s], desc[i][s], Len(tracks))
  PROVE  Settled'
  <1>1. FitsHere(live')
    BY DEF FitsHere, Fits, LaneFits, InUse, NumTracks
  <1>2. \A p \in 1..Len(bank') : p # cur' => FitsHere(bank'[p])
    BY DEF Settled, FitsHere
  <1> QED
    BY <1>1, <1>2, PatternSettles

LEMMA CaughtFits ==
  ASSUME IInv, Settled, NEW p \in 1..Len(bank)
  PROVE  FitsHere(Caught[p])
  <1>1. Caught[p] = IF p = cur THEN Capture ELSE bank[p]
    BY CaughtFacts
  <1>2. p # cur => FitsHere(bank[p])
    BY DEF Settled, FitsHere
  <1> QED
    BY <1>1, <1>2, CaptureFits

LEMMA SwitchSettles ==
  ASSUME IInv, Settled, NEW p \in 1..Len(bank), SwitchPattern(p)
  PROVE  Settled'
  <1>1. /\ p # cur /\ bank' = Caught /\ live' = Restore(bank[p]) /\ cur' = p
        /\ UNCHANGED <<tracks, desc>>
    BY DEF SwitchPattern, Caught, trackVars
  <1>2. bank[p] \in Snapshot /\ FitsHere(bank[p])
    BY <1>1, Facts DEF Snapshot, Settled, FitsHere
  <1>3. Len(Caught) = Len(bank)
    BY CaughtFacts
  <1> QED
    BY <1>1, <1>2, <1>3, RestoreFits, CaughtFits, PatternSettles

LEMMA CloneSettles ==
  ASSUME IInv, Settled, ClonePattern
  PROVE  Settled'
  <1>1. /\ bank' = Append(Caught, Capture) /\ cur' = Len(bank) + 1 /\ live' = live
        /\ UNCHANGED <<tracks, desc>>
    BY DEF ClonePattern, Caught, trackVars
  <1>2. Len(bank) \in Nat
    BY Facts
  <1>3. /\ Len(bank') = Len(bank) + 1
        /\ \A q \in 1..Len(bank) : bank'[q] = Caught[q]
    BY <1>1, CaughtFacts, CaptureFacts, AppendProperties
  <1>4. \A q \in 1..Len(bank') : q # cur' => FitsHere(bank'[q])
    BY <1>1, <1>2, <1>3, CaughtFits
  <1>5. FitsHere(live')
    BY <1>1 DEF Settled, FitsHere
  <1> QED
    BY <1>1, <1>4, <1>5, PatternSettles

LEMMA DeletePatternSettles ==
  ASSUME IInv, Settled, DeletePattern
  PROVE  Settled'
  <1>1. /\ Len(bank) > 1 /\ bank' = RemoveAt(bank, cur) /\ live' = Restore(bank'[cur'])
        /\ cur' = IF cur = Len(bank) THEN cur - 1 ELSE cur
        /\ UNCHANGED <<tracks, desc>>
    BY DEF DeletePattern, trackVars
  <1>2. /\ bank \in Seq(Snapshot) /\ Len(bank) \in Nat /\ cur \in 1..Len(bank)
        /\ \A q \in 1..Len(bank) : q # cur => FitsHere(bank[q])
    BY Facts DEF Snapshot, FitsHere, Settled
  <1>3. /\ bank' \in Seq(Snapshot) /\ Len(bank') = Len(bank) - 1
        /\ \A q \in 1..Len(bank) - 1 : bank'[q] = IF q < cur THEN bank[q] ELSE bank[q + 1]
    BY <1>1, <1>2, RemoveAtProperties
  <1>4. ASSUME NEW q \in 1..Len(bank') PROVE FitsHere(bank'[q])
    <2>1. CASE q < cur
      BY <1>2, <1>3, <2>1
    <2>2. CASE ~ q < cur
      <3>1. bank'[q] = bank[q + 1] /\ q + 1 \in 1..Len(bank) /\ q + 1 # cur
        BY <1>2, <1>3, <2>2
      <3> QED
        BY <1>2, <3>1
    <2> QED
      BY <2>1, <2>2
  <1>5. cur' \in 1..Len(bank')
    BY <1>1, <1>2, <1>3
  <1>6. bank'[cur'] \in Snapshot
    BY <1>3, <1>5, ElementOfSeq
  <1>7. FitsHere(live')
    BY <1>1, <1>4, <1>5, <1>6, RestoreFits
  <1> QED
    BY <1>1, <1>4, <1>7, PatternSettles

LEMMA PropagateSettles ==
  ASSUME IInv, Settled, NEW i \in InUse, PropagateTrack(i)
  PROVE  Settled'
  <1>1. /\ DOMAIN bank = 1..Len(bank) /\ InUse = 1..Len(tracks) /\ Len(bank) \in Nat
        /\ \A p \in 1..Len(bank) : bank[p] \in Snapshot
        /\ \A p \in 1..Len(bank) : p # cur => FitsHere(bank[p])
    <2>1. /\ DOMAIN bank = 1..Len(bank) /\ InUse = 1..Len(tracks) /\ Len(bank) \in Nat
          /\ \A p \in 1..Len(bank) : bank[p] \in Snapshot
      BY Facts DEF Snapshot
    <2> QED
      BY <2>1 DEF FitsHere, Settled
  <1>2. /\ bank' = [p \in 1..Len(bank) |->
                      IF p = cur THEN Capture ELSE [bank[p] EXCEPT ![i] = Capture[i]]]
        /\ cur' = cur /\ live' = live /\ UNCHANGED <<tracks, desc>>
    BY <1>1 DEF PropagateTrack, trackVars
  <1>3. Len(bank') = Len(bank)
    BY <1>1, <1>2
  <1>4. ASSUME NEW p \in 1..Len(bank), p # cur PROVE FitsHere(bank'[p])
    <2>1. bank'[p] = [bank[p] EXCEPT ![i] = Capture[i]]
      BY <1>2, <1>4
    <2>2. bank[p] \in [InUse -> LaneSet]
      BY <1>1 DEF Snapshot
    <2>3. \A k \in InUse : bank'[p][k] = IF k = i THEN Capture[i] ELSE bank[p][k]
      BY <2>1, <2>2
    <2>4. FitsHere(Capture) /\ FitsHere(bank[p])
      BY <1>1, <1>4, CaptureFits
    <2> QED
      BY <1>1, <2>3, <2>4 DEF FitsHere, Fits
  <1>5. FitsHere(live')
    BY <1>2 DEF Settled, FitsHere
  <1> QED
    BY <1>2, <1>3, <1>4, <1>5, PatternSettles

-----------------------------------------------------------------------------
(* Effects that come and go *)

LEMMA ChainSettles ==
  ASSUME IInv, Settled, NEW i \in InUse, NEW chain \in Chain, NEW lane, NEW pages,
         Once(chain), LaneFits(lane, chain, Len(tracks)),
         \A p \in 1..Len(bank) : p # cur => LaneFits(pages[p], chain, Len(tracks)),
         UNCHANGED <<tracks, cur>>,
         desc' = [desc EXCEPT ![i] = chain],
         live' = [live EXCEPT ![i] = lane],
         Len(bank') = Len(bank),
         \A p \in 1..Len(bank) : p # cur => bank'[p] = [bank[p] EXCEPT ![i] = pages[p]]
  PROVE  Settled'
  <1>1. /\ InUse = 1..Len(tracks) /\ InUse \subseteq Lanes
        /\ desc \in Tables /\ live \in [Lanes -> LaneSet]
        /\ \A p \in 1..Len(bank) : bank[p] \in [InUse -> LaneSet]
    BY Facts
  <1>2. /\ \A k \in InUse : desc'[k] = IF k = i THEN chain ELSE desc[k]
        /\ \A k \in InUse : live'[k] = IF k = i THEN lane ELSE live[k]
    BY <1>1 DEF Tables
  <1>3. /\ Apart(tracks) /\ \A k \in InUse : Once(desc[k])
        /\ Fits(live, tracks, desc)
        /\ \A p \in 1..Len(bank) : p # cur => Fits(bank[p], tracks, desc)
    BY <1>1 DEF Settled
  <1>4. \A k \in InUse : Once(desc'[k])
    BY <1>2, <1>3
  <1>5. Fits(live', tracks, desc')
    BY <1>1, <1>2, <1>3 DEF Fits
  <1>6. ASSUME NEW p \in 1..Len(bank), p # cur PROVE Fits(bank'[p], tracks, desc')
    <2>1. \A k \in InUse : bank'[p][k] = IF k = i THEN pages[p] ELSE bank[p][k]
      BY <1>1, <1>6
    <2> QED
      BY <1>1, <1>2, <1>3, <1>6, <2>1 DEF Fits
  <1> QED
    BY <1>1, <1>3, <1>4, <1>5, <1>6 DEF Settled

LEMMA FilledFits ==
  ASSUME NEW lane \in LaneSet, NEW s \in 1..Slots, NEW slot \in SlotSet, NEW fx \in Effects,
         NEW chain \in Chain, NEW n \in Nat, LaneFits(lane, chain, n), SlotFits(slot, fx, n)
  PROVE  LaneFits(WithSlot(lane, s, slot), [chain EXCEPT ![s] = fx], n)
  <1>1. \A k \in 1..Slots : [chain EXCEPT ![s] = fx][k] = IF k = s THEN fx ELSE chain[k]
    BY DEF Chain
  <1>2. \A k \in 1..Slots : WithSlot(lane, s, slot).fx[k] = IF k = s THEN slot ELSE lane.fx[k]
    BY SlotEdited
  <1> QED
    BY <1>1, <1>2 DEF LaneFits

LEMMA LoadSettles ==
  ASSUME IInv, Settled, NEW i \in InUse, NEW fx \in Effects, LoadEffect(i, fx)
  PROVE  Settled'
  <1> DEFINE node == <<tracks[i].id, fx>>
             slot == [node |-> node, np |-> 1, val |-> Default[fx]]
             free == {k \in 1..Slots : live[i].fx[k].node = NoNode}
             s == CHOOSE k \in free : \A m \in free : k <= m
             synced(p) == Synced(bank[p][i].fx[s], node, Default[fx])
             chain == [desc[i] EXCEPT ![s] = fx]
             lane == WithSlot(live[i], s, slot)
             pages == [p \in 1..Len(bank) |-> WithSlot(bank[p][i], s, synced(p))]
             n == Len(tracks)
  <1>1. s \in 1..Slots /\ live[i].fx[s].node = NoNode
    <2>1. free # {} /\ free \in SUBSET Nat
      BY SMTT(20) DEF LoadEffect
    <2>2. \E k \in free : \A m \in free : k <= m
      BY <2>1, LeastExists
    <2> QED
      BY <2>2
  <1>2. /\ UNCHANGED <<tracks, cur>>
        /\ desc' = [desc EXCEPT ![i][s] = fx]
        /\ live' = [live EXCEPT ![i].fx[s] = slot]
        /\ bank' = [p \in DOMAIN bank |->
                      IF p = cur THEN Capture'
                      ELSE [bank[p] EXCEPT ![i].fx[s] = Synced(@, node, Default[fx])]]
        /\ \A k \in 1..Slots : desc[i][k] # fx
    BY DEF LoadEffect, trackVars
  <1> HIDE DEF s
  <1>3. /\ tracks[i].id \in Tracks /\ i \in 1..n /\ InUse = 1..n /\ n \in Nat
        /\ desc[i] \in Chain /\ live[i] \in LaneSet /\ Sits(live[i], tracks[i].id, desc[i])
        /\ DOMAIN bank = 1..Len(bank) /\ Len(bank) \in Nat
        /\ \A p \in 1..Len(bank) : bank[p][i] \in LaneSet
    <2>1. /\ InUse = 1..n /\ InUse \subseteq Lanes /\ n \in Lanes
          /\ desc \in Tables /\ live \in [Lanes -> LaneSet]
          /\ Placed(live, tracks, desc) /\ DOMAIN bank = 1..Len(bank) /\ Len(bank) \in 1..MaxPatterns
          /\ \A p \in 1..Len(bank) : bank[p] \in [InUse -> LaneSet]
      BY Facts
    <2>2. desc[i] \in Chain /\ live[i] \in LaneSet /\ \A p \in 1..Len(bank) : bank[p][i] \in LaneSet
      BY <2>1 DEF Tables, Chain
    <2> QED
      BY <2>1, <2>2, Facts DEF Placed, Lanes
  <1>4. /\ Once(desc[i]) /\ LaneFits(live[i], desc[i], n)
        /\ \A p \in 1..Len(bank) : p # cur => LaneFits(bank[p][i], desc[i], n)
    BY <1>3 DEF Settled, Fits
  <1>5. desc[i][s] = NoFx
    <2>1. desc[i][s] # NoFx => live[i].fx[s].node = <<tracks[i].id, desc[i][s]>>
      BY <1>1, <1>3 DEF Sits, SlotNode
    <2> QED
      BY <1>1, <2>1 DEF NoNode
  <1>6. /\ Default[fx] \in 0..MaxTracks /\ fx # NoFx
        /\ fx = Gain => Default[fx] \in {0, 1}
        /\ fx = Duck => Default[fx] < n
    BY <1>3, BankAssumption DEF Default, Effects, Gain, Duck, NoFx
  <1>7. node \in Nodes /\ slot \in SlotSet /\ SlotFits(slot, fx, n)
    BY <1>3, <1>6 DEF Nodes, SlotSet, SlotFits
  <1>8. chain \in Chain /\ Once(chain)
    <2>1. /\ chain \in Chain
          /\ \A k \in 1..Slots : chain[k] = IF k = s THEN fx ELSE desc[i][k]
      BY <1>1, <1>3 DEF Chain
    <2> QED
      BY <1>2, <1>4, <2>1 DEF Once
  <1>9. LaneFits(lane, chain, n)
    BY <1>1, <1>3, <1>4, <1>7, FilledFits
  <1>10. ASSUME NEW p \in 1..Len(bank), p # cur
         PROVE  LaneFits(pages[p], chain, n)
    <2>1. bank[p][i].fx[s] \in SlotSet
      BY <1>1, <1>3, LaneFields
    <2>2. bank[p][i].fx[s].np = 0
      BY <1>1, <1>4, <1>5, <1>10 DEF LaneFits, SlotFits
    <2>3. synced(p) = slot
      BY <2>2 DEF Synced
    <2> HIDE DEF slot, synced, chain
    <2>4. LaneFits(WithSlot(bank[p][i], s, slot), chain, n)
      BY <1>1, <1>3, <1>4, <1>7, <1>10, FilledFits DEF chain
    <2> QED
      BY <2>3, <2>4
  <1>11. /\ desc' = [desc EXCEPT ![i] = chain]
         /\ live' = [live EXCEPT ![i] = lane]
    BY <1>2 DEF WithSlot
  <1>12. ASSUME NEW p \in 1..Len(bank), p # cur
         PROVE  bank'[p] = [bank[p] EXCEPT ![i] = pages[p]]
    <2>1. bank'[p] = [bank[p] EXCEPT ![i].fx[s] = Synced(@, node, Default[fx])]
      BY <1>2, <1>3, <1>12
    <2> QED
      BY <2>1 DEF WithSlot
  <1>13. Len(bank') = Len(bank)
    BY <1>2, <1>3
  <1>14. UNCHANGED <<tracks, cur>>
    BY <1>2
  <1> HIDE DEF slot, node, chain, lane, pages
  <1> QED
    BY <1>8, <1>9, <1>10, <1>11, <1>12, <1>13, <1>14, ChainSettles

\* A gap is closed in slots that fit their chain, and in the chain.
LEMMA ClosedFits ==
  ASSUME NEW s \in 1..Slots, NEW n \in Nat, NEW chain \in Chain, NEW lane \in LaneSet,
         LaneFits(lane, chain, n), NEW slots,
         slots[Slots] = EmptySlot,
         \A k \in 1..Slots : k # Slots /\ k < s => slots[k] = lane.fx[k],
         \A k \in 1..Slots : k # Slots /\ ~ k < s =>
           \/ slots[k] = lane.fx[k + 1]
           \/ \E to \in SlotSet : slots[k] = Restored(to, Captured(lane.fx[k + 1]))
  PROVE  \A k \in 1..Slots : SlotFits(slots[k], Closed(chain, s, NoFx)[k], n)
  <1>1. lane.fx \in [1..Slots -> SlotSet] /\ \A k \in 1..Slots : SlotFits(lane.fx[k], chain[k], n)
    BY LaneFields DEF LaneFits
  <1>2. \A k \in 1..Slots : k # Slots => k + 1 \in 1..Slots
    BY BankAssumption
  <1>3. ASSUME NEW k \in 1..Slots PROVE SlotFits(slots[k], Closed(chain, s, NoFx)[k], n)
    <2>1. CASE k = Slots
      BY <2>1 DEF Closed, SlotFits, EmptySlot, NoFx, Gain, Duck
    <2>2. CASE k # Slots /\ k < s
      BY <1>1, <2>2 DEF Closed
    <2>3. CASE k # Slots /\ ~ k < s
      <3>1. Closed(chain, s, NoFx)[k] = chain[k + 1]
        BY <2>3 DEF Closed
      <3>2. /\ lane.fx[k + 1] \in SlotSet /\ SlotFits(lane.fx[k + 1], chain[k + 1], n)
        BY <1>1, <1>2, <2>3
      <3>3. CASE slots[k] = lane.fx[k + 1]
        BY <3>1, <3>2, <3>3
      <3>4. ASSUME NEW to \in SlotSet, slots[k] = Restored(to, Captured(lane.fx[k + 1]))
            PROVE  SlotFits(slots[k], chain[k + 1], n)
        <4>1. /\ Captured(lane.fx[k + 1]) \in SlotSet
              /\ SlotFits(Captured(lane.fx[k + 1]), chain[k + 1], n)
          BY <3>2, SlotSaved, SlotSavedFits
        <4> QED
          BY <3>4, <4>1, SlotBackFits
      <3> QED
        BY <2>3, <3>1, <3>3, <3>4
    <2> QED
      BY <2>1, <2>2, <2>3
  <1> QED
    BY <1>3

LEMMA UnloadSettles ==
  ASSUME IInv, Settled, NEW i \in InUse, NEW s \in 1..Slots, DeleteEffect(i, s)
  PROVE  Settled'
  <1> DEFINE chain == Closed(desc[i], s, NoFx)
             slots == [k \in 1..Slots |->
                         IF k = Slots THEN EmptySlot
                         ELSE IF k < s THEN live[i].fx[k]
                         ELSE Restored(live[i].fx[k], Captured(live[i].fx[k + 1]))]
             lane == WithChain(live[i], slots)
             pages == [p \in 1..Len(bank) |->
                         WithChain(bank[p][i], Closed(bank[p][i].fx, s, EmptySlot))]
             n == Len(tracks)
  <1>1. /\ UNCHANGED <<tracks, cur>>
        /\ desc' = [desc EXCEPT ![i] = chain]
        /\ live' = [live EXCEPT ![i] = lane]
        /\ bank' = [p \in DOMAIN bank |->
                      IF p = cur THEN Capture'
                      ELSE [bank[p] EXCEPT ![i].fx = Closed(@, s, EmptySlot)]]
    BY DEF DeleteEffect, trackVars, WithChain
  <1>2. /\ i \in 1..n /\ n \in Nat
        /\ desc[i] \in Chain /\ live[i] \in LaneSet
        /\ DOMAIN bank = 1..Len(bank) /\ Len(bank) \in Nat
        /\ \A p \in 1..Len(bank) : bank[p][i] \in LaneSet
    <2>1. /\ InUse = 1..n /\ InUse \subseteq Lanes /\ n \in Lanes
          /\ desc \in Tables /\ live \in [Lanes -> LaneSet]
          /\ DOMAIN bank = 1..Len(bank) /\ Len(bank) \in 1..MaxPatterns
          /\ \A p \in 1..Len(bank) : bank[p] \in [InUse -> LaneSet]
      BY Facts
    <2>2. desc[i] \in Chain /\ live[i] \in LaneSet /\ \A p \in 1..Len(bank) : bank[p][i] \in LaneSet
      BY <2>1 DEF Tables, Chain
    <2> QED
      BY <2>1, <2>2 DEF Lanes
  <1>3. /\ Once(desc[i]) /\ LaneFits(live[i], desc[i], n)
        /\ \A p \in 1..Len(bank) : p # cur => LaneFits(bank[p][i], desc[i], n)
    BY <1>2 DEF Settled, Fits
  <1>4. \A k \in 1..Slots : k # Slots => k + 1 \in 1..Slots
    BY BankAssumption
  <1>5. chain \in Chain /\ Once(chain)
    <2>1. \A k \in 1..Slots : chain[k] = IF k = Slots THEN NoFx
                                         ELSE IF k < s THEN desc[i][k] ELSE desc[i][k + 1]
      BY DEF Closed
    <2>2. chain \in Chain
      BY <1>2, <1>4 DEF Chain, Closed
    <2> HIDE DEF chain
    <2>3. ASSUME NEW j \in 1..Slots, NEW k \in 1..Slots, chain[j] = chain[k], chain[j] # NoFx
          PROVE  j = k
      <3>1. j # Slots /\ k # Slots
        BY <2>1, <2>3
      <3> DEFINE a == IF j < s THEN j ELSE j + 1
                 b == IF k < s THEN k ELSE k + 1
      <3>2. /\ a \in 1..Slots /\ b \in 1..Slots
            /\ desc[i][a] = chain[j] /\ desc[i][b] = chain[k]
        BY <1>4, <2>1, <3>1
      <3>3. a = b
        BY <1>3, <2>3, <3>2 DEF Once
      <3> QED
        BY <3>3
    <2> QED
      BY <2>2, <2>3 DEF Once
  <1>6. LaneFits(lane, chain, n)
    <2>1. live[i].fx \in [1..Slots -> SlotSet]
      BY <1>2, LaneFields
    <2>2. /\ slots[Slots] = EmptySlot
          /\ \A k \in 1..Slots : k # Slots /\ k < s => slots[k] = live[i].fx[k]
          /\ \A k \in 1..Slots : k # Slots /\ ~ k < s =>
               \E to \in SlotSet : slots[k] = Restored(to, Captured(live[i].fx[k + 1]))
      BY <2>1, BankAssumption, SMTT(20)
    <2>3. lane.fx = slots
      BY <1>2 DEF WithChain, LaneSet
    <2> HIDE DEF slots, lane
    <2>4. \A k \in 1..Slots : SlotFits(slots[k], chain[k], n)
      BY <1>2, <1>3, <2>2, ClosedFits
    <2> QED
      BY <2>3, <2>4 DEF LaneFits
  <1>7. ASSUME NEW p \in 1..Len(bank), p # cur PROVE LaneFits(pages[p], chain, n)
    <2> DEFINE closed == Closed(bank[p][i].fx, s, EmptySlot)
    <2>1. pages[p].fx = closed
      <3>1. pages[p] = WithChain(bank[p][i], closed)
        OBVIOUS
      <3> HIDE DEF closed, pages
      <3> QED
        BY <1>2, <3>1 DEF WithChain, LaneSet
    <2>2. /\ closed[Slots] = EmptySlot
          /\ \A k \in 1..Slots : k # Slots /\ k < s => closed[k] = bank[p][i].fx[k]
          /\ \A k \in 1..Slots : k # Slots /\ ~ k < s => closed[k] = bank[p][i].fx[k + 1]
      BY BankAssumption DEF Closed
    <2> HIDE DEF closed
    <2>3. \A k \in 1..Slots : SlotFits(closed[k], chain[k], n)
      BY <1>2, <1>3, <1>7, <2>2, ClosedFits
    <2> QED
      BY <2>1, <2>3 DEF LaneFits
  <1>8. ASSUME NEW p \in 1..Len(bank), p # cur
        PROVE  bank'[p] = [bank[p] EXCEPT ![i] = pages[p]]
    <2>1. bank'[p] = [bank[p] EXCEPT ![i].fx = Closed(@, s, EmptySlot)]
      BY <1>1, <1>2, <1>8
    <2> QED
      BY <2>1 DEF WithChain
  <1>9. Len(bank') = Len(bank)
    BY <1>1, <1>2
  <1> HIDE DEF chain, lane, pages
  <1> QED
    BY <1>1, <1>5, <1>6, <1>7, <1>8, <1>9, ChainSettles

-----------------------------------------------------------------------------
(* Tracks that come and go *)

\* What fits among some tracks fits among more.
LEMMA FitsAmongMore ==
  ASSUME NEW lane \in LaneSet, NEW chain, NEW n \in Nat, LaneFits(lane, chain, n)
  PROVE  LaneFits(lane, chain, n + 1)
  <1>1. ASSUME NEW s \in 1..Slots PROVE SlotFits(lane.fx[s], chain[s], n + 1)
    <2>1. lane.fx[s] \in SlotSet
      BY LaneFields
    <2>2. SlotFits(lane.fx[s], chain[s], n)
      BY DEF LaneFits
    <2> HIDE DEF LaneSet
    <2>3. lane.fx[s].val \in 0..MaxTracks
      BY <2>1 DEF SlotSet
    <2> QED
      BY <2>2, <2>3, BankAssumption DEF SlotFits
  <1> QED
    BY <1>1 DEF LaneFits

LEMMA EmptyFits ==
  ASSUME NEW lane, lane.fx = BlankLane.fx, NEW n
  PROVE  LaneFits(lane, NoChain, n)
  BY DEF LaneFits, SlotFits, BlankLane, EmptySlot, NoChain, NoFx, Gain, Duck

LEMMA AddSettles ==
  ASSUME IInv, Settled, NEW id \in Tracks, NEW kind \in Kinds, AddTrack(id, kind)
  PROVE  Settled'
  <1> DEFINE n == Len(tracks)
             i == n + 1
             inst == [np |-> 1, val |-> InstrumentDefault]
             extended == [BlankLane EXCEPT !.inst = IF kind = "custom" THEN inst ELSE @]
             track == [id |-> id, kind |-> kind]
  <1>1. /\ i \in Lanes /\ tracks' = Append(tracks, track)
        /\ id \notin {t.id : t \in Range(tracks)}
        /\ live' = [live EXCEPT ![i] = WithInstrument(live[i], inst)]
        /\ desc' = [desc EXCEPT ![i] = NoChain]
        /\ bank' = [p \in DOMAIN bank |-> Append(bank[p], extended)]
        /\ UNCHANGED cur
    BY DEF AddTrack, NumTracks, WithInstrument, NoChain
  <1>2. /\ tracks \in Seq(TrackSet) /\ n \in Nat /\ InUse = 1..n /\ InUse \subseteq Lanes
        /\ desc \in Tables /\ live \in [Lanes -> LaneSet]
        /\ DOMAIN bank = 1..Len(bank) /\ Len(bank) \in Nat
        /\ \A p \in 1..Len(bank) : bank[p] \in [1..n -> LaneSet]
        /\ \A k \in Lanes \ InUse : live[k] = BlankLane
    BY Facts, BankAssumption DEF Lanes
  <1>3. track \in TrackSet /\ track.id = id
    BY DEF TrackSet
  <1>4. /\ Len(tracks') = i
        /\ \A k \in 1..n : tracks'[k] = tracks[k]
        /\ tracks'[i].id = id
    BY <1>1, <1>2, <1>3, AppendProperties
  <1>5. \A k \in 1..n : tracks[k].id # id
    <2>1. \A k \in 1..n : tracks[k] \in Range(tracks)
      BY <1>2 DEF Range
    <2> QED
      BY <1>1, <2>1
  <1>6. Apart(tracks')
    BY <1>2, <1>4, <1>5 DEF Apart, Settled
  <1>7. /\ desc'[i] = NoChain /\ \A k \in 1..n : desc'[k] = desc[k]
    BY <1>1, <1>2 DEF Tables
  <1>8. \A k \in 1..i : Once(desc'[k])
    <2>1. Once(NoChain)
      BY DEF Once, NoChain
    <2>2. \A k \in 1..n : Once(desc'[k])
      BY <1>7 DEF Settled
    <2> QED
      BY <1>2, <1>7, <2>1, <2>2
  <1>9. extended.fx = BlankLane.fx
    BY DEF BlankLane
  <1>10. LaneFits(extended, NoChain, i)
    BY <1>9, EmptyFits
  <1>11. inst \in InstrumentSet /\ extended \in LaneSet
    <2>1. inst \in InstrumentSet
      BY DEF InstrumentSet, InstrumentDefault
    <2>2. extended = BlankLane \/ extended = WithInstrument(BlankLane, inst)
      BY BlankTyped DEF WithInstrument, BlankLane
    <2> HIDE DEF inst, extended
    <2> QED
      BY <2>1, <2>2, BlankTyped, LaneEdited
  <1> HIDE DEF extended, inst, track
  <1>12. Fits(live', tracks', desc')
    <2>1. live[i] = BlankLane
      BY <1>1, <1>2
    <2>2. WithInstrument(live[i], inst).fx = BlankLane.fx
      BY <1>11, <2>1, BlankTyped, LaneEdited
    <2>3. LaneFits(WithInstrument(live[i], inst), NoChain, i)
      BY <2>2, EmptyFits
    <2>4. \A k \in 1..n : live'[k] = live[k] /\ live[k] \in LaneSet
      BY <1>1, <1>2
    <2>5. live'[i] = WithInstrument(live[i], inst)
      BY <1>1, <1>2
    <2>6. \A k \in 1..n : LaneFits(live[k], desc[k], n)
      BY DEF Settled, Fits
    <2>7. \A k \in 1..n : LaneFits(live'[k], desc'[k], i)
      BY <1>2, <1>7, <2>4, <2>6, FitsAmongMore
    <2> QED
      BY <1>2, <1>4, <1>7, <2>3, <2>5, <2>7 DEF Fits
  <1>13. ASSUME NEW p \in 1..Len(bank), p # cur PROVE Fits(bank'[p], tracks', desc')
    <2>1. bank[p] \in Seq(LaneSet) /\ Len(bank[p]) = n
      BY <1>2, FunctionIsSeq
    <2>2. bank'[p] = Append(bank[p], extended)
      BY <1>1, <1>2
    <2>3. /\ \A k \in 1..n : bank'[p][k] = bank[p][k]
          /\ bank'[p][i] = extended
      BY <1>11, <2>1, <2>2, AppendProperties
    <2>4. \A k \in 1..n : LaneFits(bank[p][k], desc[k], n) /\ bank[p][k] \in LaneSet
      BY <1>2, <1>13 DEF Settled, Fits
    <2>5. \A k \in 1..n : LaneFits(bank'[p][k], desc'[k], i)
      BY <1>2, <1>7, <2>3, <2>4, FitsAmongMore
    <2> QED
      BY <1>2, <1>4, <1>7, <1>10, <2>3, <2>5 DEF Fits
  <1>14. Len(bank') = Len(bank)
    BY <1>1, <1>2
  <1> QED
    BY <1>1, <1>4, <1>6, <1>8, <1>12, <1>13, <1>14 DEF Settled

\* A renumbered selection fits among one track less.
LEMMA RemapFits ==
  ASSUME IInv, NEW snap \in Snapshot, FitsHere(snap), NEW deleted \in InUse, NumTracks > 1,
         NEW i \in InUse \ {deleted}
  PROVE  LaneFits(RemapSnapshot(snap, deleted)[i], desc[i], NumTracks - 1)
  <1> DEFINE was(s) == snap[i].fx[s]
             remapped(s) == RemapSelection(i, was(s).val, deleted, NumTracks)
             slot(s) == IF desc[i][s] = Duck /\ was(s).np > 0
                        THEN [was(s) EXCEPT !.val = remapped(s)] ELSE was(s)
             slots == [s \in 1..Slots |-> slot(s)]
  <1>1. NumTracks \in Nat /\ InUse = 1..NumTracks /\ NumTracks = Len(tracks)
    BY NewTracksFacts DEF InUse, NumTracks
  <1>2. snap[i] \in LaneSet /\ LaneFits(snap[i], desc[i], NumTracks)
    BY <1>1 DEF Snapshot, FitsHere, Fits
  <1>3. RemapSnapshot(snap, deleted)[i] = WithChain(snap[i], slots)
    BY DEF RemapSnapshot, WithChain, Snapshot
  <1>4. RemapSnapshot(snap, deleted)[i].fx = slots
    <2> HIDE DEF slots
    <2> QED
      BY <1>2, <1>3 DEF WithChain, LaneSet
  <1>5. ASSUME NEW s \in 1..Slots PROVE SlotFits(slot(s), desc[i][s], NumTracks - 1)
    <2>1. was(s) \in SlotSet /\ SlotFits(was(s), desc[i][s], NumTracks)
      BY <1>2, LaneFields DEF LaneFits
    <2>2. remapped(s) \in Nat /\ remapped(s) < NumTracks - 1
      BY <1>1, SelectionRemapped
    <2> HIDE DEF remapped, was
    <2>3. CASE desc[i][s] = Duck /\ was(s).np > 0
      <3>1. slot(s) = [was(s) EXCEPT !.val = remapped(s)]
        BY <2>3
      <3>2. slot(s).val = remapped(s)
        BY <2>1, <3>1 DEF SlotSet
      <3> QED
        BY <2>2, <2>3, <3>2 DEF SlotFits, Duck, Gain, NoFx
    <2>4. CASE ~ (desc[i][s] = Duck /\ was(s).np > 0)
      <3>1. slot(s) = was(s)
        BY <2>4
      <3> QED
        BY <2>1, <2>4, <3>1 DEF SlotFits
    <2> QED
      BY <2>3, <2>4
  <1> HIDE DEF slot
  <1> QED
    BY <1>4, <1>5 DEF LaneFits

LEMMA RemovedFits ==
  ASSUME IInv, NEW deleted \in InUse, NumTracks > 1, NEW snap \in Snapshot, FitsHere(snap)
  PROVE  Fits(Removed(snap, deleted), NewTracks(deleted), NewDesc(deleted))
  <1> DEFINE remapped == RemapSnapshot(snap, deleted)
             removed == Removed(snap, deleted)
  <1>1. InUse = 1..NumTracks /\ NumTracks \in Nat /\ Len(NewTracks(deleted)) = NumTracks - 1
    BY NewTracksFacts DEF InUse
  <1>2. remapped \in [1..NumTracks -> LaneSet]
    BY <1>1, RemapTyped DEF Snapshot
  <1>3. remapped \in Seq(LaneSet) /\ Len(remapped) = NumTracks
    BY <1>1, <1>2, FunctionIsSeq
  <1>4. removed = RemoveAt(remapped, deleted)
    BY DEF Removed
  <1>5. \A i \in InUse \ {deleted} : LaneFits(remapped[i], desc[i], NumTracks - 1)
    BY RemapFits
  <1> HIDE DEF remapped, removed
  <1>6. \A k \in 1..NumTracks - 1 :
          removed[k] = IF k < deleted THEN remapped[k] ELSE remapped[k + 1]
    BY <1>1, <1>3, <1>4, RemoveAtProperties
  <1>7. ASSUME NEW k \in 1..NumTracks - 1
        PROVE  LaneFits(removed[k], NewDesc(deleted)[k], NumTracks - 1)
    <2>1. NewDesc(deleted)[k] = IF k < deleted THEN desc[k] ELSE desc[k + 1]
      BY NewDescFacts
    <2>2. CASE k < deleted
      <3>1. k \in InUse \ {deleted}
        BY <1>1, <2>2
      <3> QED
        BY <1>5, <1>6, <2>1, <2>2, <3>1
    <2>3. CASE ~ k < deleted
      <3>1. k + 1 \in InUse \ {deleted}
        BY <1>1, <2>3
      <3> QED
        BY <1>5, <1>6, <2>1, <2>3, <3>1
    <2> QED
      BY <2>2, <2>3
  <1> QED
    BY <1>1, <1>7 DEF Fits, removed

LEMMA RemoveSettles ==
  ASSUME IInv, Settled, NEW deleted \in InUse, RemoveTrack(deleted)
  PROVE  Settled'
  <1> DEFINE current == Removed(Capture, deleted)
             n == NumTracks - 1
  <1>1. /\ NumTracks > 1 /\ tracks' = NewTracks(deleted) /\ desc' = NewDesc(deleted)
        /\ live' = [Restore(current) EXCEPT ![NumTracks] = BlankLane]
        /\ cur' = cur
    BY DEF RemoveTrack, Compacted, NewTracks, NewDesc, NoChain, Removed
  <1>2. bank' = [p \in DOMAIN bank |-> IF p = cur THEN current ELSE Removed(bank[p], deleted)]
    BY DEF RemoveTrack, Removed
  <1>3. /\ Len(tracks') = n /\ n \in Nat /\ n \in Lanes /\ NumTracks \in Nat
        /\ NumTracks \in Lanes /\ InUse = 1..NumTracks /\ NumTracks = Len(tracks)
        /\ \A k \in 1..n : tracks'[k] = IF k < deleted THEN tracks[k] ELSE tracks[k + 1]
        /\ \A k \in 1..n : desc'[k] = IF k < deleted THEN desc[k] ELSE desc[k + 1]
    <2>1. n \in Nat
      BY <1>1, NewTracksFacts
    <2> QED
      BY <1>1, <2>1, NewTracksFacts, NewDescFacts DEF InUse, NumTracks
  <1>4. \A k \in 1..n : k \in InUse /\ k + 1 \in InUse
    BY <1>3
  <1>5. Apart(tracks')
    <2>1. \A j, k \in InUse : tracks[j].id = tracks[k].id => j = k
      BY <1>3 DEF Settled, Apart
    <2>2. ASSUME NEW j \in 1..n, NEW k \in 1..n, tracks'[j].id = tracks'[k].id
          PROVE  j = k
      <3> DEFINE a == IF j < deleted THEN j ELSE j + 1
                 b == IF k < deleted THEN k ELSE k + 1
      <3>1. a \in InUse /\ b \in InUse /\ tracks'[j] = tracks[a] /\ tracks'[k] = tracks[b]
        BY <1>3, <1>4
      <3>2. a = b
        BY <2>1, <2>2, <3>1
      <3>3. deleted \in Nat
        BY <1>3
      <3> QED
        BY <3>2, <3>3
    <2> QED
      BY <1>3, <2>2 DEF Apart
  <1>6. \A k \in 1..n : Once(desc'[k])
    BY <1>3, <1>4 DEF Settled
  <1>7. /\ current \in [1..n -> LaneSet] /\ Fits(current, tracks', desc')
    <2>1. Capture \in Snapshot /\ FitsHere(Capture) /\ PlacedHere(Capture)
      BY CaptureFacts, CaptureFits
    <2> QED
      BY <1>1, <2>1, RemovedFacts, RemovedFits
  <1>8. DOMAIN bank = 1..Len(bank) /\ Len(bank) \in Nat /\ live \in [Lanes -> LaneSet]
    BY Facts
  <1>9. ASSUME NEW p \in 1..Len(bank), p # cur PROVE Fits(bank'[p], tracks', desc')
    <2>1. bank[p] \in Snapshot /\ FitsHere(bank[p])
      BY <1>9, Facts DEF Snapshot, Settled, FitsHere
    <2>2. bank'[p] = Removed(bank[p], deleted)
      BY <1>2, <1>8, <1>9
    <2> QED
      BY <1>1, <2>1, <2>2, RemovedFits
  <1> HIDE DEF current
  <1>10. Fits(live', tracks', desc')
    <2>1. ASSUME NEW k \in 1..n PROVE LaneFits(live'[k], desc'[k], n)
      <3>1. k \in Lanes /\ k # NumTracks /\ k \in DOMAIN current
        BY <1>3, <1>7, BankAssumption DEF Lanes
      <3>2. live'[k] = RestoredLane(live[k], current[k])
        BY <1>1, <3>1 DEF Restore
      <3>3. live[k] \in LaneSet /\ current[k] \in LaneSet /\ LaneFits(current[k], desc'[k], n)
        BY <1>3, <1>7, <1>8, <3>1 DEF Fits
      <3> QED
        BY <1>3, <3>2, <3>3, RestoredFits
    <2> QED
      BY <1>3, <2>1 DEF Fits
  <1>11. Len(bank') = Len(bank)
    BY <1>2, <1>8
  <1> QED
    BY <1>1, <1>3, <1>5, <1>6, <1>9, <1>10, <1>11 DEF Settled

-----------------------------------------------------------------------------
(* What the operations do to the values: edits, and the start *)

\* One lane's slots keep what fits.
LEMMA LaneSettles ==
  ASSUME IInv, Settled, NEW i \in InUse, NEW lane, LaneFits(lane, desc[i], Len(tracks)),
         live' = [live EXCEPT ![i] = lane], UNCHANGED <<tracks, desc, bank, cur>>
  PROVE  Settled'
  <1>1. InUse = 1..Len(tracks) /\ InUse \subseteq Lanes /\ live \in [Lanes -> LaneSet]
    BY Facts
  <1>2. \A k \in InUse : LaneFits(live[k], desc[k], Len(tracks))
    BY <1>1 DEF Settled, Fits
  <1>3. \A k \in InUse : live'[k] = IF k = i THEN lane ELSE live[k]
    BY <1>1
  <1> QED
    BY <1>2, <1>3, EditSettles DEF LaneFits

LEMMA BodySettles ==
  ASSUME IInv, Settled, NEW i \in InUse, NEW v \in {0, 1}, EditBody(i, v)
  PROVE  Settled'
  <1>1. live' = [live EXCEPT ![i] = WithBody(live[i], v)] /\ UNCHANGED <<tracks, desc, bank, cur>>
    BY DEF EditBody, WithBody, trackVars
  <1>2. live[i] \in LaneSet /\ LaneFits(live[i], desc[i], Len(tracks))
    BY Facts DEF Settled, Fits
  <1>3. WithBody(live[i], v).fx = live[i].fx
    BY <1>2 DEF LaneSet, WithBody
  <1> QED
    BY <1>1, <1>2, <1>3, LaneSettles DEF LaneFits

LEMMA InstrumentSettles ==
  ASSUME IInv, Settled, NEW i \in InUse, NEW v \in {0, 1}, SetInstrument(i, v)
  PROVE  Settled'
  <1> DEFINE inst == [live[i].inst EXCEPT !.val = v]
  <1>1. live' = [live EXCEPT ![i] = WithInstrument(live[i], inst)]
        /\ UNCHANGED <<tracks, desc, bank, cur>>
    BY DEF SetInstrument, WithInstrument, trackVars
  <1>2. live[i] \in LaneSet /\ LaneFits(live[i], desc[i], Len(tracks))
    BY Facts DEF Settled, Fits
  <1> HIDE DEF inst
  <1>3. WithInstrument(live[i], inst).fx = live[i].fx
    BY <1>2 DEF LaneSet, WithInstrument
  <1> QED
    BY <1>1, <1>2, <1>3, LaneSettles DEF LaneFits

LEMMA SettingSettles ==
  ASSUME IInv, Settled, NEW i \in InUse, NEW s \in 1..Slots, NEW v \in 0..MaxTracks,
         live' = [live EXCEPT ![i].fx[s].val = v], UNCHANGED <<tracks, desc, bank, cur>>,
         desc[i][s] # NoFx, desc[i][s] = Gain => v \in {0, 1}, desc[i][s] = Duck => v < Len(tracks)
  PROVE  Settled'
  <1> DEFINE slot == [live[i].fx[s] EXCEPT !.val = v]
  <1>1. live[i] \in LaneSet /\ LaneFits(live[i], desc[i], Len(tracks))
    BY Facts DEF Settled, Fits
  <1>2. live[i].fx[s] \in SlotSet
    BY <1>1, LaneFields
  <1>3. slot \in SlotSet /\ slot.val = v
    BY <1>2 DEF SlotSet
  <1>4. live' = [live EXCEPT ![i] = WithSlot(live[i], s, slot)]
    BY DEF WithSlot
  <1> HIDE DEF slot
  <1>5. SlotFits(slot, desc[i][s], Len(tracks))
    BY <1>3 DEF SlotFits
  <1>6. \A k \in 1..Slots : WithSlot(live[i], s, slot).fx[k] = IF k = s THEN slot ELSE live[i].fx[k]
    BY <1>1, <1>3, SlotEdited
  <1>7. LaneFits(WithSlot(live[i], s, slot), desc[i], Len(tracks))
    BY <1>1, <1>5, <1>6 DEF LaneFits
  <1> QED
    BY <1>4, <1>7, LaneSettles

LEMMA EffectSettles ==
  ASSUME IInv, Settled, NEW i \in InUse, NEW s \in 1..Slots, NEW v \in {0, 1}, SetEffect(i, s, v)
  PROVE  Settled'
  <1>1. live' = [live EXCEPT ![i].fx[s].val = v] /\ UNCHANGED <<tracks, desc, bank, cur>>
    BY DEF SetEffect, trackVars
  <1>2. desc[i][s] = Gain /\ v \in 0..MaxTracks
    BY BankAssumption DEF SetEffect
  <1> QED
    BY <1>1, <1>2, SettingSettles DEF Gain, Duck, NoFx

LEMMA SidechainSettles ==
  ASSUME IInv, Settled, NEW i \in InUse, NEW s \in 1..Slots, NEW selection \in 0..(NumTracks - 1),
         SelectSidechain(i, s, selection)
  PROVE  Settled'
  <1>1. live' = [live EXCEPT ![i].fx[s].val = selection] /\ UNCHANGED <<tracks, desc, bank, cur>>
    BY DEF SelectSidechain, trackVars
  <1>2. desc[i][s] = Duck
    BY DEF SelectSidechain
  <1>3. selection \in 0..MaxTracks /\ selection < Len(tracks)
    BY Facts, BankAssumption DEF NumTracks, Lanes
  <1> QED
    BY <1>1, <1>2, <1>3, SettingSettles DEF Gain, Duck, NoFx

LEMMA InitSettles ==
  ASSUME Init
  PROVE  Settled
  <1>1. /\ setup.names \in Seq(Tracks) /\ IsInjective(setup.names)
        /\ Len(setup.names) = Len(setup.kinds) /\ setup.kinds \in Seq(Kinds)
        /\ \A j, k \in 1..Slots : setup.fx[j] = setup.fx[k] => j = k \/ setup.fx[j] = NoFx
    BY BankAssumption DEF Init
  <1>2. DOMAIN setup.names = DOMAIN setup.kinds
    BY <1>1, LenProperties
  <1>3. tracks = [i \in DOMAIN setup.kinds |-> [id |-> setup.names[i], kind |-> setup.kinds[i]]]
    BY DEF Init
  <1>4. /\ DOMAIN tracks = 1..Len(tracks) /\ Len(tracks) \in Lanes /\ InUse = 1..Len(tracks)
        /\ InUse \subseteq Lanes
    BY StartTracks, LenProperties DEF InUse, NumTracks
  <1>5. Apart(tracks)
    BY <1>1, <1>2, <1>3, <1>4 DEF Apart, IsInjective
  <1>6. \A i \in InUse : desc[i] = setup.fx
    <2>1. desc = [i \in Lanes |-> IF i \in InUse THEN setup.fx ELSE [s \in 1..Slots |-> NoFx]]
      BY Zenon DEF Init
    <2> QED
      BY <1>4, <2>1
  <1>7. \A i \in InUse : Once(desc[i])
    BY <1>1, <1>6 DEF Once
  <1>8. ASSUME NEW i \in InUse PROVE LaneFits(live[i], desc[i], Len(tracks))
    <2> DEFINE slots == [s \in 1..Slots |-> StartSlot(tracks[i].id, setup.fx[s])]
    <2>1. live[i] = [body |-> 0, inst |-> [np |-> 1, val |-> InstrumentDefault], fx |-> slots]
      BY <1>4 DEF Init
    <2>2. live[i].fx = slots
      BY <2>1
    <2>3. Len(tracks) > 0
      BY <1>4, BankAssumption DEF Lanes
    <2>4. ASSUME NEW s \in 1..Slots
          PROVE  SlotFits(StartSlot(tracks[i].id, setup.fx[s]), setup.fx[s], Len(tracks))
      <3>1. setup.fx[s] \in {Duck, Gain, NoFx}
        BY StartTracks DEF Chain, Effects
      <3> QED
        BY <2>3, <3>1 DEF StartSlot, SlotFits, EmptySlot, Default, Effects, Duck, Gain, NoFx
    <2> QED
      BY <1>6, <2>2, <2>4 DEF LaneFits
  <1>9. Len(bank) = 1 /\ cur = 1
    BY DEF Init
  <1> QED
    BY <1>4, <1>5, <1>7, <1>8, <1>9 DEF Settled, Fits

LEMMA SettledNext == IInv /\ Settled /\ [Next]_vars => Settled'
  <1> SUFFICES ASSUME IInv, Settled, [Next]_vars PROVE Settled'
    OBVIOUS
  <1>1. DOMAIN bank = 1..Len(bank)
    BY Facts
  <1>2. ASSUME NEW i \in InUse, NEW v \in {0, 1}, EditBody(i, v) PROVE Settled'
    BY <1>2, BodySettles
  <1>3. ASSUME NEW i \in InUse, NEW v \in {0, 1}, SetInstrument(i, v) PROVE Settled'
    BY <1>3, InstrumentSettles
  <1>4. ASSUME NEW i \in InUse, NEW s \in 1..Slots, NEW v \in {0, 1}, SetEffect(i, s, v)
        PROVE  Settled'
    BY <1>4, EffectSettles
  <1>5. ASSUME NEW i \in InUse, NEW s \in 1..Slots, NEW selection \in 0..(NumTracks - 1),
               SelectSidechain(i, s, selection)
        PROVE  Settled'
    BY <1>5, SidechainSettles
  <1>6. ASSUME NEW p \in DOMAIN bank, SwitchPattern(p) PROVE Settled'
    BY <1>1, <1>6, SwitchSettles
  <1>7. CASE ClonePattern
    BY <1>7, CloneSettles
  <1>8. CASE DeletePattern
    BY <1>8, DeletePatternSettles
  <1>9. ASSUME NEW i \in InUse, PropagateTrack(i) PROVE Settled'
    BY <1>9, PropagateSettles
  <1>10. ASSUME NEW i \in InUse, NEW fx \in Effects, LoadEffect(i, fx) PROVE Settled'
    BY <1>10, LoadSettles
  <1>11. ASSUME NEW i \in InUse, NEW s \in 1..Slots, DeleteEffect(i, s) PROVE Settled'
    BY <1>11, UnloadSettles
  <1>12. ASSUME NEW id \in Tracks, NEW kind \in Kinds, AddTrack(id, kind) PROVE Settled'
    BY <1>12, AddSettles
  <1>13. ASSUME NEW i \in InUse, RemoveTrack(i) PROVE Settled'
    BY <1>13, RemoveSettles
  <1>14. ASSUME UNCHANGED vars \/ \E i \in InUse, v \in {0, 1} : SetPolyphony(i, v)
         PROVE  Settled'
    <2>1. UNCHANGED <<tracks, desc, bank, cur, live>>
      BY <1>14 DEF SetPolyphony, vars, trackVars, stateVars
    <2> QED
      BY <2>1, Zenon DEF Settled
  <1> QED
    BY <1>2, <1>3, <1>4, <1>5, <1>6, <1>7, <1>8, <1>9, <1>10, <1>11, <1>12, <1>13, <1>14
       DEF Next

-----------------------------------------------------------------------------
(* The graph, slot by slot *)

Wired(lanes, vector, chains, graph) ==
  \A i \in 1..Len(vector), s \in 1..Slots :
    lanes[i].fx[s].node # NoNode /\ chains[i][s] = Duck /\ lanes[i].fx[s].np > 0 =>
      EdgeOf(vector, i, lanes[i].fx[s].val, lanes[i].fx[s].node) \subseteq graph

Sound(lanes, vector, chains, tabs, values) ==
  \A i \in 1..Len(vector), s \in 1..Slots :
    /\ lanes[i].fx[s].node # NoNode /\ chains[i][s] = Gain /\ tabs[i][s] = Gain
    /\ lanes[i].fx[s].np > 0
    => values[lanes[i].fx[s].node] = lanes[i].fx[s].val

GraphFollows == Wired(live, tracks, desc, wires) /\ Sound(live, tracks, desc, tables, heard)

LEMMA GraphNow == SelectionIsWired /\ NodesSoundAsSet => GraphFollows
  <1>1. ASSUME SelectionIsWired PROVE Wired(live, tracks, desc, wires)
    <2> SUFFICES ASSUME NEW i \in InUse, NEW s \in 1..Slots, live[i].fx[s].node # NoNode,
                        desc[i][s] = Duck, live[i].fx[s].np > 0
                 PROVE  EdgeOf(tracks, i, live[i].fx[s].val, live[i].fx[s].node) \subseteq wires
      BY DEF Wired, InUse, NumTracks
    <2>1. <<i, s>> \in Loaded
      BY DEF Loaded
    <2>2. Edge(i, live[i].fx[s].val, live[i].fx[s].node) \subseteq Selected
      BY <2>1 DEF Selected, SlotAt, DescAt
    <2> QED
      BY <1>1, <2>2 DEF SelectionIsWired, Edge, EdgeOf, NumTracks
  <1>2. ASSUME NodesSoundAsSet PROVE Sound(live, tracks, desc, tables, heard)
    <2> SUFFICES ASSUME NEW i \in InUse, NEW s \in 1..Slots, live[i].fx[s].node # NoNode,
                        desc[i][s] = Gain, tables[i][s] = Gain, live[i].fx[s].np > 0
                 PROVE  heard[live[i].fx[s].node] = live[i].fx[s].val
      BY DEF Sound, InUse, NumTracks
    <2>1. <<i, s>> \in Reached
      BY DEF Reached, Loaded, SlotAt, DescAt
    <2> QED
      BY <1>2, <2>1 DEF NodesSoundAsSet, SlotAt
  <1> QED
    BY <1>1, <1>2 DEF GraphFollows

LEMMA GraphNext == GraphFollows' => SelectionIsWired' /\ NodesSoundAsSet'
  <1> SUFFICES ASSUME GraphFollows' PROVE SelectionIsWired' /\ NodesSoundAsSet'
    OBVIOUS
  <1>1. ASSUME NEW p \in Loaded', DescAt(p)' = Duck, SlotAt(p)'.np > 0
        PROVE  Edge(p[1], SlotAt(p).val, SlotAt(p).node)' \subseteq wires'
    <2>1. /\ p[1] \in 1..Len(tracks') /\ p[2] \in 1..Slots
          /\ live'[p[1]].fx[p[2]].node # NoNode
      BY DEF Loaded, InUse, NumTracks
    <2>2. EdgeOf(tracks', p[1], live'[p[1]].fx[p[2]].val, live'[p[1]].fx[p[2]].node) \subseteq wires'
      BY <1>1, <2>1 DEF GraphFollows, Wired, DescAt, SlotAt
    <2> QED
      BY <2>2 DEF Edge, EdgeOf, SlotAt, NumTracks
  <1>2. SelectionIsWired'
    BY <1>1 DEF SelectionIsWired, Selected
  <1>3. ASSUME NEW p \in Reached' PROVE heard'[SlotAt(p)'.node] = SlotAt(p)'.val
    <2>1. /\ p[1] \in 1..Len(tracks') /\ p[2] \in 1..Slots
          /\ live'[p[1]].fx[p[2]].node # NoNode
          /\ desc'[p[1]][p[2]] = Gain /\ tables'[p[1]][p[2]] = Gain
          /\ live'[p[1]].fx[p[2]].np > 0
      BY DEF Reached, Loaded, InUse, NumTracks, DescAt, SlotAt
    <2> QED
      BY <2>1 DEF GraphFollows, Sound, SlotAt
  <1> QED
    BY <1>2, <1>3 DEF NodesSoundAsSet

LEMMA PairsAlike == \A a, b, c, d : <<a, b>> = <<c, d>> => a = c /\ b = d
  OBVIOUS

\* A node is that of one slot.
LEMMA NodeIdentifies ==
  ASSUME NEW lanes, NEW vector, NEW chains, Placed(lanes, vector, chains), Apart(vector),
         \A i \in 1..Len(vector) : Once(chains[i]),
         NEW i \in 1..Len(vector), NEW j \in 1..Len(vector),
         NEW s \in 1..Slots, NEW t \in 1..Slots,
         lanes[i].fx[s].node = lanes[j].fx[t].node, lanes[i].fx[s].node # NoNode
  PROVE  i = j /\ s = t
  <1>1. /\ lanes[i].fx[s].node = <<vector[i].id, chains[i][s]>> /\ chains[i][s] # NoFx
        /\ lanes[j].fx[t].node = <<vector[j].id, chains[j][t]>>
    BY DEF Placed, Sits, SlotNode
  <1>2. vector[i].id = vector[j].id /\ chains[i][s] = chains[j][t]
    <2>1. <<vector[i].id, chains[i][s]>> = <<vector[j].id, chains[j][t]>>
      BY <1>1, Zenon
    <2> QED
      BY <2>1, PairsAlike, Zenon
  <1>3. i = j
    BY <1>2 DEF Apart
  <1> QED
    BY <1>1, <1>2, <1>3 DEF Once

\* The invariant's facts about the next state.
LEMMA FactsNext ==
  ASSUME IInv', Settled'
  PROVE  /\ Len(tracks') \in Lanes /\ 1..Len(tracks') \subseteq Lanes
         /\ live' \in [Lanes -> LaneSet] /\ tables' \in Tables
         /\ Placed(live', tracks', desc') /\ Apart(tracks') /\ Fits(live', tracks', desc')
         /\ \A i \in 1..Len(tracks') : Once(desc'[i])
  <1>1. live' \in [Lanes -> LaneSet] /\ cur' \in DOMAIN bank' /\ tables' \in Tables
    BY Zenon DEF IInv, TypeOK
  <1>2. Len(tracks') \in Lanes
    BY Zenon DEF IInv, TypeOK, NumTracks
  <1>3. 1..Len(tracks') \subseteq Lanes
    BY <1>2, BankAssumption DEF Lanes
  <1>4. SlotsFollowGraph'
    BY DEF IInv
  <1>5. Placed(live', tracks', desc')
    BY <1>1, <1>4 DEF SlotsFollowGraph, Placed, Sits, SlotNode, InUse, NumTracks
  <1> QED
    BY <1>1, <1>2, <1>3, <1>5 DEF Settled

\* After the parameters are sent every effect hears its slot, as a node is sent
\* the value of one slot only.
LEMMA PushFollows ==
  ASSUME IInv', Settled', NEW graph, NEW told, PushAllRestoredDefaults(graph, told)
  PROVE  SelectionIsWired' /\ NodesSoundAsSet'
  <1>1. SelectionIsWired'
    BY DEF PushAllRestoredDefaults, SelectionIsWired
  <1>2. ASSUME NEW p \in Reached' PROVE heard'[SlotAt(p)'.node] = SlotAt(p)'.val
    <2> DEFINE slot == live'[p[1]].fx[p[2]]
    <2>1. /\ p[1] \in 1..Len(tracks') /\ p[2] \in 1..Slots /\ slot.node # NoNode
          /\ desc'[p[1]][p[2]] = Gain /\ slot.np > 0
      BY DEF Reached, Loaded, InUse, NumTracks, DescAt, SlotAt
    <2>2. live'[p[1]] \in LaneSet
      BY <2>1, FactsNext
    <2>3. slot \in SlotSet
      BY <2>1, <2>2, LaneFields
    <2>4. slot.node \in Nodes
      BY <2>1, <2>3 DEF SlotSet
    <2>5. slot.val \in {0, 1}
      BY <2>1, FactsNext DEF Fits, LaneFits, SlotFits
    <2>6. <<slot.node, slot.val>> \in Told'
      BY DEF Told, SlotAt
    <2>7. ASSUME NEW v \in {0, 1}, <<slot.node, v>> \in Told' PROVE v = slot.val
      <3>1. PICK q \in Reached' : /\ live'[q[1]].fx[q[2]].node = slot.node
                                  /\ live'[q[1]].fx[q[2]].val = v
        BY <2>7 DEF Told, SlotAt
      <3>2. q[1] \in 1..Len(tracks') /\ q[2] \in 1..Slots
        BY DEF Reached, Loaded, InUse, NumTracks
      <3>3. /\ Placed(live', tracks', desc') /\ Apart(tracks')
            /\ \A i \in 1..Len(tracks') : Once(desc'[i])
        BY FactsNext
      <3>4. q[1] = p[1] /\ q[2] = p[2]
        <4> DEFINE i == q[1]
                   j == p[1]
                   s == q[2]
                   t == p[2]
        <4>1. /\ i \in 1..Len(tracks') /\ j \in 1..Len(tracks') /\ s \in 1..Slots /\ t \in 1..Slots
              /\ live'[i].fx[s].node = live'[j].fx[t].node /\ live'[i].fx[s].node # NoNode
          BY <2>1, <3>1, <3>2
        <4> HIDE DEF i, j, s, t
        <4>2. i = j /\ s = t
          BY <3>3, <4>1, NodeIdentifies
        <4> QED
          BY <4>2 DEF i, j, s, t
      <3> QED
        BY <3>1, <3>4
    <2> HIDE DEF slot
    <2>8. heard'[slot.node] = CHOOSE v \in {0, 1} : <<slot.node, v>> \in Told'
      BY <2>4, <2>5, <2>6 DEF PushAllRestoredDefaults
    <2>9. heard'[slot.node] = slot.val
      BY <2>5, <2>6, <2>7, <2>8
    <2> QED
      BY <2>9 DEF slot, SlotAt
  <1> QED
    BY <1>1, <1>2 DEF NodesSoundAsSet

-----------------------------------------------------------------------------
(* What the operations do to the graph *)

\* Effects stay as they are, and so does the graph.
LEMMA QuietFollows ==
  ASSUME IInv, GraphFollows, UNCHANGED <<tracks, desc, tables, wires, heard>>,
         \A i \in InUse : live'[i].fx = live[i].fx
  PROVE  GraphFollows'
  <1>1. InUse = 1..Len(tracks)
    BY Facts
  <1> QED
    BY <1>1 DEF GraphFollows, Wired, Sound

LEMMA BodyFollows ==
  ASSUME IInv, GraphFollows, NEW i \in InUse, NEW v \in {0, 1}, EditBody(i, v)
  PROVE  GraphFollows'
  <1>1. live' = [live EXCEPT ![i] = WithBody(live[i], v)]
    BY DEF EditBody, WithBody
  <1>2. UNCHANGED <<tracks, desc, tables, wires, heard>>
    BY DEF EditBody, trackVars, graphVars
  <1>3. live \in [Lanes -> LaneSet] /\ InUse \subseteq Lanes
    BY Facts
  <1>4. WithBody(live[i], v).fx = live[i].fx
    BY <1>3 DEF LaneSet, WithBody
  <1> QED
    BY <1>1, <1>2, <1>3, <1>4, QuietFollows

LEMMA InstrumentFollows ==
  ASSUME IInv, GraphFollows, NEW i \in InUse, NEW v \in {0, 1}, SetInstrument(i, v)
  PROVE  GraphFollows'
  <1> DEFINE inst == [live[i].inst EXCEPT !.val = v]
  <1>1. live' = [live EXCEPT ![i] = WithInstrument(live[i], inst)]
    BY DEF SetInstrument, WithInstrument
  <1>2. UNCHANGED <<tracks, desc, tables, wires, heard>>
    BY DEF SetInstrument, trackVars, graphVars
  <1>3. live \in [Lanes -> LaneSet] /\ InUse \subseteq Lanes
    BY Facts
  <1> HIDE DEF inst
  <1>4. WithInstrument(live[i], inst).fx = live[i].fx
    BY <1>3 DEF LaneSet, WithInstrument
  <1> QED
    BY <1>1, <1>2, <1>3, <1>4, QuietFollows

\* One slot of a lane is filled.
LEMMA OneSlotChanges ==
  ASSUME IInv, NEW i \in InUse, NEW s \in 1..Slots, NEW slot \in SlotSet,
         live' = [live EXCEPT ![i] = WithSlot(live[i], s, slot)]
  PROVE  \A k \in InUse, m \in 1..Slots :
           live'[k].fx[m] = IF k = i /\ m = s THEN slot ELSE live[k].fx[m]
  <1>1. live \in [Lanes -> LaneSet] /\ InUse \subseteq Lanes
    BY Facts
  <1>2. \A k \in 1..Slots : WithSlot(live[i], s, slot).fx[k] = IF k = s THEN slot ELSE live[i].fx[k]
    BY <1>1, SlotEdited
  <1>3. \A k \in InUse : live'[k] = IF k = i THEN WithSlot(live[i], s, slot) ELSE live[k]
    BY <1>1
  <1> QED
    BY <1>2, <1>3

\* One value is set.
WithValue(slot, v) == [slot EXCEPT !.val = v]

LEMMA ValueSet ==
  ASSUME NEW slot \in SlotSet, NEW v \in 0..MaxTracks
  PROVE  WithValue(slot, v) \in SlotSet /\ WithValue(slot, v).val = v
         /\ WithValue(slot, v).node = slot.node
  BY DEF SlotSet, WithValue

\* The nodes of other slots are not this one's.
LEMMA OtherNodes ==
  ASSUME IInv, Settled, NEW i \in InUse, NEW s \in 1..Slots, NEW k \in InUse, NEW m \in 1..Slots,
         ~ (k = i /\ m = s), live[k].fx[m].node # NoNode
  PROVE  live[k].fx[m].node # live[i].fx[s].node
  <1>1. /\ Placed(live, tracks, desc) /\ Apart(tracks) /\ InUse = 1..Len(tracks)
        /\ \A j \in 1..Len(tracks) : Once(desc[j])
    BY Facts DEF Settled
  <1> QED
    BY <1>1, NodeIdentifies

LEMMA EffectFollows ==
  ASSUME IInv, Settled, GraphFollows, NEW i \in InUse, NEW s \in 1..Slots, NEW v \in {0, 1},
         SetEffect(i, s, v)
  PROVE  GraphFollows'
  <1> DEFINE node == live[i].fx[s].node
             slot == WithValue(live[i].fx[s], v)
  <1>1. /\ desc[i][s] = Gain /\ UNCHANGED <<tracks, desc, tables, wires>>
        /\ heard' = IF tables[i][s] = Gain THEN [heard EXCEPT ![node] = v] ELSE heard
    BY DEF SetEffect, trackVars
  <1>2. /\ InUse = 1..Len(tracks) /\ heard \in [Nodes -> {0, 1}] /\ tracks[i].id \in Tracks
        /\ Placed(live, tracks, desc)
    BY Facts
  <1>3. node \in Nodes
    <2>1. node = <<tracks[i].id, Gain>>
      BY <1>1, <1>2 DEF Placed, Sits, SlotNode, Gain, NoFx
    <2> QED
      BY <1>2, <2>1 DEF Nodes, Effects
  <1>4. v \in 0..MaxTracks
    BY BankAssumption
  <1>5. /\ live'[i].fx[s].val = v /\ live'[i].fx[s].node = node
        /\ \A k \in InUse, m \in 1..Slots :
             (k = i /\ m = s) \/ live'[k].fx[m] = live[k].fx[m]
    <2>1. live' = [live EXCEPT ![i] = WithSlot(live[i], s, slot)]
      BY DEF SetEffect, WithSlot, WithValue
    <2>2. live[i] \in LaneSet
      BY Facts
    <2>3. live[i].fx[s] \in SlotSet
      BY <2>2, LaneFields
    <2>4. slot \in SlotSet /\ slot.val = v /\ slot.node = node
      BY <1>4, <2>3, ValueSet
    <2> HIDE DEF slot, node
    <2>5. \A k \in InUse, m \in 1..Slots :
            live'[k].fx[m] = IF k = i /\ m = s THEN slot ELSE live[k].fx[m]
      BY <2>1, <2>4, OneSlotChanges, ZenonT(40)
    <2> QED
      BY <2>4, <2>5
  <1>6. \A k \in InUse, m \in 1..Slots :
          ~ (k = i /\ m = s) /\ live[k].fx[m].node # NoNode => live[k].fx[m].node # node
    BY OtherNodes
  <1> HIDE DEF node
  <1>7. Wired(live', tracks', desc', wires')
    <2> SUFFICES ASSUME NEW k \in InUse, NEW m \in 1..Slots, live'[k].fx[m].node # NoNode,
                        desc[k][m] = Duck, live'[k].fx[m].np > 0
                 PROVE  EdgeOf(tracks, k, live'[k].fx[m].val, live'[k].fx[m].node) \subseteq wires
      BY <1>1, <1>2 DEF Wired
    <2>1. live'[k].fx[m] = live[k].fx[m]
      BY <1>1, <1>5 DEF Duck, Gain
    <2> QED
      BY <1>2, <2>1 DEF GraphFollows, Wired
  <1>8. ASSUME NEW k \in InUse, NEW m \in 1..Slots, live'[k].fx[m].node # NoNode,
               desc[k][m] = Gain, tables[k][m] = Gain, live'[k].fx[m].np > 0
        PROVE  heard'[live'[k].fx[m].node] = live'[k].fx[m].val
    <2>1. CASE k = i /\ m = s
      BY <1>1, <1>2, <1>3, <1>5, <1>8, <2>1
    <2>2. CASE ~ (k = i /\ m = s)
      <3>1. live'[k].fx[m] = live[k].fx[m]
        BY <1>5, <2>2
      <3>2. live[k].fx[m].node # node
        BY <1>6, <1>8, <2>2, <3>1
      <3>3. heard[live[k].fx[m].node] = live[k].fx[m].val
        BY <1>2, <1>8, <3>1 DEF GraphFollows, Sound
      <3>4. heard'[live[k].fx[m].node] = heard[live[k].fx[m].node]
        BY <1>1, <1>2, <3>2
      <3> QED
        BY <3>1, <3>3, <3>4
    <2> QED
      BY <2>1, <2>2
  <1>9. Sound(live', tracks', desc', tables', heard')
    BY <1>1, <1>2, <1>8 DEF Sound
  <1> QED
    BY <1>7, <1>9 DEF GraphFollows

LEMMA SidechainFollows ==
  ASSUME IInv, Settled, GraphFollows, NEW i \in InUse, NEW s \in 1..Slots,
         NEW selection \in 0..(NumTracks - 1), SelectSidechain(i, s, selection)
  PROVE  GraphFollows'
  <1> DEFINE node == live[i].fx[s].node
             slot == WithValue(live[i].fx[s], selection)
             was == EdgeOf(tracks, i, live[i].fx[s].val, node)
             edge == EdgeOf(tracks, i, selection, node)
  <1>1. /\ desc[i][s] = Duck /\ UNCHANGED <<tracks, desc, tables, heard>>
        /\ wires' = (wires \ was) \cup edge
    BY DEF SelectSidechain, ApplySelection, trackVars, Edge, EdgeOf, NumTracks
  <1>2. live' = [live EXCEPT ![i] = WithSlot(live[i], s, slot)]
    BY DEF SelectSidechain, WithSlot, WithValue
  <1>3. \A w \in was : w[2] = node
    BY DEF EdgeOf
  <1> HIDE DEF was, edge
  <1>4. InUse = 1..Len(tracks)
    BY Facts
  <1>5. selection \in 0..MaxTracks
    BY Facts, BankAssumption DEF NumTracks, Lanes
  <1>6. /\ live'[i].fx[s].val = selection /\ live'[i].fx[s].node = node
        /\ \A k \in InUse, m \in 1..Slots :
             (k = i /\ m = s) \/ live'[k].fx[m] = live[k].fx[m]
    <2>1. live[i] \in LaneSet
      BY Facts
    <2>2. live[i].fx[s] \in SlotSet
      BY <2>1, LaneFields
    <2>3. slot \in SlotSet /\ slot.val = selection /\ slot.node = node
      BY <1>5, <2>2, ValueSet
    <2>4. slot \in SlotSet
      BY <2>3
    <2> HIDE DEF slot, node
    <2>5. \A k \in InUse, m \in 1..Slots :
            live'[k].fx[m] = IF k = i /\ m = s THEN slot ELSE live[k].fx[m]
      BY <1>2, <2>4, OneSlotChanges, ZenonT(60)
    <2> QED
      BY <2>3, <2>5
  <1>7. \A k \in InUse, m \in 1..Slots :
          ~ (k = i /\ m = s) /\ live[k].fx[m].node # NoNode => live[k].fx[m].node # node
    BY OtherNodes
  <1> HIDE DEF node
  <1>8. ASSUME NEW k \in InUse, NEW m \in 1..Slots, live'[k].fx[m].node # NoNode,
               desc[k][m] = Duck, live'[k].fx[m].np > 0
        PROVE  EdgeOf(tracks, k, live'[k].fx[m].val, live'[k].fx[m].node) \subseteq wires'
    <2>1. CASE k = i /\ m = s
      BY <1>1, <1>6, <2>1 DEF edge
    <2>2. CASE ~ (k = i /\ m = s)
      <3> DEFINE other == EdgeOf(tracks, k, live[k].fx[m].val, live[k].fx[m].node)
      <3>1. live'[k].fx[m] = live[k].fx[m]
        BY <1>6, <2>2
      <3>2. other \subseteq wires
        BY <1>4, <1>8, <3>1 DEF GraphFollows, Wired
      <3>3. live[k].fx[m].node # node
        BY <1>7, <1>8, <2>2, <3>1
      <3>4. \A w \in other : w[2] = live[k].fx[m].node
        BY DEF EdgeOf
      <3> HIDE DEF other
      <3>5. other \subseteq wires'
        BY <1>1, <1>3, <3>2, <3>3, <3>4
      <3> QED
        BY <3>1, <3>5 DEF other
    <2> QED
      BY <2>1, <2>2
  <1>9. Wired(live', tracks', desc', wires')
    BY <1>1, <1>4, <1>8 DEF Wired
  <1>10. Sound(live', tracks', desc', tables', heard')
    <2> SUFFICES ASSUME NEW k \in InUse, NEW m \in 1..Slots, live'[k].fx[m].node # NoNode,
                        desc[k][m] = Gain, tables[k][m] = Gain, live'[k].fx[m].np > 0
                 PROVE  heard[live'[k].fx[m].node] = live'[k].fx[m].val
      BY <1>1, <1>4 DEF Sound
    <2>1. live'[k].fx[m] = live[k].fx[m]
      BY <1>1, <1>6 DEF Duck, Gain
    <2> QED
      BY <1>4, <2>1 DEF GraphFollows, Sound
  <1> QED
    BY <1>9, <1>10 DEF GraphFollows

LEMMA LoadFollows ==
  ASSUME IInv, Settled, IInv', Settled', GraphFollows, NEW i \in InUse, NEW fx \in Effects,
         LoadEffect(i, fx)
  PROVE  GraphFollows'
  <1> DEFINE node == <<tracks[i].id, fx>>
             slot == [node |-> node, np |-> 1, val |-> Default[fx]]
             free == {k \in 1..Slots : live[i].fx[k].node = NoNode}
             s == CHOOSE k \in free : \A m \in free : k <= m
  <1>1. s \in 1..Slots
    <2>1. free # {} /\ free \in SUBSET Nat
      BY SMTT(20) DEF LoadEffect
    <2>2. \E k \in free : \A m \in free : k <= m
      BY <2>1, LeastExists
    <2> QED
      BY <2>2
  <1>2. desc' = [desc EXCEPT ![i][s] = fx] /\ tables' = [tables EXCEPT ![i][s] = fx]
    BY DEF LoadEffect
  <1>3. live' = [live EXCEPT ![i] = WithSlot(live[i], s, slot)]
    BY DEF LoadEffect, WithSlot
  <1>4. tracks' = tracks /\ wires' = wires
    BY DEF LoadEffect, trackVars
  <1>5. heard' = [heard EXCEPT ![node] = Default[fx]]
    BY DEF LoadEffect
  <1> HIDE DEF s
  <1>6. /\ InUse = 1..Len(tracks) /\ InUse \subseteq Lanes /\ tracks[i].id \in Tracks
        /\ desc \in Tables /\ tables \in Tables /\ heard \in [Nodes -> {0, 1}]
    BY Facts
  <1>7. node \in Nodes /\ slot \in SlotSet
    <2>1. Default[fx] \in 0..MaxTracks
      BY BankAssumption DEF Default
    <2> QED
      BY <1>6, <2>1 DEF Nodes, SlotSet
  <1>8. slot.node = node /\ slot.val = Default[fx] /\ node # NoNode
    BY DEF NoNode
  <1> HIDE DEF slot, node
  <1>9. \A k \in InUse, m \in 1..Slots :
          live'[k].fx[m] = IF k = i /\ m = s THEN slot ELSE live[k].fx[m]
    BY <1>1, <1>3, <1>7, OneSlotChanges, ZenonT(40)
  <1>10. \A k \in InUse, m \in 1..Slots :
           /\ desc'[k][m] = IF k = i /\ m = s THEN fx ELSE desc[k][m]
           /\ tables'[k][m] = IF k = i /\ m = s THEN fx ELSE tables[k][m]
    BY <1>1, <1>2, <1>6 DEF Tables
  <1>11. ASSUME NEW k \in InUse, NEW m \in 1..Slots, ~ (k = i /\ m = s),
                live'[k].fx[m].node # NoNode
         PROVE  live'[k].fx[m].node # node
    <2>1. live'[i].fx[s].node = node
      BY <1>1, <1>8, <1>9
    <2>2. /\ Placed(live', tracks', desc') /\ Apart(tracks')
          /\ \A j \in 1..Len(tracks') : Once(desc'[j])
      BY FactsNext
    <2>3. k \in 1..Len(tracks') /\ i \in 1..Len(tracks')
      BY <1>4, <1>6
    <2> QED
      BY <1>1, <1>11, <2>1, <2>2, <2>3, NodeIdentifies
  <1>12. ASSUME NEW k \in InUse, NEW m \in 1..Slots, live'[k].fx[m].node # NoNode,
                desc'[k][m] = Duck, live'[k].fx[m].np > 0
         PROVE  EdgeOf(tracks, k, live'[k].fx[m].val, live'[k].fx[m].node) \subseteq wires
    <2>1. CASE k = i /\ m = s
      <3>1. live'[k].fx[m].val = 0
        BY <1>8, <1>9, <1>10, <1>12, <2>1 DEF Default, Duck, Gain
      <3>2. \A n : EdgeOf(tracks, k, 0, n) = {}
        BY DEF EdgeOf, SidechainSourceTrack
      <3> QED
        BY <3>1, <3>2
    <2>2. CASE ~ (k = i /\ m = s)
      <3>1. live'[k].fx[m] = live[k].fx[m] /\ desc'[k][m] = desc[k][m]
        BY <1>9, <1>10, <2>2
      <3> QED
        BY <1>6, <1>12, <3>1 DEF GraphFollows, Wired
    <2> QED
      BY <2>1, <2>2
  <1>13. ASSUME NEW k \in InUse, NEW m \in 1..Slots, live'[k].fx[m].node # NoNode,
                desc'[k][m] = Gain, tables'[k][m] = Gain, live'[k].fx[m].np > 0
         PROVE  heard'[live'[k].fx[m].node] = live'[k].fx[m].val
    <2>1. CASE k = i /\ m = s
      <3>1. live'[k].fx[m] = slot
        BY <1>9, <2>1
      <3>2. heard'[node] = Default[fx]
        BY <1>5, <1>6, <1>7
      <3> QED
        BY <1>8, <3>1, <3>2
    <2>2. CASE ~ (k = i /\ m = s)
      <3>1. /\ live'[k].fx[m] = live[k].fx[m]
            /\ desc'[k][m] = desc[k][m] /\ tables'[k][m] = tables[k][m]
        BY <1>9, <1>10, <2>2
      <3>2. heard[live[k].fx[m].node] = live[k].fx[m].val
        BY <1>6, <1>13, <3>1 DEF GraphFollows, Sound
      <3>3. live[k].fx[m].node # node
        BY <1>11, <1>13, <2>2, <3>1
      <3>4. heard'[live[k].fx[m].node] = heard[live[k].fx[m].node]
        BY <1>5, <1>6, <3>3
      <3> QED
        BY <3>1, <3>2, <3>4
    <2> QED
      BY <2>1, <2>2
  <1>14. Wired(live', tracks', desc', wires')
    BY <1>4, <1>6, <1>12 DEF Wired
  <1>15. Sound(live', tracks', desc', tables', heard')
    BY <1>4, <1>6, <1>13 DEF Sound
  <1> QED
    BY <1>14, <1>15 DEF GraphFollows

\* A track more: no effect of it yet, and the selections lead where they led.
LEMMA AddFollows ==
  ASSUME IInv, Settled, GraphFollows, NEW id \in Tracks, NEW kind \in Kinds, AddTrack(id, kind)
  PROVE  GraphFollows'
  <1> DEFINE n == Len(tracks)
             inst == [np |-> 1, val |-> InstrumentDefault]
             track == [id |-> id, kind |-> kind]
  <1>1. n + 1 \in Lanes /\ tracks' = Append(tracks, track)
    BY DEF AddTrack, NumTracks
  <1>2. /\ live' = [live EXCEPT ![n + 1] = WithInstrument(live[n + 1], inst)]
        /\ desc' = [desc EXCEPT ![n + 1] = NoChain]
    BY DEF AddTrack, NumTracks, WithInstrument, NoChain
  <1>3. UNCHANGED <<tables, wires, heard>>
    BY DEF AddTrack, graphVars
  <1>4. /\ tracks \in Seq(TrackSet) /\ n \in Nat /\ InUse = 1..n /\ InUse \subseteq Lanes
        /\ desc \in Tables /\ live \in [Lanes -> LaneSet]
        /\ \A k \in Lanes \ InUse : live[k] = BlankLane
    BY Facts, BankAssumption DEF Lanes
  <1>5. track \in TrackSet
    BY DEF TrackSet
  <1> HIDE DEF track
  <1>6. Len(tracks') = n + 1 /\ \A k \in 1..n : tracks'[k] = tracks[k]
    BY <1>1, <1>4, <1>5, AppendProperties
  <1>7. live'[n + 1].fx = BlankLane.fx
    <2>1. live[n + 1] = BlankLane
      BY <1>1, <1>4
    <2>2. live'[n + 1] = WithInstrument(BlankLane, inst)
      BY <1>1, <1>2, <1>4, <2>1
    <2> HIDE DEF inst
    <2>3. WithInstrument(BlankLane, inst).fx = BlankLane.fx
      BY DEF WithInstrument, BlankLane
    <2> QED
      BY <2>2, <2>3
  <1>8. \A s \in 1..Slots : live'[n + 1].fx[s].node = NoNode
    BY <1>7, BlankTyped DEF SlotNode
  <1>9. \A k \in 1..n : live'[k] = live[k] /\ desc'[k] = desc[k]
    BY <1>2, <1>4 DEF Tables
  <1>10. ASSUME NEW k \in 1..n, NEW s \in 1..Slots, live[k].fx[s].node # NoNode,
                desc[k][s] = Duck, live[k].fx[s].np > 0
         PROVE  EdgeOf(tracks', k, live[k].fx[s].val, live[k].fx[s].node)
                  = EdgeOf(tracks, k, live[k].fx[s].val, live[k].fx[s].node)
    <2> DEFINE v == live[k].fx[s].val
               source == SidechainSourceTrack(k, v, n)
    <2>1. live[k] \in LaneSet
      BY <1>4
    <2>2. live[k].fx[s] \in SlotSet
      BY <2>1, LaneFields
    <2>3. v \in Nat
      BY <2>2, BankAssumption DEF SlotSet
    <2>4. v < n
      BY <1>10 DEF Settled, Fits, LaneFits, SlotFits
    <2>5. SidechainSourceTrack(k, v, n + 1) = source
      BY <1>4, <2>3, <2>4, SourceAmongMore
    <2>6. source = NoTrack \/ source \in 1..n
      BY <1>4, SourceIsTrack DEF Others
    <2> HIDE DEF source
    <2>7. source # NoTrack => tracks'[source] = tracks[source]
      BY <1>6, <2>6
    <2> QED
      BY <1>6, <2>5, <2>7 DEF EdgeOf, source
  <1>11. ASSUME NEW k \in 1..n + 1, NEW s \in 1..Slots, live'[k].fx[s].node # NoNode,
                desc'[k][s] = Duck, live'[k].fx[s].np > 0
         PROVE  EdgeOf(tracks', k, live'[k].fx[s].val, live'[k].fx[s].node) \subseteq wires
    <2>1. k \in 1..n
      BY <1>4, <1>8, <1>11
    <2>2. live'[k] = live[k] /\ desc'[k] = desc[k]
      BY <1>9, <2>1
    <2>3. EdgeOf(tracks, k, live[k].fx[s].val, live[k].fx[s].node) \subseteq wires
      BY <1>11, <2>1, <2>2 DEF GraphFollows, Wired
    <2> QED
      BY <1>10, <1>11, <2>1, <2>2, <2>3
  <1>12. ASSUME NEW k \in 1..n + 1, NEW s \in 1..Slots, live'[k].fx[s].node # NoNode,
                desc'[k][s] = Gain, tables[k][s] = Gain, live'[k].fx[s].np > 0
         PROVE  heard[live'[k].fx[s].node] = live'[k].fx[s].val
    <2>1. k \in 1..n
      BY <1>4, <1>8, <1>12
    <2>2. live'[k] = live[k] /\ desc'[k] = desc[k]
      BY <1>9, <2>1
    <2> QED
      BY <1>12, <2>1, <2>2 DEF GraphFollows, Sound
  <1>13. Wired(live', tracks', desc', wires')
    BY <1>3, <1>6, <1>11 DEF Wired
  <1>14. Sound(live', tracks', desc', tables', heard')
    BY <1>3, <1>6, <1>12 DEF Sound
  <1> QED
    BY <1>13, <1>14 DEF GraphFollows

-----------------------------------------------------------------------------
(* The theorems *)

LEMMA InitFollows == Init => WInv
  <1> SUFFICES ASSUME Init PROVE WInv
    OBVIOUS
  <1>1. IInv /\ Settled
    BY InitEstablishes, InitSettles
  <1>2. desc = [i \in Lanes |-> IF i \in InUse THEN setup.fx ELSE NoChain]
        /\ heard = [n \in Nodes |-> Default[n[2]]]
    BY Zenon DEF Init, NoChain
  <1>3. live = [i \in Lanes |->
                  IF i \notin InUse THEN BlankLane
                  ELSE [body |-> 0, inst |-> [np |-> 1, val |-> InstrumentDefault],
                        fx |-> [s \in 1..Slots |-> StartSlot(tracks[i].id, setup.fx[s])]]]
    BY Zenon DEF Init
  <1>4. ASSUME NEW p \in Loaded
        PROVE  /\ SlotAt(p).node = <<tracks[p[1]].id, DescAt(p)>>
               /\ SlotAt(p).val = Default[DescAt(p)] /\ SlotAt(p).node \in Nodes
               /\ DescAt(p) \in Effects
    <2> DEFINE i == p[1]
               s == p[2]
               fx == setup.fx[s]
    <2>1. i \in InUse /\ s \in 1..Slots /\ SlotAt(p).node # NoNode
      BY DEF Loaded, SlotAt
    <2>2. i \in Lanes /\ tracks[i].id \in Tracks /\ fx \in Effects \cup {NoFx}
      BY <2>1, StartTracks DEF Chain
    <2>3. DescAt(p) = fx
      BY <1>2, <2>1, <2>2 DEF DescAt
    <2>4. SlotAt(p) = StartSlot(tracks[i].id, fx)
      BY <1>3, <2>1, <2>2 DEF SlotAt
    <2> HIDE DEF i, s, fx
    <2>5. fx # NoFx
      BY <2>1, <2>4 DEF StartSlot, EmptySlot
    <2>6. SlotAt(p) = [node |-> <<tracks[i].id, fx>>, np |-> 1, val |-> Default[fx]]
      BY <2>4, <2>5 DEF StartSlot
    <2>7. <<tracks[i].id, fx>> \in Nodes /\ fx \in Effects
      BY <2>2, <2>5 DEF Nodes
    <2> QED
      BY <2>3, <2>6, <2>7 DEF i
  <1>5. SelectionIsWired
    <2>1. ASSUME NEW p \in Loaded, DescAt(p) = Duck
          PROVE  Edge(p[1], SlotAt(p).val, SlotAt(p).node) = {}
      <3>1. SlotAt(p).val = 0
        BY <1>4, <2>1 DEF Default, Effects, Duck, Gain
      <3> QED
        BY <3>1 DEF Edge, SidechainSourceTrack
    <2> QED
      BY <2>1 DEF SelectionIsWired, Selected
  <1>6. NodesSoundAsSet
    <2> SUFFICES ASSUME NEW p \in Reached PROVE heard[SlotAt(p).node] = SlotAt(p).val
      BY DEF NodesSoundAsSet
    <2>1. p \in Loaded
      BY DEF Reached
    <2>2. heard[SlotAt(p).node] = Default[SlotAt(p).node[2]]
      BY <1>2, <1>4, <2>1
    <2> QED
      BY <1>4, <2>1, <2>2
  <1> QED
    BY <1>1, <1>5, <1>6 DEF WInv

LEMMA PushesFollow ==
  ASSUME IInv', Settled',
         \/ \E p \in DOMAIN bank : SwitchPattern(p)
         \/ DeletePattern
         \/ \E i \in InUse, s \in 1..Slots : DeleteEffect(i, s)
         \/ \E i \in InUse : RemoveTrack(i)
  PROVE  SelectionIsWired' /\ NodesSoundAsSet'
  <1>1. ASSUME NEW p \in DOMAIN bank, SwitchPattern(p) PROVE SelectionIsWired' /\ NodesSoundAsSet'
    <2>1. PushAllRestoredDefaults(wires, heard)
      BY <1>1 DEF SwitchPattern
    <2> QED
      BY <2>1, PushFollows
  <1>2. CASE DeletePattern
    <2>1. PushAllRestoredDefaults(wires, heard)
      BY <1>2 DEF DeletePattern
    <2> QED
      BY <2>1, PushFollows
  <1>3. ASSUME NEW i \in InUse, NEW s \in 1..Slots, DeleteEffect(i, s)
        PROVE  SelectionIsWired' /\ NodesSoundAsSet'
    <2> DEFINE graph == {w \in wires : w[2] # live[i].fx[s].node}
               told == [heard EXCEPT ![live[i].fx[s].node] = 0]
    <2>1. PushAllRestoredDefaults(graph, told)
      BY <1>3 DEF DeleteEffect
    <2> HIDE DEF graph, told
    <2> QED
      BY <2>1, PushFollows
  <1>4. ASSUME NEW i \in InUse, RemoveTrack(i) PROVE SelectionIsWired' /\ NodesSoundAsSet'
    <2> DEFINE graph == {w \in wires : w[1] # tracks[i].id /\ w[2][1] # tracks[i].id}
    <2>1. PushAllRestoredDefaults(graph, heard)
      BY <1>4 DEF RemoveTrack
    <2> HIDE DEF graph
    <2> QED
      BY <2>1, PushFollows
  <1> QED
    BY <1>1, <1>2, <1>3, <1>4

LEMMA NextFollows == WInv /\ [Next]_vars => WInv'
  <1> SUFFICES ASSUME WInv, [Next]_vars PROVE WInv'
    OBVIOUS
  <1>1. IInv /\ Settled /\ GraphFollows
    BY GraphNow DEF WInv
  <1>2. IInv' /\ Settled'
    BY <1>1, NextKeeps, SettledNext
  <1>3. ASSUME NEW i \in InUse, NEW v \in {0, 1}, EditBody(i, v) PROVE GraphFollows'
    BY <1>1, <1>3, BodyFollows
  <1>4. ASSUME NEW i \in InUse, NEW v \in {0, 1}, SetInstrument(i, v) PROVE GraphFollows'
    BY <1>1, <1>4, InstrumentFollows
  <1>5. ASSUME NEW i \in InUse, NEW s \in 1..Slots, NEW v \in {0, 1}, SetEffect(i, s, v)
        PROVE  GraphFollows'
    BY <1>1, <1>5, EffectFollows
  <1>6. ASSUME NEW i \in InUse, NEW s \in 1..Slots, NEW selection \in 0..(NumTracks - 1),
               SelectSidechain(i, s, selection)
        PROVE  GraphFollows'
    BY <1>1, <1>6, SidechainFollows
  <1>7. ASSUME \/ ClonePattern
               \/ \E i \in InUse : PropagateTrack(i)
               \/ \E i \in InUse, v \in {0, 1} : SetPolyphony(i, v)
               \/ UNCHANGED vars
        PROVE  GraphFollows'
    <2>1. UNCHANGED <<tracks, desc, tables, wires, heard, live>>
      BY <1>7 DEF ClonePattern, PropagateTrack, SetPolyphony, vars, trackVars, graphVars, stateVars
    <2> QED
      BY <1>1, <2>1, QuietFollows
  <1>8. ASSUME NEW i \in InUse, NEW fx \in Effects, LoadEffect(i, fx) PROVE GraphFollows'
    BY <1>1, <1>2, <1>8, LoadFollows
  <1>9. ASSUME NEW id \in Tracks, NEW kind \in Kinds, AddTrack(id, kind) PROVE GraphFollows'
    BY <1>1, <1>9, AddFollows
  <1>10. ASSUME \/ \E p \in DOMAIN bank : SwitchPattern(p)
                \/ DeletePattern
                \/ \E i \in InUse, s \in 1..Slots : DeleteEffect(i, s)
                \/ \E i \in InUse : RemoveTrack(i)
         PROVE  SelectionIsWired' /\ NodesSoundAsSet'
    BY <1>2, <1>10, PushesFollow
  <1>11. GraphFollows' \/ (SelectionIsWired' /\ NodesSoundAsSet')
    BY <1>3, <1>4, <1>5, <1>6, <1>7, <1>8, <1>9, <1>10 DEF Next
  <1> QED
    BY <1>2, <1>11, GraphNext DEF WInv

\* Whatever was edited, switched, added or deleted.
THEOREM WiringInvariant == Spec => []WInv
  BY InitFollows, NextFollows, PTL DEF Spec

\* The track an effect of the open pattern is set to listen to is among those
\* wired into it, also after a switch and after tracks were renumbered
\* (push_all_restored_defaults, which unwires nothing).
THEOREM SelectionsAreWired == Spec => []SelectionIsWired
  <1>1. WInv => SelectionIsWired
    BY DEF WInv
  <1> QED
    BY <1>1, WiringInvariant, PTL

-----------------------------------------------------------------------------
(* The book of pages.  A page depends on the lanes of its pattern, on the    *)
(* tracks and on the chains of their effects; At(p) are the lanes of p.      *)

At(p) == IF p = cur THEN live ELSE bank[p]

SettingOf(vector, i, fx, val) ==
  IF fx # Duck THEN val
  ELSE LET source == SidechainSourceTrack(i, val, Len(vector))
       IN  IF source = NoTrack THEN NoTrack ELSE vector[source].id
Size(chain) == Cardinality({k \in 1..Slots : chain[k] # NoFx})
ChainOf(vector, chain, i, lane) ==
  [s \in 1..Size(chain) |->
     [fx |-> chain[s], set |-> SettingOf(vector, i, chain[s], lane.fx[s].val)]]
EntryOf(vector, chain, i, lane) ==
  [body  |-> lane.body,
   inst  |-> IF vector[i].kind = "custom" THEN lane.inst.val ELSE InstrumentDefault,
   chain |-> ChainOf(vector, chain, i, lane)]
Ids(vector) == {vector[i].id : i \in 1..Len(vector)}
PageOf(lanes, vector, chains) ==
  [id \in Ids(vector) |->
     LET i == CHOOSE k \in 1..Len(vector) : vector[k].id = id
     IN  EntryOf(vector, chains[i], i, lanes[i])]

LEMMA EntryNow ==
  ASSUME NEW i, NEW lane
  PROVE  Entry(i, lane) = EntryOf(tracks, desc[i], i, lane)
  <1>1. \A s : Setting(i, s, lane.fx[s]) = SettingOf(tracks, i, desc[i][s], lane.fx[s].val)
    BY DEF Setting, SettingOf, NumTracks
  <1> QED
    BY <1>1 DEF Entry, EntryOf, ChainOf, Size

LEMMA PageNow ==
  ASSUME IInv, NEW lanes
  PROVE  Page(lanes) = PageOf(lanes, tracks, desc)
  <1>1. tracks \in Seq(TrackSet) /\ InUse = 1..Len(tracks)
    BY Facts
  <1>2. {t.id : t \in Range(tracks)} = Ids(tracks)
    BY <1>1 DEF Range, Ids
  <1>3. Page(lanes) = [id \in {t.id : t \in Range(tracks)} |->
                        LET i == CHOOSE k \in InUse : tracks[k].id = id
                        IN  EntryOf(tracks, desc[i], i, lanes[i])]
    BY EntryNow DEF Page
  <1> QED
    BY <1>1, <1>2, <1>3 DEF PageOf

PagesAre == Pages = [p \in 1..Len(bank) |-> PageOf(At(p), tracks, desc)]

LEMMA PagesNow == IInv => PagesAre
  <1> SUFFICES ASSUME IInv PROVE Pages = [p \in 1..Len(bank) |-> PageOf(At(p), tracks, desc)]
    BY DEF PagesAre
  <1>1. DOMAIN bank = 1..Len(bank)
    BY Facts
  <1>2. \A p : Page(At(p)) = PageOf(At(p), tracks, desc)
    BY PageNow
  <1>3. Pages = [p \in DOMAIN bank |-> Page(At(p))]
    BY DEF Pages, At
  <1> QED
    BY <1>1, <1>2, <1>3

LEMMA PagesNext == IInv' => PagesAre'
  BY PagesNow, PTL

\* A page has an entry for every track.
LEMMA PageAt ==
  ASSUME NEW vector, Apart(vector), NEW lanes, NEW chains
  PROVE  /\ DOMAIN PageOf(lanes, vector, chains) = Ids(vector)
         /\ \A i \in 1..Len(vector) :
              PageOf(lanes, vector, chains)[vector[i].id] = EntryOf(vector, chains[i], i, lanes[i])
  <1>1. ASSUME NEW i \in 1..Len(vector)
        PROVE  PageOf(lanes, vector, chains)[vector[i].id] = EntryOf(vector, chains[i], i, lanes[i])
    <2> DEFINE j == CHOOSE k \in 1..Len(vector) : vector[k].id = vector[i].id
    <2>1. j = i
      BY DEF Apart
    <2>2. vector[i].id \in Ids(vector)
      BY DEF Ids
    <2>3. PageOf(lanes, vector, chains)[vector[i].id] = EntryOf(vector, chains[j], j, lanes[j])
      BY <2>2 DEF PageOf
    <2> HIDE DEF j
    <2> QED
      BY <2>1, <2>3
  <1> QED
    BY <1>1 DEF PageOf

\* What has the entries of a page is that page.
LEMMA PageIs ==
  ASSUME NEW vector, Apart(vector), NEW lanes, NEW chains, NEW page,
         page = [u \in Ids(vector) |-> page[u]],
         \A i \in 1..Len(vector) : page[vector[i].id] = EntryOf(vector, chains[i], i, lanes[i])
  PROVE  page = PageOf(lanes, vector, chains)
  <1> DEFINE other == PageOf(lanes, vector, chains)
  <1>1. other = [u \in Ids(vector) |-> other[u]]
    BY DEF PageOf
  <1>2. \A i \in 1..Len(vector) : page[vector[i].id] = other[vector[i].id]
    BY PageAt
  <1> HIDE DEF other
  <1>3. \A u \in Ids(vector) : page[u] = other[u]
    BY <1>2 DEF Ids
  <1> QED
    BY <1>1, <1>3 DEF other

-----------------------------------------------------------------------------
(* What the pages need besides: an effect follows another without a gap, as  *)
(* the chain of a page has none, and every place of a lane that a page shows *)
(* keeps a value, as saving forgets a value that is not kept.                *)

Packed(chain) == \A j, k \in 1..Slots : j < k /\ chain[k] # NoFx => chain[j] # NoFx
Full(lane, chain, kind) ==
  /\ kind = "custom" => lane.inst.np = 1
  /\ \A s \in 1..Slots : chain[s] # NoFx => lane.fx[s].np = 1
Filled(lanes, vector, chains) ==
  \A i \in 1..Len(vector) : Full(lanes[i], chains[i], vector[i].kind)
Complete ==
  /\ \A i \in 1..Len(tracks) : Packed(desc[i])
  /\ \A p \in 1..Len(bank) : Filled(At(p), tracks, desc)

BInv == IInv /\ Settled /\ Complete

LEMMA PackedSize ==
  ASSUME NEW chain \in Chain, Packed(chain)
  PROVE  /\ Size(chain) \in 0..Slots
         /\ \A s \in 1..Slots : chain[s] # NoFx <=> s <= Size(chain)
  <1> DEFINE T == {k \in 1..Slots : chain[k] # NoFx}
  <1>1. CASE T = {}
    <2>1. Size(chain) = 0
      BY <1>1, FS_EmptySet DEF Size
    <2> QED
      BY <1>1, <2>1, BankAssumption
  <1>2. CASE T # {}
    <2>1. PICK m \in T : \A k \in T : k <= m
      BY <1>2, GreatestExists, BankAssumption
    <2>2. m \in 1..Slots /\ chain[m] # NoFx
      BY <2>1
    <2>3. \A k \in 1..Slots : k \in T <=> k <= m
      BY <2>1, <2>2 DEF Packed
    <2>4. T = 1..m
      <3>1. \A k \in 1..m : k \in 1..Slots
        BY <2>2, BankAssumption
      <3>2. \A k \in T : k \in 1..Slots
        OBVIOUS
      <3> HIDE DEF T
      <3>3. ASSUME NEW k \in T PROVE k \in 1..m
        BY <2>2, <2>3, <3>2, BankAssumption
      <3>4. ASSUME NEW k \in 1..m PROVE k \in T
        <4>1. k \in 1..Slots /\ k <= m
          BY <2>2, <3>1
        <4> QED
          BY <2>3, <4>1
      <3> QED
        BY <3>3, <3>4
    <2>5. Cardinality(1..m) = m
      BY <2>2, FS_Interval
    <2>6. Size(chain) = m
      BY <2>4, <2>5 DEF Size
    <2> QED
      BY <2>2, <2>3, <2>6
  <1> QED
    BY <1>1, <1>2

\* A page shows of a lane what it plays, a custom instrument's value, and the
\* values of the places that are in use.
LEMMA EntriesEqual ==
  ASSUME NEW vector, NEW i, NEW chain \in Chain, Packed(chain), NEW a, NEW b,
         a.body = b.body, vector[i].kind = "custom" => a.inst.val = b.inst.val,
         \A s \in 1..Slots : chain[s] # NoFx => a.fx[s].val = b.fx[s].val
  PROVE  EntryOf(vector, chain, i, a) = EntryOf(vector, chain, i, b)
  <1>1. Size(chain) \in 0..Slots
    BY PackedSize
  <1>2. \A s \in 1..Size(chain) : s \in 1..Slots
    BY <1>1, BankAssumption
  <1>3. \A s \in 1..Size(chain) : chain[s] # NoFx
    BY <1>2, PackedSize
  <1> QED
    BY <1>2, <1>3 DEF EntryOf, ChainOf

\* Saved, a lane comes to the same.
LEMMA SavedSame ==
  ASSUME NEW lane \in LaneSet, NEW vector, NEW i, NEW chain \in Chain, Packed(chain),
         Full(lane, chain, vector[i].kind)
  PROVE  /\ Full(CapturedLane(lane), chain, vector[i].kind)
         /\ EntryOf(vector, chain, i, CapturedLane(lane)) = EntryOf(vector, chain, i, lane)
  <1>1. lane.fx \in [1..Slots -> SlotSet] /\ lane.inst \in InstrumentSet
    BY LaneFields
  <1> DEFINE inst == Captured(lane.inst)
             fx == [s \in 1..Slots |-> Captured(lane.fx[s])]
             saved == CapturedLane(lane)
  <1>2. CapturedLane(lane) = WithParts(lane, inst, fx)
    BY DEF CapturedLane, WithParts
  <1>3. /\ WithParts(lane, inst, fx).fx = fx /\ WithParts(lane, inst, fx).inst = inst
        /\ WithParts(lane, inst, fx).body = lane.body
    BY DEF WithParts, LaneSet
  <1>4. saved.body = lane.body /\ saved.inst = Captured(lane.inst)
    BY <1>2, <1>3
  <1>5. \A s \in 1..Slots : saved.fx[s] = Captured(lane.fx[s])
    BY <1>2, <1>3
  <1>6. inst.np = lane.inst.np /\ (lane.inst.np = 1 => inst.val = lane.inst.val)
    BY <1>1 DEF Captured, InstrumentSet
  <1>7. ASSUME NEW s \in 1..Slots, lane.fx[s].np = 1
        PROVE  Captured(lane.fx[s]).np = 1 /\ Captured(lane.fx[s]).val = lane.fx[s].val
    <2>1. lane.fx[s] \in SlotSet
      BY <1>1
    <2> QED
      BY <1>7, <2>1 DEF Captured, SlotSet
  <1> HIDE DEF saved, inst, fx
  <1>8. Full(saved, chain, vector[i].kind)
    BY <1>4, <1>5, <1>6, <1>7 DEF Full, inst
  <1>9. EntryOf(vector, chain, i, saved) = EntryOf(vector, chain, i, lane)
    <2>1. saved.body = lane.body
      BY <1>4
    <2>2. vector[i].kind = "custom" => saved.inst.val = lane.inst.val
      BY <1>4, <1>6 DEF Full, inst
    <2>3. \A s \in 1..Slots : chain[s] # NoFx => saved.fx[s].val = lane.fx[s].val
      BY <1>5, <1>7 DEF Full
    <2> QED
      BY <2>1, <2>2, <2>3, EntriesEqual
  <1> QED
    BY <1>8, <1>9 DEF saved

\* Restored, a lane comes to what was saved.
LEMMA BackSame ==
  ASSUME NEW lane \in LaneSet, NEW snap \in LaneSet, NEW vector, NEW i, NEW chain \in Chain,
         Packed(chain), Full(snap, chain, vector[i].kind)
  PROVE  /\ Full(RestoredLane(lane, snap), chain, vector[i].kind)
         /\ EntryOf(vector, chain, i, RestoredLane(lane, snap)) = EntryOf(vector, chain, i, snap)
  <1>1. /\ lane.fx \in [1..Slots -> SlotSet] /\ lane.inst \in InstrumentSet
        /\ snap.fx \in [1..Slots -> SlotSet] /\ snap.inst \in InstrumentSet
    BY LaneFields
  <1> DEFINE back == RestoredLane(lane, snap)
  <1>2. /\ back.body = snap.body /\ back.inst = Restored(lane.inst, snap.inst)
        /\ \A s \in 1..Slots : back.fx[s] = Restored(lane.fx[s], snap.fx[s])
    BY DEF RestoredLane
  <1>3. snap.inst.np = 1 => back.inst.np = 1 /\ back.inst.val = snap.inst.val
    BY <1>1, <1>2 DEF Restored, InstrumentSet
  <1>4. ASSUME NEW s \in 1..Slots, snap.fx[s].np = 1
        PROVE  back.fx[s].np = 1 /\ back.fx[s].val = snap.fx[s].val
    <2>1. snap.fx[s] \in SlotSet
      BY <1>1
    <2> QED
      BY <1>2, <1>4, <2>1 DEF Restored, SlotSet
  <1> HIDE DEF back
  <1>5. Full(back, chain, vector[i].kind)
    BY <1>3, <1>4 DEF Full
  <1>6. EntryOf(vector, chain, i, back) = EntryOf(vector, chain, i, snap)
    <2>1. vector[i].kind = "custom" => back.inst.val = snap.inst.val
      BY <1>3 DEF Full
    <2>2. \A s \in 1..Slots : chain[s] # NoFx => back.fx[s].val = snap.fx[s].val
      BY <1>4 DEF Full
    <2> QED
      BY <1>2, <2>1, <2>2, EntriesEqual
  <1> QED
    BY <1>5, <1>6 DEF back

LEMMA BookFacts ==
  ASSUME BInv
  PROVE  /\ InUse = 1..Len(tracks) /\ Len(tracks) \in Nat \ {0} /\ InUse \subseteq Lanes
         /\ \A i \in InUse : /\ desc[i] \in Chain /\ Packed(desc[i]) /\ live[i] \in LaneSet
                             /\ tracks[i].id \in Tracks
         /\ Apart(tracks)
         /\ DOMAIN bank = 1..Len(bank) /\ Len(bank) \in Nat \ {0} /\ cur \in 1..Len(bank)
         /\ \A p \in 1..Len(bank) : bank[p] \in Snapshot
         /\ \A p \in 1..Len(bank), i \in InUse :
              At(p)[i] \in LaneSet /\ Full(At(p)[i], desc[i], tracks[i].kind)
         /\ At(cur) = live
         /\ Pages = [p \in 1..Len(bank) |-> PageOf(At(p), tracks, desc)]
         /\ \A p \in 1..Len(bank) : DOMAIN PageOf(At(p), tracks, desc) = Ids(tracks)
  <1>1. /\ InUse = 1..Len(tracks) /\ Len(tracks) \in Nat \ {0} /\ InUse \subseteq Lanes
        /\ desc \in Tables /\ live \in [Lanes -> LaneSet]
        /\ \A i \in InUse : tracks[i].id \in Tracks
        /\ DOMAIN bank = 1..Len(bank) /\ Len(bank) \in Nat \ {0} /\ cur \in 1..Len(bank)
        /\ \A p \in 1..Len(bank) : bank[p] \in Snapshot
    BY Facts, BankAssumption DEF BInv, Lanes, Snapshot
  <1>2. \A i \in InUse : desc[i] \in Chain /\ Packed(desc[i]) /\ live[i] \in LaneSet
    BY <1>1 DEF Tables, Chain, BInv, Complete
  <1>3. ASSUME NEW p \in 1..Len(bank), NEW i \in InUse
        PROVE  At(p)[i] \in LaneSet /\ Full(At(p)[i], desc[i], tracks[i].kind)
    <2>1. bank[p][i] \in LaneSet
      BY <1>1 DEF Snapshot
    <2> QED
      BY <1>1, <1>2, <2>1 DEF At, BInv, Complete, Filled
  <1>4. Apart(tracks)
    BY DEF BInv, Settled
  <1>5. Pages = [p \in 1..Len(bank) |-> PageOf(At(p), tracks, desc)]
    BY PagesNow DEF BInv, PagesAre
  <1>6. At(cur) = live
    BY DEF At
  <1>7. \A p \in 1..Len(bank) : DOMAIN PageOf(At(p), tracks, desc) = Ids(tracks)
    BY DEF PageOf
  <1> QED
    BY <1>1, <1>2, <1>3, <1>4, <1>5, <1>6, <1>7

-----------------------------------------------------------------------------
(* The same page again *)

FilledHere(lanes) == Filled(lanes, tracks, desc)

\* The lanes come to what the other lanes come to, and keep it.
Plays(lanes, other) ==
  \A i \in InUse : /\ Full(lanes[i], desc[i], tracks[i].kind)
                   /\ EntryOf(tracks, desc[i], i, lanes[i]) = EntryOf(tracks, desc[i], i, other[i])

LEMMA PlaysPage ==
  ASSUME BInv, NEW lanes, NEW other, Plays(lanes, other)
  PROVE  /\ FilledHere(lanes)
         /\ PageOf(lanes, tracks, desc) = PageOf(other, tracks, desc)
  <1>1. InUse = 1..Len(tracks) /\ Apart(tracks)
    BY BookFacts
  <1> DEFINE page == PageOf(lanes, tracks, desc)
  <1>2. page = [u \in Ids(tracks) |-> page[u]]
    BY DEF PageOf
  <1>3. \A i \in 1..Len(tracks) : page[tracks[i].id] = EntryOf(tracks, desc[i], i, lanes[i])
    BY <1>1, PageAt
  <1>4. \A i \in 1..Len(tracks) : page[tracks[i].id] = EntryOf(tracks, desc[i], i, other[i])
    BY <1>1, <1>3 DEF Plays
  <1> HIDE DEF page
  <1>5. page = PageOf(other, tracks, desc)
    BY <1>1, <1>2, <1>4, PageIs
  <1> QED
    BY <1>1, <1>5 DEF FilledHere, Filled, Plays, page

LEMMA CapturePlays ==
  ASSUME BInv
  PROVE  Plays(Capture, live)
  <1> SUFFICES ASSUME NEW i \in InUse
               PROVE  /\ Full(Capture[i], desc[i], tracks[i].kind)
                      /\ EntryOf(tracks, desc[i], i, Capture[i]) = EntryOf(tracks, desc[i], i, live[i])
    BY DEF Plays
  <1>1. /\ desc[i] \in Chain /\ Packed(desc[i]) /\ live[i] \in LaneSet
        /\ Full(live[i], desc[i], tracks[i].kind)
    BY BookFacts
  <1>2. Capture[i] = CapturedLane(live[i])
    BY DEF Capture
  <1> QED
    BY <1>1, <1>2, SavedSame

LEMMA RestorePlays ==
  ASSUME BInv, NEW snap \in Snapshot, FilledHere(snap)
  PROVE  Plays(Restore(snap), snap)
  <1> SUFFICES ASSUME NEW i \in InUse
               PROVE  /\ Full(Restore(snap)[i], desc[i], tracks[i].kind)
                      /\ EntryOf(tracks, desc[i], i, Restore(snap)[i])
                           = EntryOf(tracks, desc[i], i, snap[i])
    BY DEF Plays
  <1>1. /\ desc[i] \in Chain /\ Packed(desc[i]) /\ live[i] \in LaneSet /\ snap[i] \in LaneSet
        /\ Full(snap[i], desc[i], tracks[i].kind)
    BY BookFacts DEF Snapshot, FilledHere, Filled
  <1>2. Restore(snap)[i] = RestoredLane(live[i], snap[i])
    BY BookFacts DEF Restore, Snapshot
  <1>3. /\ Full(RestoredLane(live[i], snap[i]), desc[i], tracks[i].kind)
        /\ EntryOf(tracks, desc[i], i, RestoredLane(live[i], snap[i]))
             = EntryOf(tracks, desc[i], i, snap[i])
    BY <1>1, BackSame
  <1> QED
    BY <1>2, <1>3, Zenon

LEMMA StillPlays ==
  ASSUME BInv, NEW p \in 1..Len(bank)
  PROVE  Plays(At(p), At(p)) /\ FilledHere(At(p))
  BY BookFacts DEF Plays, FilledHere, Filled

LEMMA PlaysOn ==
  ASSUME NEW a, NEW b, NEW c, Plays(a, b), Plays(b, c)
  PROVE  Plays(a, c)
  BY DEF Plays

\* When the tracks and their effects stay, every page is one of those before.
LEMMA PagesFollow ==
  ASSUME BInv, IInv', UNCHANGED <<tracks, desc>>, NEW from,
         \A q \in 1..Len(bank') : from[q] \in 1..Len(bank),
         \A q \in 1..Len(bank') : Plays(At(q)', At(from[q]))
  PROVE  /\ Complete'
         /\ Pages' = [q \in 1..Len(bank') |-> Pages[from[q]]]
  <1>1. \A q \in 1..Len(bank') : /\ FilledHere(At(q)')
                                 /\ PageOf(At(q)', tracks, desc) = PageOf(At(from[q]), tracks, desc)
    BY PlaysPage
  <1>2. Complete'
    BY <1>1 DEF BInv, Complete, FilledHere
  <1>3. Pages' = [q \in 1..Len(bank') |-> PageOf(At(q)', tracks, desc)]
    BY PagesNext DEF PagesAre
  <1>4. \A q \in 1..Len(bank') : Pages[from[q]] = PageOf(At(from[q]), tracks, desc)
    BY BookFacts
  <1> QED
    BY <1>1, <1>2, <1>3, <1>4

\* A sequence is told by its length and its elements.
LEMMA SeqIs ==
  ASSUME NEW S, NEW s \in Seq(S), NEW n \in Nat, Len(s) = n, NEW f,
         \A k \in 1..n : s[k] = f[k]
  PROVE  s = [k \in 1..n |-> f[k]]
  OBVIOUS

LEMMA Longer ==
  ASSUME NEW n \in Nat, NEW f \in [1..n -> {0, 1}], NEW v \in {0, 1}
  PROVE  Append(f, v) = [k \in 1..n + 1 |-> IF k = n + 1 THEN v ELSE f[k]]
  <1>1. f \in Seq({0, 1}) /\ Len(f) = n
    BY FunctionIsSeq
  <1>2. /\ Append(f, v) \in Seq({0, 1}) /\ Len(Append(f, v)) = n + 1
        /\ \A k \in 1..n : Append(f, v)[k] = f[k]
        /\ Append(f, v)[n + 1] = v
    BY <1>1, AppendProperties
  <1> DEFINE longer == [k \in 1..n + 1 |-> IF k = n + 1 THEN v ELSE f[k]]
  <1>3. \A k \in 1..n + 1 : Append(f, v)[k] = longer[k]
    BY <1>2
  <1>4. longer = [k \in 1..n + 1 |-> longer[k]]
    OBVIOUS
  <1> HIDE DEF longer
  <1>5. PICK m, s : m = n + 1 /\ s = Append(f, v)
    OBVIOUS
  <1>6. m \in Nat /\ s \in Seq({0, 1}) /\ Len(s) = m /\ \A k \in 1..m : s[k] = longer[k]
    BY <1>2, <1>3, <1>5
  <1>7. s = [k \in 1..m |-> longer[k]]
    BY <1>6, SMTT(60)
  <1>8. s = longer
    BY <1>4, <1>5, <1>7
  <1> QED
    BY <1>5, <1>8 DEF longer

LEMMA Shorter ==
  ASSUME NEW n \in Nat \ {0}, NEW f \in [1..n -> {0, 1}]
  PROVE  Front(f) = [k \in 1..n - 1 |-> f[k]]
  <1>1. f \in Seq({0, 1}) /\ Len(f) = n
    BY FunctionIsSeq
  <1>2. /\ SubSeq(f, 1, n - 1) \in Seq({0, 1}) /\ Len(SubSeq(f, 1, n - 1)) = n - 1
        /\ \A k \in 1..n - 1 : SubSeq(f, 1, n - 1)[k] = f[k]
    BY <1>1, SubSeqProperties
  <1>3. SubSeq(f, 1, n - 1) = [k \in 1..n - 1 |-> f[k]]
    BY <1>2, SeqIs
  <1> QED
    BY <1>1, <1>3 DEF Front

LEMMA LimitsStay ==
  ASSUME UNCHANGED <<tracks, poly>>
  PROVE  Limits' = Limits
  BY DEF Limits, InUse, NumTracks

LEMMA PagesSeq ==
  ASSUME BInv
  PROVE  /\ Pages \in Seq(Range(Pages)) /\ Len(Pages) = Len(bank)
         /\ DOMAIN Pages = 1..Len(bank)
         /\ \A p \in 1..Len(bank) : Pages[p] = PageOf(At(p), tracks, desc)
  <1>1. /\ Len(bank) \in Nat
        /\ Pages = [p \in 1..Len(bank) |-> PageOf(At(p), tracks, desc)]
    BY BookFacts
  <1>2. Pages \in [1..Len(bank) -> Range(Pages)]
    BY <1>1 DEF Range
  <1> QED
    BY <1>1, <1>2, FunctionIsSeq

-----------------------------------------------------------------------------
(* Patterns: pages are turned, copied and torn out *)

LEMMA SwitchBook ==
  ASSUME BInv, IInv', NEW p \in 1..Len(bank), SwitchPattern(p)
  PROVE  Complete' /\ Book!BookNext
  <1>1. /\ p # cur /\ bank' = Caught /\ live' = Restore(bank[p]) /\ cur' = p
        /\ UNCHANGED <<tracks, desc, poly>>
    BY DEF SwitchPattern, Caught, trackVars
  <1>2. /\ Len(bank') = Len(bank)
        /\ \A q \in 1..Len(bank) : bank'[q] = IF q = cur THEN Capture ELSE bank[q]
    BY <1>1, CaughtFacts DEF BInv
  <1>3. bank[p] \in Snapshot /\ At(p) = bank[p]
    BY <1>1, BookFacts DEF At
  <1> DEFINE from == [q \in 1..Len(bank) |-> q]
  <1>4. ASSUME NEW q \in 1..Len(bank') PROVE Plays(At(q)', At(from[q]))
    <2>1. from[q] = q /\ q \in 1..Len(bank)
      BY <1>2
    <2>2. CASE q = p
      <3>1. At(q)' = Restore(bank[p])
        BY <1>1, <2>2 DEF At
      <3> QED
        BY <1>3, <2>1, <2>2, <3>1, RestorePlays, StillPlays
    <2>3. CASE q # p /\ q = cur
      <3>1. At(q)' = Capture /\ At(q) = live
        BY <1>1, <1>2, <2>1, <2>3 DEF At
      <3> QED
        BY <2>1, <3>1, CapturePlays
    <2>4. CASE q # p /\ q # cur
      <3>1. At(q)' = bank[q] /\ At(q) = bank[q]
        BY <1>1, <1>2, <2>1, <2>4 DEF At
      <3> QED
        BY <2>1, <3>1, StillPlays
    <2> QED
      BY <2>2, <2>3, <2>4
  <1>5. \A q \in 1..Len(bank') : from[q] \in 1..Len(bank)
    BY <1>2
  <1> HIDE DEF from
  <1>6. Complete' /\ Pages' = [q \in 1..Len(bank') |-> Pages[from[q]]]
    BY <1>1, <1>4, <1>5, PagesFollow
  <1>7. Pages' = Pages
    BY <1>2, <1>6, PagesSeq, BookFacts DEF from
  <1>8. Book!TurnTo(p)
    BY <1>1, <1>7, LimitsStay DEF Book!TurnTo
  <1> QED
    BY <1>6, <1>8, PagesSeq DEF Book!BookNext

LEMMA CloneBook ==
  ASSUME BInv, IInv', ClonePattern
  PROVE  Complete' /\ Book!BookNext
  <1> DEFINE n == Len(bank)
             from == [q \in 1..n + 1 |-> IF q = n + 1 THEN cur ELSE q]
  <1>1. /\ bank' = Append(Caught, Capture) /\ cur' = n + 1 /\ live' = live
        /\ UNCHANGED <<tracks, desc, poly>>
    BY DEF ClonePattern, Caught, trackVars
  <1>2. n \in Nat /\ cur \in 1..n
    BY BookFacts
  <1>3. /\ Len(bank') = n + 1
        /\ \A q \in 1..n : bank'[q] = IF q = cur THEN Capture ELSE bank[q]
    BY <1>1, CaughtFacts, CaptureFacts, AppendProperties DEF BInv
  <1>4. ASSUME NEW q \in 1..Len(bank')
        PROVE  from[q] \in 1..n /\ Plays(At(q)', At(from[q]))
    <2>1. CASE q = n + 1
      <3>1. At(q)' = live /\ from[q] = cur
        BY <1>1, <1>2, <2>1 DEF At
      <3> QED
        BY <1>2, <3>1, StillPlays, BookFacts
    <2>2. CASE q # n + 1
      <3>1. q \in 1..n /\ from[q] = q /\ q # cur'
        BY <1>1, <1>2, <1>3, <2>2
      <3>2. At(q)' = IF q = cur THEN Capture ELSE bank[q]
        BY <1>3, <3>1 DEF At
      <3>3. q = cur => At(q) = live
        BY DEF At
      <3>4. q # cur => At(q) = bank[q]
        BY DEF At
      <3> QED
        BY <3>1, <3>2, <3>3, <3>4, CapturePlays, StillPlays
    <2> QED
      BY <2>1, <2>2
  <1> HIDE DEF from
  <1>5. Complete' /\ Pages' = [q \in 1..Len(bank') |-> Pages[from[q]]]
    BY <1>1, <1>4, PagesFollow
  <1> DEFINE copied == Append(Pages, Pages[cur])
  <1>6. /\ copied \in Seq(Range(Pages)) /\ Len(copied) = n + 1
        /\ \A q \in 1..n : copied[q] = Pages[q]
        /\ copied[n + 1] = Pages[cur]
    <2>1. Pages[cur] \in Range(Pages)
      BY <1>2, PagesSeq DEF Range
    <2> QED
      BY <2>1, PagesSeq, AppendProperties
  <1> HIDE DEF copied
  <1>7. \A q \in 1..n + 1 : copied[q] = Pages'[q]
    BY <1>2, <1>3, <1>5, <1>6 DEF from
  <1>8. copied = [q \in 1..n + 1 |-> Pages'[q]]
    BY <1>2, <1>6, <1>7, SeqIs
  <1>9. Pages' = copied
    BY <1>3, <1>5, <1>8
  <1>10. Book!CopyPage
    BY <1>1, <1>9, PagesSeq, LimitsStay DEF Book!CopyPage, copied
  <1> QED
    BY <1>5, <1>10 DEF Book!BookNext

LEMMA DeletePatternBook ==
  ASSUME BInv, IInv', DeletePattern
  PROVE  Complete' /\ Book!BookNext
  <1> DEFINE n == Len(bank)
             from == [q \in 1..n - 1 |-> IF q < cur THEN q ELSE q + 1]
  <1>1. /\ n > 1 /\ bank' = RemoveAt(bank, cur) /\ live' = Restore(bank'[cur'])
        /\ cur' = IF cur = n THEN cur - 1 ELSE cur
        /\ UNCHANGED <<tracks, desc, poly>>
    BY DEF DeletePattern, trackVars
  <1>2. n \in Nat /\ cur \in 1..n /\ bank \in Seq(Snapshot)
    BY BookFacts, Facts DEF BInv, Snapshot
  <1>3. /\ Len(bank') = n - 1
        /\ \A q \in 1..n - 1 : bank'[q] = IF q < cur THEN bank[q] ELSE bank[q + 1]
    BY <1>1, <1>2, RemoveAtProperties
  <1>4. ASSUME NEW q \in 1..Len(bank')
        PROVE  from[q] \in 1..n /\ from[q] # cur /\ bank'[q] = At(from[q])
    <2>1. from[q] \in 1..n /\ from[q] # cur /\ bank'[q] = bank[from[q]]
      BY <1>2, <1>3
    <2> QED
      BY <2>1 DEF At
  <1>5. cur' \in 1..Len(bank')
    BY <1>1, <1>2, <1>3
  <1> HIDE DEF from
  <1>6. ASSUME NEW q \in 1..Len(bank') PROVE Plays(At(q)', At(from[q]))
    <2>1. CASE q = cur'
      <3>1. At(q)' = Restore(bank'[q])
        BY <1>1, <2>1 DEF At
      <3>2. bank'[q] = At(from[q]) /\ At(from[q]) = bank[from[q]]
        BY <1>4 DEF At
      <3>3. At(from[q]) \in Snapshot /\ FilledHere(At(from[q]))
        BY <1>4, <3>2, StillPlays, BookFacts
      <3> QED
        BY <3>1, <3>2, <3>3, RestorePlays
    <2>2. CASE q # cur'
      <3>1. At(q)' = bank'[q]
        BY <2>2 DEF At
      <3> QED
        BY <1>4, <3>1, StillPlays
    <2> QED
      BY <2>1, <2>2
  <1>7. Complete' /\ Pages' = [q \in 1..Len(bank') |-> Pages[from[q]]]
    BY <1>1, <1>4, <1>6, PagesFollow, SMTT(40)
  <1> DEFINE torn == RemoveAt(Pages, cur)
  <1>8. /\ torn \in Seq(Range(Pages)) /\ Len(torn) = n - 1
        /\ \A q \in 1..n - 1 : torn[q] = IF q < cur THEN Pages[q] ELSE Pages[q + 1]
    BY <1>2, PagesSeq, RemoveAtProperties
  <1> HIDE DEF torn
  <1>9. \A q \in 1..n - 1 : torn[q] = Pages'[q]
    BY <1>2, <1>3, <1>7, <1>8 DEF from
  <1> DEFINE here == Pages'
  <1> HIDE DEF here
  <1>10. torn = [q \in 1..n - 1 |-> here[q]]
    <2>1. \A q \in 1..n - 1 : torn[q] = here[q]
      BY <1>9 DEF here
    <2>2. PICK m, s : m = n - 1 /\ s = torn
      OBVIOUS
    <2>3. m \in Nat /\ s \in Seq(Range(Pages)) /\ Len(s) = m
      BY <1>1, <1>2, <1>8, <2>2
    <2>4. \A q \in 1..m : s[q] = here[q]
      BY <2>1, <2>2
    <2>5. s = [q \in 1..m |-> here[q]]
      BY <2>3, <2>4, SMTT(60)
    <2> QED
      BY <2>2, <2>5
  <1>11. Pages' = torn
    BY <1>3, <1>7, <1>10 DEF here
  <1>12. Book!TearOut
    BY <1>1, <1>11, PagesSeq, LimitsStay DEF Book!TearOut, torn, Book!RemoveAt, RemoveAt
  <1> QED
    BY <1>7, <1>12 DEF Book!BookNext

-----------------------------------------------------------------------------
(* Edits *)

\* One lane of the open pattern is edited, and keeps the values it has to.
LEMMA LaneBook ==
  ASSUME BInv, IInv', NEW i \in InUse, NEW lane, Full(lane, desc[i], tracks[i].kind),
         live' = [live EXCEPT ![i] = lane], UNCHANGED <<tracks, desc, bank, cur, poly>>
  PROVE  Complete' /\ Book!BookNext
  <1> DEFINE n == Len(bank)
             t == tracks[i].id
             was == PageOf(live, tracks, desc)
             is == PageOf(live', tracks, desc)
  <1>1. /\ InUse = 1..Len(tracks) /\ InUse \subseteq Lanes /\ Apart(tracks)
        /\ live \in [Lanes -> LaneSet] /\ n \in Nat /\ cur \in 1..n
    BY BookFacts, Facts DEF BInv
  <1>2. \A k \in InUse : live'[k] = IF k = i THEN lane ELSE live[k]
    BY <1>1
  <1>3. \A p \in 1..n : At(p)' = IF p = cur THEN live' ELSE At(p)
    BY DEF At
  <1>4. Complete'
    <2>1. ASSUME NEW p \in 1..n PROVE Filled(At(p)', tracks, desc)
      <3>1. CASE p = cur
        <4>1. ASSUME NEW k \in InUse PROVE Full(live'[k], desc[k], tracks[k].kind)
          <5>1. Full(live[k], desc[k], tracks[k].kind)
            BY <1>1, BookFacts
          <5> QED
            BY <1>2, <5>1
        <4> QED
          BY <1>1, <1>3, <3>1, <4>1 DEF Filled
      <3>2. CASE p # cur
        BY <1>3, <3>2 DEF BInv, Complete
      <3> QED
        BY <3>1, <3>2
    <2> QED
      BY <2>1 DEF BInv, Complete
  <1>5. /\ Pages = [p \in 1..n |-> PageOf(At(p), tracks, desc)]
        /\ Pages' = [p \in 1..n |-> PageOf(At(p)', tracks, desc)]
    BY BookFacts, PagesNext DEF PagesAre
  <1>6. Pages[cur] = was /\ Pages'[cur] = is
    BY <1>1, <1>3, <1>5, BookFacts
  <1>7. /\ DOMAIN was = Ids(tracks) /\ DOMAIN is = Ids(tracks)
        /\ \A k \in InUse : /\ was[tracks[k].id] = EntryOf(tracks, desc[k], k, live[k])
                            /\ is[tracks[k].id] = EntryOf(tracks, desc[k], k, live'[k])
    <2>1. /\ DOMAIN was = Ids(tracks)
          /\ \A k \in 1..Len(tracks) :
               was[tracks[k].id] = EntryOf(tracks, desc[k], k, live[k])
      BY <1>1, PageAt
    <2>2. /\ DOMAIN is = Ids(tracks)
          /\ \A k \in 1..Len(tracks) :
               is[tracks[k].id] = EntryOf(tracks, desc[k], k, live'[k])
      <3>1. PICK lanes : lanes = live'
        OBVIOUS
      <3>2. /\ DOMAIN PageOf(lanes, tracks, desc) = Ids(tracks)
            /\ \A k \in 1..Len(tracks) :
                 PageOf(lanes, tracks, desc)[tracks[k].id] = EntryOf(tracks, desc[k], k, lanes[k])
        BY <1>1, PageAt
      <3> QED
        BY <3>1, <3>2
    <2> QED
      BY <1>1, <2>1, <2>2
  <1>8. t \in Ids(tracks)
    BY <1>1 DEF Ids
  <1>9. is = [u \in Ids(tracks) |-> is[u]] /\ was = [u \in Ids(tracks) |-> was[u]]
    BY DEF PageOf
  <1> HIDE DEF was, is
  <1>10. \A u \in Ids(tracks) : u # t => is[u] = was[u]
    BY <1>1, <1>2, <1>7 DEF Ids
  <1>11. is = [was EXCEPT ![t] = is[t]]
    BY <1>7, <1>8, <1>9, <1>10
  <1>12. Pages' = [Pages EXCEPT ![cur] = is]
    BY <1>1, <1>3, <1>5, <1>6
  <1>13. Pages' = [Pages EXCEPT ![cur][t] = Pages'[cur][t]]
    BY <1>6, <1>11, <1>12
  <1>14. /\ was[t] = EntryOf(tracks, desc[i], i, live[i])
         /\ is[t] = EntryOf(tracks, desc[i], i, lane)
    BY <1>2, <1>7
  <1>15. /\ DOMAIN is[t].chain = DOMAIN was[t].chain
         /\ \A k \in DOMAIN was[t].chain : is[t].chain[k].fx = was[t].chain[k].fx
    BY <1>14 DEF EntryOf, ChainOf
  <1> HIDE DEF t
  <1>16. Book!Edit(t)
    BY <1>6, <1>7, <1>13, <1>15, LimitsStay DEF Book!Edit, Book!Known
  <1> QED
    BY <1>4, <1>6, <1>7, <1>8, <1>16 DEF Book!BookNext, Book!Known

LEMMA BodyBook ==
  ASSUME BInv, IInv', NEW i \in InUse, NEW v \in {0, 1}, EditBody(i, v)
  PROVE  Complete' /\ Book!BookNext
  <1>1. live' = [live EXCEPT ![i] = WithBody(live[i], v)] /\ UNCHANGED <<tracks, desc, bank, cur, poly>>
    BY DEF EditBody, WithBody, trackVars
  <1>2. live[i] \in LaneSet /\ Full(live[i], desc[i], tracks[i].kind)
    BY BookFacts
  <1>3. WithBody(live[i], v).fx = live[i].fx /\ WithBody(live[i], v).inst = live[i].inst
    BY <1>2 DEF LaneSet, WithBody
  <1>4. Full(WithBody(live[i], v), desc[i], tracks[i].kind)
    BY <1>2, <1>3 DEF Full
  <1> QED
    BY <1>1, <1>4, LaneBook

LEMMA InstrumentBook ==
  ASSUME BInv, IInv', NEW i \in InUse, NEW v \in {0, 1}, SetInstrument(i, v)
  PROVE  Complete' /\ Book!BookNext
  <1> DEFINE inst == [live[i].inst EXCEPT !.val = v]
  <1>1. live' = [live EXCEPT ![i] = WithInstrument(live[i], inst)]
        /\ UNCHANGED <<tracks, desc, bank, cur, poly>>
    BY DEF SetInstrument, WithInstrument, trackVars
  <1>2. live[i] \in LaneSet /\ Full(live[i], desc[i], tracks[i].kind)
    BY BookFacts
  <1>3. inst.np = live[i].inst.np
    BY <1>2, LaneFields DEF InstrumentSet
  <1> HIDE DEF inst
  <1>4. WithInstrument(live[i], inst).fx = live[i].fx /\ WithInstrument(live[i], inst).inst = inst
    BY <1>2 DEF LaneSet, WithInstrument
  <1>5. Full(WithInstrument(live[i], inst), desc[i], tracks[i].kind)
    BY <1>2, <1>3, <1>4 DEF Full
  <1> QED
    BY <1>1, <1>5, LaneBook

LEMMA SettingBook ==
  ASSUME BInv, IInv', NEW i \in InUse, NEW s \in 1..Slots, NEW v \in 0..MaxTracks,
         live' = [live EXCEPT ![i].fx[s].val = v], UNCHANGED <<tracks, desc, bank, cur, poly>>
  PROVE  Complete' /\ Book!BookNext
  <1> DEFINE slot == [live[i].fx[s] EXCEPT !.val = v]
  <1>1. live[i] \in LaneSet /\ Full(live[i], desc[i], tracks[i].kind)
    BY BookFacts
  <1>2. live[i].fx[s] \in SlotSet
    BY <1>1, LaneFields
  <1>3. slot \in SlotSet /\ slot.np = live[i].fx[s].np
    BY <1>2 DEF SlotSet
  <1>4. live' = [live EXCEPT ![i] = WithSlot(live[i], s, slot)]
    BY DEF WithSlot
  <1> HIDE DEF slot
  <1>5. \A k \in 1..Slots : WithSlot(live[i], s, slot).fx[k] = IF k = s THEN slot ELSE live[i].fx[k]
    BY <1>1, <1>3, SlotEdited
  <1>6. WithSlot(live[i], s, slot).inst = live[i].inst
    BY <1>1 DEF WithSlot, LaneSet
  <1>7. Full(WithSlot(live[i], s, slot), desc[i], tracks[i].kind)
    BY <1>1, <1>3, <1>5, <1>6 DEF Full
  <1> QED
    BY <1>4, <1>7, LaneBook

LEMMA EffectBook ==
  ASSUME BInv, IInv', NEW i \in InUse, NEW s \in 1..Slots, NEW v \in {0, 1}, SetEffect(i, s, v)
  PROVE  Complete' /\ Book!BookNext
  <1>1. live' = [live EXCEPT ![i].fx[s].val = v] /\ UNCHANGED <<tracks, desc, bank, cur, poly>>
    BY DEF SetEffect, trackVars
  <1>2. v \in 0..MaxTracks
    BY BankAssumption
  <1> QED
    BY <1>1, <1>2, SettingBook

LEMMA SidechainBook ==
  ASSUME BInv, IInv', NEW i \in InUse, NEW s \in 1..Slots, NEW selection \in 0..(NumTracks - 1),
         SelectSidechain(i, s, selection)
  PROVE  Complete' /\ Book!BookNext
  <1>1. live' = [live EXCEPT ![i].fx[s].val = selection] /\ UNCHANGED <<tracks, desc, bank, cur, poly>>
    BY DEF SelectSidechain, trackVars
  <1>2. selection \in 0..MaxTracks
    BY Facts, BankAssumption DEF NumTracks, Lanes, BInv
  <1> QED
    BY <1>1, <1>2, SettingBook

\* What a track plays is copied to every page.
LEMMA PropagateBook ==
  ASSUME BInv, IInv', NEW i \in InUse, PropagateTrack(i)
  PROVE  Complete' /\ Book!BookNext
  <1> DEFINE n == Len(bank)
             t == tracks[i].id
             page(p) == PageOf(At(p), tracks, desc)
             told(p) == [page(p) EXCEPT ![t] = page(cur)[t]]
  <1>1. /\ InUse = 1..Len(tracks) /\ Apart(tracks) /\ n \in Nat /\ cur \in 1..n
        /\ DOMAIN bank = 1..n /\ \A p \in 1..n : bank[p] \in Snapshot
        /\ At(cur) = live
    BY BookFacts
  <1>2. /\ bank' = [p \in 1..n |->
                      IF p = cur THEN Capture ELSE [bank[p] EXCEPT ![i] = Capture[i]]]
        /\ cur' = cur /\ live' = live /\ UNCHANGED <<tracks, desc, poly>>
    BY <1>1 DEF PropagateTrack, trackVars
  <1>3. Len(bank') = n
    BY <1>1, <1>2
  <1>4. ASSUME NEW p \in 1..n, NEW k \in InUse
        PROVE  /\ Full(At(p)'[k], desc[k], tracks[k].kind)
               /\ EntryOf(tracks, desc[k], k, At(p)'[k])
                    = EntryOf(tracks, desc[k], k, IF k = i THEN live[k] ELSE At(p)[k])
    <2>1. CASE p = cur
      <3>1. At(p)' = live /\ At(p) = live
        BY <1>2, <2>1 DEF At
      <3> QED
        BY <1>1, <2>1, <3>1, BookFacts
    <2>2. CASE p # cur
      <3>1. At(p)' = [bank[p] EXCEPT ![i] = Capture[i]] /\ At(p) = bank[p]
        BY <1>2, <2>2 DEF At
      <3>2. At(p)'[k] = IF k = i THEN Capture[k] ELSE At(p)[k]
        BY <1>1, <3>1 DEF Snapshot
      <3>3. /\ Full(Capture[k], desc[k], tracks[k].kind)
            /\ EntryOf(tracks, desc[k], k, Capture[k]) = EntryOf(tracks, desc[k], k, live[k])
        BY CapturePlays DEF Plays
      <3>4. Full(At(p)[k], desc[k], tracks[k].kind)
        BY BookFacts
      <3> QED
        BY <3>2, <3>3, <3>4
    <2> QED
      BY <2>1, <2>2
  <1>5. Complete'
    BY <1>1, <1>2, <1>3, <1>4 DEF BInv, Complete, Filled
  <1>6. ASSUME NEW p \in 1..n PROVE told(p) = PageOf(At(p)', tracks, desc)
    <2>1. DOMAIN page(p) = Ids(tracks) /\ t \in Ids(tracks)
      BY <1>1 DEF PageOf, Ids
    <2>2. \A k \in InUse : /\ page(p)[tracks[k].id] = EntryOf(tracks, desc[k], k, At(p)[k])
                           /\ page(cur)[tracks[k].id] = EntryOf(tracks, desc[k], k, live[k])
      BY <1>1, PageAt
    <2>3. \A k \in InUse : tracks[k].id = t => k = i
      BY <1>1 DEF Apart
    <2>4. page(p) = [u \in Ids(tracks) |-> page(p)[u]]
      BY DEF PageOf
    <2>5. told(p) = [u \in Ids(tracks) |-> IF u = t THEN page(cur)[t] ELSE page(p)[u]]
      <3> HIDE DEF page, t
      <3> QED
        BY <2>1, <2>4
    <2>6. ASSUME NEW k \in InUse
          PROVE  told(p)[tracks[k].id] = EntryOf(tracks, desc[k], k, At(p)'[k])
      <3>1. tracks[k].id \in Ids(tracks)
        BY <1>1 DEF Ids
      <3> HIDE DEF page, told
      <3> QED
        BY <1>4, <2>2, <2>3, <2>5, <3>1
    <2>7. told(p) = [u \in Ids(tracks) |-> told(p)[u]]
      <3> HIDE DEF page
      <3> QED
        BY <2>5
    <2> HIDE DEF told, page
    <2> QED
      BY <1>1, <2>6, <2>7, PageIs
  <1>7. Pages' = [p \in 1..n |-> PageOf(At(p)', tracks, desc)]
    BY <1>2, <1>3, PagesNext DEF PagesAre
  <1>8. DOMAIN Pages = 1..n /\ \A p \in 1..n : Pages[p] = page(p)
    BY PagesSeq
  <1>9. t \in DOMAIN Pages[cur]
    <2>1. t \in Ids(tracks)
      BY <1>1 DEF Ids
    <2> QED
      BY <1>1, <1>8, <2>1, BookFacts
  <1> HIDE DEF page
  <1>10. Pages' = [p \in DOMAIN Pages |-> [Pages[p] EXCEPT ![t] = Pages[cur][t]]]
    BY <1>1, <1>6, <1>7, <1>8
  <1> HIDE DEF t
  <1>11. Book!ToEveryPage(t)
    BY <1>2, <1>10, LimitsStay DEF Book!ToEveryPage, Book!EveryPage
  <1> QED
    BY <1>5, <1>9, <1>11 DEF Book!BookNext, Book!Known

-----------------------------------------------------------------------------
(* Effects are loaded and deleted in every page *)

LEMMA OffAtFirst ==
  ASSUME NEW vector, NEW i, NEW fx \in Effects
  PROVE  SettingOf(vector, i, fx, Default[fx]) = Default[fx]
  <1>1. CASE fx = Gain
    BY <1>1 DEF SettingOf, Gain, Duck
  <1>2. CASE fx = Duck
    <2>1. Default[fx] = 0
      BY <1>2 DEF Default, Effects, Gain, Duck
    <2>2. SidechainSourceTrack(i, 0, Len(vector)) = NoTrack
      BY DEF SidechainSourceTrack
    <2> QED
      BY <1>2, <2>1, <2>2 DEF SettingOf, NoTrack
  <1> QED
    BY <1>1, <1>2 DEF Effects

LEMMA ChainIsSeq ==
  ASSUME NEW vector, NEW i, NEW lane, NEW chain \in Chain, Packed(chain)
  PROVE  LET links == ChainOf(vector, chain, i, lane)
         IN  links \in Seq(Range(links)) /\ Len(links) = Size(chain)
  <1> DEFINE links == ChainOf(vector, chain, i, lane)
  <1>1. Size(chain) \in Nat
    BY PackedSize, BankAssumption
  <1>2. links \in [1..Size(chain) -> Range(links)]
    BY DEF ChainOf, Range
  <1> HIDE DEF links
  <1>3. links \in Seq(Range(links)) /\ Len(links) = Size(chain)
    BY <1>1, <1>2, FunctionIsSeq
  <1> QED
    BY <1>3 DEF links

LEMMA SameBound ==
  ASSUME NEW a \in 0..Slots, NEW b \in 0..Slots,
         \A k \in 1..Slots : k <= a <=> k <= b
  PROVE  a = b
  <1>1. ASSUME NEW c \in 0..Slots, NEW d \in 0..Slots, c < d,
               \A k \in 1..Slots : k <= c <=> k <= d
        PROVE  FALSE
    <2>1. d \in 1..Slots
      BY <1>1, BankAssumption
    <2>2. d <= c <=> d <= d
      BY <1>1, <2>1
    <2> QED
      BY <1>1, <2>2, BankAssumption
  <1>2. a \in Int /\ b \in Int /\ (a < b \/ b < a \/ a = b)
    BY BankAssumption
  <1>3. ~(a < b)
    BY <1>1
  <1>4. ~(b < a)
    BY <1>1
  <1> QED
    BY <1>2, <1>3, <1>4

\* The size of a chain is that of the places in use.
LEMMA SizeIs ==
  ASSUME NEW chain \in Chain, NEW m \in 0..Slots, \A k \in 1..Slots : chain[k] # NoFx <=> k <= m
  PROVE  Packed(chain) /\ Size(chain) = m
  <1>1. Packed(chain)
    BY BankAssumption DEF Packed
  <1>2. /\ Size(chain) \in 0..Slots
        /\ \A k \in 1..Slots : chain[k] # NoFx <=> k <= Size(chain)
    BY <1>1, PackedSize
  <1>3. \A k \in 1..Slots : k <= Size(chain) <=> k <= m
    BY <1>2
  <1> QED
    BY <1>1, <1>2, <1>3, SameBound

FirstFree(chain, s) ==
  s \in 1..Slots /\ chain[s] = NoFx /\ \A k \in 1..Slots : chain[k] = NoFx => s <= k
NewSetting(new, lane, chain, s, v) ==
  /\ new.fx[s].val = v
  /\ \A k \in 1..Slots : chain[k] # NoFx => new.fx[k].val = lane.fx[k].val
WithEffect(chain, s, fx) == [chain EXCEPT ![s] = fx]

\* An effect in the first free place of a chain is the last of the chain.
LEMMA ChainLonger ==
  ASSUME NEW chain \in Chain, Packed(chain), NEW s, FirstFree(chain, s),
         NEW fx \in Effects, NEW vector, NEW i, NEW lane, NEW new,
         NewSetting(new, lane, chain, s, Default[fx])
  PROVE  /\ Packed(WithEffect(chain, s, fx))
         /\ ChainOf(vector, WithEffect(chain, s, fx), i, new)
              = Append(ChainOf(vector, chain, i, lane), [fx |-> fx, set |-> Default[fx]])
  <1> USE DEF FirstFree, NewSetting
  <1> DEFINE longer == WithEffect(chain, s, fx)
             n == Size(chain)
             links == ChainOf(vector, chain, i, lane)
             link == [fx |-> fx, set |-> Default[fx]]
             S == Range(links) \cup {link}
  <1>1. /\ longer \in Chain
        /\ \A k \in 1..Slots : longer[k] = IF k = s THEN fx ELSE chain[k]
    BY DEF Chain, WithEffect
  <1>2. fx # NoFx
    BY DEF Effects, Gain, Duck, NoFx
  <1>3. n \in 0..Slots /\ \A k \in 1..Slots : chain[k] # NoFx <=> k <= n
    BY PackedSize
  <1>4. s = n + 1
    <2>1. ~ (s <= n)
      BY <1>3
    <2>2. n + 1 \in 1..Slots /\ chain[n + 1] = NoFx
      BY <1>3, <2>1, BankAssumption
    <2> HIDE DEF n
    <2> QED
      BY <1>3, <2>1, <2>2, BankAssumption
  <1> HIDE DEF longer, n
  <1>5. \A k \in 1..Slots : longer[k] # NoFx <=> k <= n + 1
    BY <1>1, <1>2, <1>3, <1>4
  <1>6. n + 1 \in 0..Slots
    BY <1>3, <1>4, BankAssumption
  <1>7. Packed(longer) /\ Size(longer) = n + 1
    BY <1>1, <1>5, <1>6, SizeIs
  <1>8. links \in Seq(S) /\ Len(links) = n /\ link \in S
    BY ChainIsSeq, SeqMonotonic DEF n
  <1>9. \A k \in 1..n : k \in 1..Slots
    BY <1>3, BankAssumption
  <1>10. \A k \in 1..n :
           links[k] = [fx |-> chain[k], set |-> SettingOf(vector, i, chain[k], lane.fx[k].val)]
    BY DEF ChainOf, n
  <1> HIDE DEF links, link, S
  <1>11. /\ Append(links, link) \in Seq(S) /\ Len(Append(links, link)) = n + 1
         /\ \A k \in 1..n : Append(links, link)[k] = links[k]
         /\ Append(links, link)[n + 1] = link
    BY <1>8, AppendProperties
  <1> DEFINE after == [k \in 1..n + 1 |->
                         [fx |-> longer[k], set |-> SettingOf(vector, i, longer[k], new.fx[k].val)]]
  <1>12. ASSUME NEW k \in 1..n + 1 PROVE Append(links, link)[k] = after[k]
    <2>1. CASE k = n + 1
      <3>1. longer[k] = fx /\ new.fx[k].val = Default[fx]
        BY <1>1, <1>4, <2>1
      <3>2. after[k] = [fx |-> fx, set |-> SettingOf(vector, i, fx, Default[fx])]
        BY <3>1
      <3> HIDE DEF after
      <3> QED
        BY <1>11, <2>1, <3>2, OffAtFirst DEF link
    <2>2. CASE k # n + 1
      <3>1. k \in 1..n /\ k # s
        BY <1>3, <1>4, <2>2
      <3>2. longer[k] = chain[k] /\ new.fx[k].val = lane.fx[k].val
        BY <1>1, <1>3, <1>9, <3>1
      <3>3. after[k] = [fx |-> chain[k], set |-> SettingOf(vector, i, chain[k], lane.fx[k].val)]
        BY <3>2
      <3> HIDE DEF after
      <3> QED
        BY <1>10, <1>11, <3>1, <3>3
    <2> QED
      BY <2>1, <2>2
  <1>13. ChainOf(vector, longer, i, new) = after
    BY <1>7 DEF ChainOf
  <1> HIDE DEF after
  <1>14. n + 1 \in Nat
    BY <1>3, BankAssumption
  <1> DEFINE appended == Append(links, link)
  <1>15. appended = [k \in 1..n + 1 |-> after[k]]
    <2>1. appended \in Seq(S) /\ Len(appended) = n + 1
      BY <1>11
    <2>2. \A k \in 1..n + 1 : appended[k] = after[k]
      BY <1>12
    <2> HIDE DEF appended
    <2> QED
      BY <1>14, <2>1, <2>2, SeqIs
  <1>16. after = [k \in 1..n + 1 |-> after[k]]
    BY DEF after
  <1> QED
    BY <1>7, <1>13, <1>15, <1>16 DEF longer, links, link

\* The slots of a lane move down to place s, where they keep a value.
MovedUp(new, lane, s) ==
  /\ \A k \in 1..Slots : k < s => new.fx[k] = lane.fx[k]
  /\ \A k \in 1..Slots : ~ k < s /\ k # Slots /\ lane.fx[k + 1].np = 1 =>
       new.fx[k].np = 1 /\ new.fx[k].val = lane.fx[k + 1].val

\* An effect taken out of a chain leaves no gap.
LEMMA ChainShorter ==
  ASSUME NEW chain \in Chain, Packed(chain), NEW s \in 1..Slots, chain[s] # NoFx,
         NEW vector, NEW i, NEW lane, NEW new, NEW kind, Full(lane, chain, kind),
         MovedUp(new, lane, s)
  PROVE  /\ Closed(chain, s, NoFx) \in Chain /\ Packed(Closed(chain, s, NoFx))
         /\ s \in 1..Size(chain)
         /\ ChainOf(vector, Closed(chain, s, NoFx), i, new)
              = RemoveAt(ChainOf(vector, chain, i, lane), s)
  <1> DEFINE shorter == Closed(chain, s, NoFx)
             n == Size(chain)
             links == ChainOf(vector, chain, i, lane)
             S == Range(links)
  <1>1. \A k \in 1..Slots : k # Slots => k + 1 \in 1..Slots
    BY BankAssumption
  <1>2. /\ shorter \in Chain
        /\ \A k \in 1..Slots : shorter[k] = IF k = Slots THEN NoFx
                                            ELSE IF k < s THEN chain[k] ELSE chain[k + 1]
    BY <1>1 DEF Chain, Closed
  <1>3. n \in 0..Slots /\ \A k \in 1..Slots : chain[k] # NoFx <=> k <= n
    BY PackedSize
  <1>4. s <= n /\ n \in Nat \ {0} /\ n <= Slots
    BY <1>3, BankAssumption
  <1> HIDE DEF shorter, n
  <1>5. ASSUME NEW k \in 1..Slots PROVE shorter[k] # NoFx <=> k <= n - 1
    <2>1. CASE k = Slots
      BY <1>2, <1>4, <2>1, BankAssumption
    <2>2. CASE k # Slots /\ k < s
      <3>1. shorter[k] = chain[k] /\ k <= n - 1 /\ k <= n
        BY <1>2, <1>4, <2>2
      <3> QED
        BY <1>3, <3>1
    <2>3. CASE k # Slots /\ ~ k < s
      <3>1. shorter[k] = chain[k + 1] /\ k + 1 \in 1..Slots
        BY <1>1, <1>2, <2>3
      <3>2. chain[k + 1] # NoFx <=> k + 1 <= n
        BY <1>3, <3>1
      <3> QED
        BY <1>4, <3>1, <3>2
    <2> QED
      BY <2>1, <2>2, <2>3
  <1>6. n - 1 \in 0..Slots
    BY <1>4, BankAssumption
  <1>7. Packed(shorter) /\ Size(shorter) = n - 1
    BY <1>2, <1>5, <1>6, SizeIs
  <1>8. links \in Seq(S) /\ Len(links) = n
    BY ChainIsSeq DEF n
  <1>9. \A k \in 1..n :
          links[k] = [fx |-> chain[k], set |-> SettingOf(vector, i, chain[k], lane.fx[k].val)]
    BY DEF ChainOf, n
  <1> HIDE DEF links, S
  <1>10. s \in 1..n
    BY <1>4
  <1>11. /\ RemoveAt(links, s) \in Seq(S) /\ Len(RemoveAt(links, s)) = n - 1
         /\ \A k \in 1..n - 1 : RemoveAt(links, s)[k] = IF k < s THEN links[k] ELSE links[k + 1]
    BY <1>8, <1>10, RemoveAtProperties
  <1> DEFINE after == [k \in 1..n - 1 |->
                         [fx |-> shorter[k], set |-> SettingOf(vector, i, shorter[k], new.fx[k].val)]]
  <1>12. ASSUME NEW k \in 1..n - 1 PROVE RemoveAt(links, s)[k] = after[k]
    <2>1. k \in 1..Slots /\ k # Slots /\ k \in 1..n /\ k + 1 \in 1..n
      BY <1>4, BankAssumption
    <2>2. CASE k < s
      <3>1. shorter[k] = chain[k] /\ new.fx[k].val = lane.fx[k].val
        BY <1>2, <2>1, <2>2 DEF MovedUp
      <3>2. after[k] = [fx |-> chain[k], set |-> SettingOf(vector, i, chain[k], lane.fx[k].val)]
        BY <3>1
      <3> HIDE DEF after
      <3> QED
        BY <1>9, <1>11, <2>1, <2>2, <3>2
    <2>3. CASE ~ k < s
      <3>1. k + 1 \in 1..Slots /\ chain[k + 1] # NoFx
        BY <1>1, <1>3, <2>1
      <3>2. shorter[k] = chain[k + 1] /\ new.fx[k].val = lane.fx[k + 1].val
        BY <1>2, <2>1, <2>3, <3>1 DEF Full, MovedUp
      <3>3. after[k] = [fx |-> chain[k + 1],
                        set |-> SettingOf(vector, i, chain[k + 1], lane.fx[k + 1].val)]
        BY <3>2
      <3> HIDE DEF after
      <3> QED
        BY <1>9, <1>11, <2>1, <2>3, <3>3
    <2> QED
      BY <2>2, <2>3
  <1>13. ChainOf(vector, shorter, i, new) = after
    BY <1>7 DEF ChainOf
  <1> HIDE DEF after
  <1>14. n - 1 \in Nat
    BY <1>4
  <1>15. RemoveAt(links, s) = [k \in 1..n - 1 |-> after[k]]
    BY <1>11, <1>12, <1>14, SeqIs
  <1>16. after = [k \in 1..n - 1 |-> after[k]]
    BY DEF after
  <1> QED
    BY <1>2, <1>7, <1>10, <1>13, <1>15, <1>16 DEF shorter, links, n

\* The chain of a track changes in every lane of it, and nothing else does.
Retained(new, was, chain, kind) ==
  Full(new, chain, kind) /\ new.body = was.body /\ new.inst = was.inst
ChainMoves(i, chain, lane, pages) ==
  /\ UNCHANGED <<tracks, cur>>
  /\ desc' = [desc EXCEPT ![i] = chain]
  /\ live' = [live EXCEPT ![i] = lane]
  /\ Len(bank') = Len(bank)
  /\ \A p \in 1..Len(bank) : p # cur => bank'[p] = [bank[p] EXCEPT ![i] = pages[p]]

LEMMA ChainBook ==
  ASSUME BInv, IInv', NEW i \in InUse, NEW chain \in Chain, Packed(chain), NEW lane, NEW pages,
         Retained(lane, live[i], chain, tracks[i].kind),
         \A p \in 1..Len(bank) : p # cur => Retained(pages[p], bank[p][i], chain, tracks[i].kind),
         ChainMoves(i, chain, lane, pages),
         NEW links,
         \A p \in 1..Len(bank) :
           links[p] = ChainOf(tracks, chain, i, IF p = cur THEN lane ELSE pages[p])
  PROVE  /\ Complete'
         /\ Pages' = [p \in DOMAIN Pages |-> [Pages[p] EXCEPT ![tracks[i].id].chain = links[p]]]
  <1> DEFINE n == Len(bank)
             t == tracks[i].id
             new(p) == IF p = cur THEN lane ELSE pages[p]
             was(p) == PageOf(At(p), tracks, desc)
             is(p) == [was(p) EXCEPT ![t].chain = links[p]]
  <1> USE DEF Retained, ChainMoves
  <1>1. /\ InUse = 1..Len(tracks) /\ InUse \subseteq Lanes /\ Apart(tracks)
        /\ live \in [Lanes -> LaneSet] /\ desc \in Tables /\ n \in Nat /\ cur \in 1..n
        /\ \A p \in 1..n : bank[p] \in Snapshot
        /\ At(cur) = live
    BY BookFacts, Facts DEF BInv
  <1>2. \A k \in InUse : desc'[k] = IF k = i THEN chain ELSE desc[k]
    BY <1>1 DEF Tables
  <1>3. ASSUME NEW p \in 1..n, NEW k \in InUse
        PROVE  At(p)'[k] = IF k = i THEN new(p) ELSE At(p)[k]
    <2>1. CASE p = cur
      <3>1. At(p)' = live' /\ At(p) = live
        BY <2>1 DEF At
      <3> QED
        BY <1>1, <2>1, <3>1
    <2>2. CASE p # cur
      <3>1. At(p)' = [bank[p] EXCEPT ![i] = pages[p]] /\ At(p) = bank[p]
        BY <2>2 DEF At
      <3> QED
        BY <1>1, <2>2, <3>1 DEF Snapshot
    <2> QED
      BY <2>1, <2>2
  <1>4. ASSUME NEW p \in 1..n
        PROVE  /\ Full(new(p), chain, tracks[i].kind)
               /\ new(p).body = At(p)[i].body /\ new(p).inst = At(p)[i].inst
    BY DEF At
  <1> HIDE DEF new
  <1>5. Complete'
    <2>1. \A k \in InUse : Packed(desc'[k])
      BY <1>2, BookFacts
    <2>2. ASSUME NEW p \in 1..n, NEW k \in InUse PROVE Full(At(p)'[k], desc'[k], tracks[k].kind)
      BY <1>2, <1>3, <1>4, BookFacts
    <2> QED
      BY <1>1, <2>1, <2>2 DEF Complete, Filled
  <1>6. ASSUME NEW p \in 1..n PROVE is(p) = PageOf(At(p)', tracks, desc')
    <2>1. /\ was(p) = [u \in Ids(tracks) |-> was(p)[u]]
          /\ DOMAIN was(p) = Ids(tracks) /\ t \in Ids(tracks)
      BY <1>1 DEF PageOf, Ids
    <2>2. \A k \in InUse : was(p)[tracks[k].id] = EntryOf(tracks, desc[k], k, At(p)[k])
      BY <1>1, PageAt
    <2>3. \A k \in InUse : tracks[k].id = t => k = i
      BY <1>1 DEF Apart
    <2> HIDE DEF was
    <2>4. is(p) = [u \in Ids(tracks) |->
                     IF u = t THEN [was(p)[t] EXCEPT !.chain = links[p]] ELSE was(p)[u]]
      <3> HIDE DEF t
      <3> QED
        BY <2>1
    <2>5. [was(p)[t] EXCEPT !.chain = links[p]] = EntryOf(tracks, chain, i, new(p))
      <3>1. was(p)[t] = EntryOf(tracks, desc[i], i, At(p)[i])
        BY <2>2
      <3>2. links[p] = ChainOf(tracks, chain, i, new(p))
        BY DEF new
      <3> HIDE DEF t
      <3> QED
        BY <1>4, <3>1, <3>2 DEF EntryOf
    <2> HIDE DEF is
    <2>6. ASSUME NEW k \in 1..Len(tracks)
          PROVE  is(p)[tracks[k].id] = EntryOf(tracks, desc'[k], k, At(p)'[k])
      <3>1. tracks[k].id \in Ids(tracks)
        BY DEF Ids
      <3>2. CASE k = i
        BY <1>1, <1>2, <1>3, <2>4, <2>5, <3>1, <3>2
      <3>3. CASE k # i
        BY <1>1, <1>2, <1>3, <2>2, <2>3, <2>4, <3>1, <3>3
      <3> QED
        BY <3>2, <3>3
    <2>7. is(p) = [u \in Ids(tracks) |-> is(p)[u]]
      BY <2>4
    <2>8. PICK lanes, chains : lanes = At(p)' /\ chains = desc'
      OBVIOUS
    <2>9. PICK page : page = is(p)
      OBVIOUS
    <2>10. page = PageOf(lanes, tracks, chains)
      <3>1. page = [u \in Ids(tracks) |-> page[u]]
        BY <2>7, <2>9
      <3>2. \A k \in 1..Len(tracks) :
              page[tracks[k].id] = EntryOf(tracks, chains[k], k, lanes[k])
        BY <2>6, <2>8, <2>9
      <3>3. Apart(tracks)
        BY <1>1
      <3> QED
        BY <3>1, <3>2, <3>3, PageIs
    <2> QED
      BY <2>8, <2>9, <2>10
  <1>7. Pages' = [p \in 1..n |-> PageOf(At(p)', tracks, desc')]
    BY PagesNext DEF PagesAre
  <1>8. DOMAIN Pages = 1..n /\ \A p \in 1..n : Pages[p] = was(p)
    BY PagesSeq
  <1> HIDE DEF was
  <1> QED
    BY <1>5, <1>6, <1>7, <1>8

LEMMA LoadBook ==
  ASSUME BInv, IInv', NEW i \in InUse, NEW fx \in Effects, LoadEffect(i, fx)
  PROVE  Complete' /\ Book!BookNext
  <1> DEFINE node == <<tracks[i].id, fx>>
             slot == [node |-> node, np |-> 1, val |-> Default[fx]]
             free == {k \in 1..Slots : live[i].fx[k].node = NoNode}
             s == CHOOSE k \in free : \A m \in free : k <= m
             chain == [desc[i] EXCEPT ![s] = fx]
             lane == WithSlot(live[i], s, slot)
             pages == [p \in 1..Len(bank) |-> WithSlot(bank[p][i], s, slot)]
             n == Len(bank)
             t == tracks[i].id
             link == [fx |-> fx, set |-> Default[fx]]
             links == [p \in 1..n |-> Append(ChainOf(tracks, desc[i], i, At(p)[i]), link)]
  <1>1. s \in free /\ \A m \in free : s <= m
    <2>1. free # {} /\ free \in SUBSET Nat
      BY SMTT(20) DEF LoadEffect
    <2>2. \E k \in free : \A m \in free : k <= m
      BY <2>1, LeastExists
    <2> QED
      BY <2>2
  <1>2. /\ UNCHANGED <<tracks, cur, poly>>
        /\ desc' = [desc EXCEPT ![i][s] = fx]
        /\ live' = [live EXCEPT ![i].fx[s] = slot]
        /\ bank' = [p \in DOMAIN bank |->
                      IF p = cur THEN Capture'
                      ELSE [bank[p] EXCEPT ![i].fx[s] = Synced(@, node, Default[fx])]]
    BY DEF LoadEffect, trackVars
  <1> HIDE DEF s
  <1>3. /\ i \in 1..Len(tracks) /\ InUse = 1..Len(tracks) /\ t \in Tracks
        /\ desc[i] \in Chain /\ Packed(desc[i]) /\ live[i] \in LaneSet
        /\ Sits(live[i], t, desc[i])
        /\ DOMAIN bank = 1..n /\ n \in Nat /\ cur \in 1..n /\ At(cur) = live
        /\ \A p \in 1..n : bank[p][i] \in LaneSet
        /\ \A p \in 1..n : At(p)[i] \in LaneSet /\ Full(At(p)[i], desc[i], tracks[i].kind)
    <2>1. /\ InUse = 1..Len(tracks) /\ Placed(live, tracks, desc)
      BY Facts DEF BInv
    <2>2. /\ desc[i] \in Chain /\ Packed(desc[i]) /\ live[i] \in LaneSet /\ t \in Tracks
          /\ DOMAIN bank = 1..n /\ n \in Nat /\ cur \in 1..n /\ At(cur) = live
          /\ \A p \in 1..n : At(p)[i] \in LaneSet /\ Full(At(p)[i], desc[i], tracks[i].kind)
      BY BookFacts
    <2>3. \A p \in 1..n : bank[p][i] \in LaneSet
      BY BookFacts DEF Snapshot
    <2> QED
      BY <2>1, <2>2, <2>3 DEF Placed
  <1>4. \A k \in 1..Slots : desc[i][k] = NoFx <=> k \in free
    <2>1. \A k \in 1..Slots : live[i].fx[k].node = IF desc[i][k] = NoFx THEN NoNode ELSE <<t, desc[i][k]>>
      BY <1>3 DEF Sits, SlotNode
    <2>2. \A k \in 1..Slots : k \in free <=> live[i].fx[k].node = NoNode
      OBVIOUS
    <2>3. \A e : <<t, e>> # NoNode
      BY DEF NoNode
    <2> HIDE DEF free, t
    <2> QED
      BY <2>1, <2>2, <2>3
  <1>5. s \in 1..Slots /\ desc[i][s] = NoFx /\ \A k \in 1..Slots : desc[i][k] = NoFx => s <= k
    BY <1>1, <1>4
  <1>6. node \in Nodes /\ slot \in SlotSet
    <2>1. Default[fx] \in 0..MaxTracks
      BY BankAssumption DEF Default, Effects, Gain, Duck
    <2> QED
      BY <1>3, <2>1 DEF Nodes, SlotSet
  <1> HIDE DEF free
  <1>7. ASSUME NEW was \in LaneSet, Full(was, desc[i], tracks[i].kind)
        PROVE  LET new == WithSlot(was, s, slot)
               IN  /\ Full(new, chain, tracks[i].kind)
                   /\ new.body = was.body /\ new.inst = was.inst
                   /\ Packed(chain)
                   /\ ChainOf(tracks, chain, i, new) = Append(ChainOf(tracks, desc[i], i, was), link)
    <2> DEFINE new == WithSlot(was, s, slot)
    <2>1. \A k \in 1..Slots : new.fx[k] = IF k = s THEN slot ELSE was.fx[k]
      BY <1>5, <1>6, <1>7, SlotEdited
    <2>2. new.body = was.body /\ new.inst = was.inst
      BY <1>7 DEF WithSlot, LaneSet
    <2>3. slot.np = 1 /\ slot.val = Default[fx]
      OBVIOUS
    <2> HIDE DEF new, slot
    <2>4. /\ new.fx[s].val = Default[fx]
          /\ \A k \in 1..Slots : desc[i][k] # NoFx => new.fx[k].val = was.fx[k].val
      BY <1>5, <2>1, <2>3
    <2>5. /\ Packed(chain)
          /\ ChainOf(tracks, chain, i, new) = Append(ChainOf(tracks, desc[i], i, was), link)
      <3>1. FirstFree(desc[i], s) /\ NewSetting(new, was, desc[i], s, Default[fx])
        BY <1>5, <2>4 DEF FirstFree, NewSetting
      <3>2. chain = WithEffect(desc[i], s, fx)
        BY DEF WithEffect
      <3> HIDE DEF chain
      <3> QED
        BY <1>3, <3>1, <3>2, ChainLonger
    <2>6. Full(new, chain, tracks[i].kind)
      <3>1. \A k \in 1..Slots : chain[k] = IF k = s THEN fx ELSE desc[i][k]
        BY <1>3, <1>5 DEF Chain
      <3> HIDE DEF chain
      <3> QED
        BY <1>7, <2>1, <2>2, <2>3, <3>1 DEF Full
    <2> QED
      BY <2>2, <2>5, <2>6 DEF new
  <1>8. chain \in Chain
    BY <1>3, <1>5 DEF Chain
  <1>9. ASSUME NEW p \in 1..n, p # cur
        PROVE  bank'[p] = [bank[p] EXCEPT ![i] = pages[p]] /\ pages[p] = WithSlot(bank[p][i], s, slot)
    <2>1. bank'[p] = [bank[p] EXCEPT ![i].fx[s] = Synced(@, node, Default[fx])]
      BY <1>2, <1>3, <1>9
    <2>2. bank[p][i].fx[s].np = 0
      <3>1. LaneFits(bank[p][i], desc[i], Len(tracks))
        BY <1>3, <1>9 DEF BInv, Settled, Fits
      <3> QED
        BY <1>5, <3>1 DEF LaneFits, SlotFits
    <2>3. Synced(bank[p][i].fx[s], node, Default[fx]) = slot
      BY <2>2 DEF Synced
    <2> HIDE DEF slot
    <2> QED
      BY <2>1, <2>3 DEF WithSlot
  <1>10. desc' = [desc EXCEPT ![i] = chain] /\ live' = [live EXCEPT ![i] = lane]
    BY <1>2 DEF WithSlot
  <1>11. Len(bank') = n
    BY <1>2, <1>3
  <1>12. /\ Full(lane, chain, tracks[i].kind) /\ lane.body = live[i].body /\ lane.inst = live[i].inst
         /\ Packed(chain)
         /\ ChainOf(tracks, chain, i, lane) = Append(ChainOf(tracks, desc[i], i, live[i]), link)
    BY <1>3, <1>7
  <1>13. ASSUME NEW p \in 1..n, p # cur
         PROVE  /\ Full(pages[p], chain, tracks[i].kind)
                /\ pages[p].body = bank[p][i].body /\ pages[p].inst = bank[p][i].inst
                /\ ChainOf(tracks, chain, i, pages[p])
                     = Append(ChainOf(tracks, desc[i], i, bank[p][i]), link)
    <2>1. At(p) = bank[p]
      BY <1>13 DEF At
    <2>2. bank[p][i] \in LaneSet /\ Full(bank[p][i], desc[i], tracks[i].kind)
      BY <1>3, <2>1
    <2> HIDE DEF pages, chain, slot, link
    <2> QED
      BY <1>7, <1>9, <1>13, <2>2
  <1> HIDE DEF lane, pages, chain, slot, node, link
  <1>14. \A p \in 1..n : links[p] = ChainOf(tracks, chain, i, IF p = cur THEN lane ELSE pages[p])
    BY <1>3, <1>12, <1>13 DEF At
  <1> HIDE DEF links
  <1>15. /\ Complete'
         /\ Pages' = [p \in DOMAIN Pages |-> [Pages[p] EXCEPT ![t].chain = links[p]]]
    <2>1. \A p \in 1..n : p # cur => Retained(pages[p], bank[p][i], chain, tracks[i].kind)
      BY <1>13 DEF Retained
    <2>2. ChainMoves(i, chain, lane, pages)
      BY <1>2, <1>9, <1>10, <1>11 DEF ChainMoves
    <2>3. Retained(lane, live[i], chain, tracks[i].kind) /\ Packed(chain)
      BY <1>12 DEF Retained
    <2> QED
      BY <1>8, <1>14, <2>1, <2>2, <2>3, ChainBook
  <1>16. ASSUME NEW p \in DOMAIN Pages PROVE links[p] = Append(Pages[p][t].chain, link)
    <2>1. p \in 1..n /\ Pages[p] = PageOf(At(p), tracks, desc)
      BY <1>16, PagesSeq
    <2>2. Pages[p][t] = EntryOf(tracks, desc[i], i, At(p)[i])
      BY <1>3, <2>1, PageAt, BookFacts
    <2>3. Pages[p][t].chain = ChainOf(tracks, desc[i], i, At(p)[i])
      BY <2>2 DEF EntryOf
    <2> QED
      BY <2>1, <2>3 DEF links
  <1>17. t \in DOMAIN Pages[cur]
    BY <1>3, PagesSeq, BookFacts DEF Ids
  <1> HIDE DEF t
  <1>18. Pages' = [p \in DOMAIN Pages |-> [Pages[p] EXCEPT ![t].chain = Append(@, link)]]
    BY <1>15, <1>16
  <1>19. Book!PutEffect(t, fx)
    BY <1>2, <1>18, LimitsStay DEF Book!PutEffect, Book!EveryPage, link
  <1> QED
    BY <1>15, <1>17, <1>19 DEF Book!BookNext, Book!Known

LEMMA MovedUpFull ==
  ASSUME NEW chain \in Chain, NEW s \in 1..Slots, NEW lane, NEW new, NEW kind,
         Full(lane, chain, kind), MovedUp(new, lane, s), new.inst = lane.inst
  PROVE  Full(new, Closed(chain, s, NoFx), kind)
  <1>1. \A k \in 1..Slots : k # Slots => k + 1 \in 1..Slots
    BY BankAssumption
  <1>2. ASSUME NEW k \in 1..Slots, Closed(chain, s, NoFx)[k] # NoFx
        PROVE  new.fx[k].np = 1
    <2>1. k # Slots
      BY <1>2 DEF Closed
    <2>2. CASE k < s
      <3>1. chain[k] # NoFx
        BY <1>2, <2>1, <2>2 DEF Closed
      <3> QED
        BY <2>2, <3>1 DEF Full, MovedUp
    <2>3. CASE ~ k < s
      <3>1. chain[k + 1] # NoFx
        BY <1>2, <2>1, <2>3 DEF Closed
      <3> QED
        BY <1>1, <2>1, <2>3, <3>1 DEF Full, MovedUp
    <2> QED
      BY <2>2, <2>3
  <1> QED
    BY <1>2 DEF Full

LEMMA UnloadBook ==
  ASSUME BInv, IInv', NEW i \in InUse, NEW s \in 1..Slots, DeleteEffect(i, s)
  PROVE  Complete' /\ Book!BookNext
  <1> DEFINE chain == Closed(desc[i], s, NoFx)
             slots == [k \in 1..Slots |->
                         IF k = Slots THEN EmptySlot
                         ELSE IF k < s THEN live[i].fx[k]
                         ELSE Restored(live[i].fx[k], Captured(live[i].fx[k + 1]))]
             lane == WithChain(live[i], slots)
             closed(p) == Closed(bank[p][i].fx, s, EmptySlot)
             pages == [p \in 1..Len(bank) |-> WithChain(bank[p][i], closed(p))]
             n == Len(bank)
             t == tracks[i].id
             links == [p \in 1..n |-> RemoveAt(ChainOf(tracks, desc[i], i, At(p)[i]), s)]
  <1>1. /\ UNCHANGED <<tracks, cur, poly>> /\ live[i].fx[s].node # NoNode
        /\ desc' = [desc EXCEPT ![i] = chain]
        /\ live' = [live EXCEPT ![i] = lane]
        /\ bank' = [p \in DOMAIN bank |->
                      IF p = cur THEN Capture'
                      ELSE [bank[p] EXCEPT ![i].fx = Closed(@, s, EmptySlot)]]
    BY DEF DeleteEffect, trackVars, WithChain
  <1>2. /\ i \in 1..Len(tracks) /\ InUse = 1..Len(tracks)
        /\ desc[i] \in Chain /\ Packed(desc[i]) /\ live[i] \in LaneSet
        /\ Sits(live[i], t, desc[i])
        /\ DOMAIN bank = 1..n /\ n \in Nat /\ cur \in 1..n /\ At(cur) = live
        /\ \A p \in 1..n : bank[p][i] \in LaneSet
        /\ \A p \in 1..n : At(p)[i] \in LaneSet /\ Full(At(p)[i], desc[i], tracks[i].kind)
    <2>1. /\ InUse = 1..Len(tracks) /\ Placed(live, tracks, desc)
      BY Facts DEF BInv
    <2>2. /\ desc[i] \in Chain /\ Packed(desc[i]) /\ live[i] \in LaneSet
          /\ DOMAIN bank = 1..n /\ n \in Nat /\ cur \in 1..n /\ At(cur) = live
          /\ \A p \in 1..n : At(p)[i] \in LaneSet /\ Full(At(p)[i], desc[i], tracks[i].kind)
      BY BookFacts
    <2>3. \A p \in 1..n : bank[p][i] \in LaneSet
      BY BookFacts DEF Snapshot
    <2> QED
      BY <2>1, <2>2, <2>3 DEF Placed
  <1>3. desc[i][s] # NoFx
    BY <1>1, <1>2 DEF Sits, SlotNode
  <1>4. \A k \in 1..Slots : k # Slots => k + 1 \in 1..Slots
    BY BankAssumption
  <1>5. /\ MovedUp(lane, live[i], s) /\ lane.body = live[i].body /\ lane.inst = live[i].inst
    <2>1. /\ lane.fx = slots /\ lane.body = live[i].body /\ lane.inst = live[i].inst
      <3> HIDE DEF slots
      <3> QED
        BY <1>2 DEF WithChain, LaneSet
    <2>2. live[i].fx \in [1..Slots -> SlotSet]
      BY <1>2, LaneFields
    <2>3. ASSUME NEW k \in 1..Slots, ~ k < s, k # Slots, live[i].fx[k + 1].np = 1
          PROVE  slots[k].np = 1 /\ slots[k].val = live[i].fx[k + 1].val
      <3>1. slots[k] = Restored(live[i].fx[k], Captured(live[i].fx[k + 1]))
        BY <2>3
      <3>2. live[i].fx[k] \in SlotSet /\ live[i].fx[k + 1] \in SlotSet
        BY <1>4, <2>2, <2>3
      <3> HIDE DEF slots
      <3>3. Captured(live[i].fx[k + 1]) = live[i].fx[k + 1]
        BY <2>3, <3>2 DEF Captured, SlotSet
      <3> QED
        BY <2>3, <3>1, <3>2, <3>3 DEF Restored, SlotSet
    <2>4. \A k \in 1..Slots : k < s => slots[k] = live[i].fx[k]
      BY BankAssumption
    <2> HIDE DEF lane, slots
    <2> QED
      BY <2>1, <2>3, <2>4 DEF MovedUp
  <1>6. ASSUME NEW p \in 1..n
        PROVE  /\ MovedUp(pages[p], bank[p][i], s)
               /\ pages[p].body = bank[p][i].body /\ pages[p].inst = bank[p][i].inst
    <2>1. pages[p] = WithChain(bank[p][i], closed(p))
      OBVIOUS
    <2>2. /\ \A k \in 1..Slots : k < s => closed(p)[k] = bank[p][i].fx[k]
          /\ \A k \in 1..Slots : ~ k < s /\ k # Slots => closed(p)[k] = bank[p][i].fx[k + 1]
      BY BankAssumption DEF Closed
    <2> HIDE DEF pages, closed
    <2>3. /\ pages[p].fx = closed(p) /\ pages[p].body = bank[p][i].body
          /\ pages[p].inst = bank[p][i].inst
      BY <1>2, <2>1 DEF WithChain, LaneSet
    <2> QED
      BY <2>2, <2>3 DEF MovedUp
  <1>7. ASSUME NEW p \in 1..n, p # cur PROVE bank'[p] = [bank[p] EXCEPT ![i] = pages[p]]
    <2>1. bank'[p] = [bank[p] EXCEPT ![i].fx = Closed(@, s, EmptySlot)]
      BY <1>1, <1>2, <1>7
    <2> QED
      BY <2>1 DEF WithChain
  <1>8. Len(bank') = n
    BY <1>1, <1>2
  <1>9. ChainMoves(i, chain, lane, pages)
    BY <1>1, <1>7, <1>8 DEF ChainMoves
  <1> HIDE DEF lane, pages, slots, closed
  <1>10. ASSUME NEW new, NEW was, Full(was, desc[i], tracks[i].kind), MovedUp(new, was, s),
                new.body = was.body, new.inst = was.inst
         PROVE  /\ chain \in Chain /\ Packed(chain) /\ s \in 1..Size(desc[i])
                /\ Retained(new, was, chain, tracks[i].kind)
                /\ ChainOf(tracks, chain, i, new) = RemoveAt(ChainOf(tracks, desc[i], i, was), s)
    <2>1. /\ chain \in Chain /\ Packed(chain) /\ s \in 1..Size(desc[i])
          /\ ChainOf(tracks, chain, i, new) = RemoveAt(ChainOf(tracks, desc[i], i, was), s)
      BY <1>2, <1>3, <1>10, ChainShorter
    <2>2. Full(new, chain, tracks[i].kind)
      BY <1>2, <1>10, MovedUpFull
    <2> QED
      BY <1>10, <2>1, <2>2 DEF Retained
  <1> HIDE DEF chain
  <1>11. /\ chain \in Chain /\ Packed(chain) /\ s \in 1..Size(desc[i])
         /\ Retained(lane, live[i], chain, tracks[i].kind)
         /\ ChainOf(tracks, chain, i, lane) = RemoveAt(ChainOf(tracks, desc[i], i, live[i]), s)
    BY <1>2, <1>5, <1>10
  <1>12. ASSUME NEW p \in 1..n, p # cur
         PROVE  /\ Retained(pages[p], bank[p][i], chain, tracks[i].kind)
                /\ ChainOf(tracks, chain, i, pages[p])
                     = RemoveAt(ChainOf(tracks, desc[i], i, bank[p][i]), s)
    <2>1. At(p) = bank[p]
      BY <1>12 DEF At
    <2>2. Full(bank[p][i], desc[i], tracks[i].kind)
      BY <1>2, <2>1
    <2> QED
      BY <1>6, <1>10, <2>2
  <1>13. \A p \in 1..n : links[p] = ChainOf(tracks, chain, i, IF p = cur THEN lane ELSE pages[p])
    BY <1>2, <1>11, <1>12 DEF At
  <1> HIDE DEF links
  <1>14. /\ Complete'
         /\ Pages' = [p \in DOMAIN Pages |-> [Pages[p] EXCEPT ![t].chain = links[p]]]
    BY <1>9, <1>11, <1>12, <1>13, ChainBook
  <1>15. \A p \in 1..n : Pages[p][t].chain = ChainOf(tracks, desc[i], i, At(p)[i])
    <2>1. ASSUME NEW p \in 1..n PROVE Pages[p][t].chain = ChainOf(tracks, desc[i], i, At(p)[i])
      <3>1. Pages[p] = PageOf(At(p), tracks, desc)
        BY PagesSeq
      <3>2. Pages[p][t] = EntryOf(tracks, desc[i], i, At(p)[i])
        BY <1>2, <3>1, PageAt, BookFacts
      <3> QED
        BY <3>2 DEF EntryOf
    <2> QED
      BY <2>1
  <1>16. \A p \in DOMAIN Pages : links[p] = RemoveAt(Pages[p][t].chain, s)
    BY <1>15, PagesSeq DEF links
  <1>17. t \in DOMAIN Pages[cur]
    BY <1>2, PagesSeq, BookFacts DEF Ids
  <1>18. s \in DOMAIN Pages[cur][t].chain
    BY <1>2, <1>11, <1>15 DEF ChainOf
  <1> HIDE DEF t
  <1>19. Pages' = [p \in DOMAIN Pages |-> [Pages[p] EXCEPT ![t].chain = RemoveAt(@, s)]]
    BY <1>14, <1>16
  <1>20. Book!TakeEffect(t, s)
    BY <1>1, <1>19, LimitsStay DEF Book!TakeEffect, Book!EveryPage, Book!RemoveAt, RemoveAt
  <1> QED
    BY <1>14, <1>17, <1>18, <1>20 DEF Book!BookNext, Book!Known

-----------------------------------------------------------------------------
(* Tracks are added to every page *)

\* A setting names the same track when one is added.
LEMMA EntryAmongMore ==
  ASSUME NEW vector \in Seq(TrackSet), NEW more, NEW k \in 1..Len(vector),
         \A j \in 1..Len(vector) : more[j] = vector[j], Len(more) = Len(vector) + 1,
         NEW chain \in Chain, Packed(chain), NEW lane \in LaneSet, NEW kind,
         Full(lane, chain, kind), LaneFits(lane, chain, Len(vector))
  PROVE  EntryOf(more, chain, k, lane) = EntryOf(vector, chain, k, lane)
  <1> DEFINE n == Len(vector)
  <1>1. n \in Nat
    BY LenProperties
  <1>2. Size(chain) \in 0..Slots /\ \A s \in 1..Slots : chain[s] # NoFx <=> s <= Size(chain)
    BY PackedSize
  <1>3. ASSUME NEW s \in 1..Size(chain)
        PROVE  SettingOf(more, k, chain[s], lane.fx[s].val)
                 = SettingOf(vector, k, chain[s], lane.fx[s].val)
    <2> DEFINE val == lane.fx[s].val
               source == SidechainSourceTrack(k, val, n)
    <2>1. s \in 1..Slots /\ chain[s] # NoFx
      BY <1>2, <1>3, BankAssumption
    <2>2. lane.fx[s] \in SlotSet
      BY <2>1, LaneFields
    <2>3. CASE chain[s] # Duck
      BY <2>3 DEF SettingOf
    <2>4. CASE chain[s] = Duck
      <3>1. lane.fx[s].np = 1 /\ SlotFits(lane.fx[s], chain[s], n)
        BY <2>1 DEF Full, LaneFits
      <3>2. val \in Nat /\ val < n
        BY <2>2, <2>4, <3>1, BankAssumption DEF SlotFits, SlotSet
      <3> HIDE DEF val
      <3>3. SidechainSourceTrack(k, val, n + 1) = source
        BY <1>1, <3>2, SourceAmongMore
      <3>4. source = NoTrack \/ source \in 1..n
        BY <1>1, SourceIsTrack DEF Others
      <3> HIDE DEF source
      <3>5. source # NoTrack => more[source] = vector[source]
        BY <3>4
      <3> QED
        BY <2>4, <3>3, <3>5 DEF SettingOf, source, val
    <2> QED
      BY <2>3, <2>4
  <1>4. ChainOf(more, chain, k, lane) = ChainOf(vector, chain, k, lane)
    BY <1>3 DEF ChainOf
  <1> QED
    BY <1>4 DEF EntryOf

FreshEntry == [body |-> 0, inst |-> InstrumentDefault, chain |-> <<>>]

\* A blank lane with an instrument is a track just added.
LEMMA EntryOfFresh ==
  ASSUME NEW vector, NEW i, NEW lane, lane.body = 0,
         vector[i].kind = "custom" => lane.inst.val = InstrumentDefault
  PROVE  EntryOf(vector, NoChain, i, lane) = FreshEntry
  <1>1. NoChain \in Chain /\ \A s \in 1..Slots : NoChain[s] = NoFx
    BY DEF NoChain, Chain
  <1>2. Size(NoChain) = 0
    <2>1. \A s \in 1..Slots : NoChain[s] # NoFx <=> s <= 0
      BY <1>1, BankAssumption
    <2>2. 0 \in 0..Slots
      BY BankAssumption
    <2> QED
      BY <1>1, <2>1, <2>2, SizeIs
  <1> DEFINE links == ChainOf(vector, NoChain, i, lane)
  <1>3. links \in Seq(Range(links)) /\ Len(links) = 0
    <2>1. Packed(NoChain)
      BY <1>1 DEF Packed
    <2> QED
      BY <1>1, <1>2, <2>1, ChainIsSeq
  <1> HIDE DEF links
  <1>4. links = <<>>
    BY <1>3, EmptySeq
  <1> QED
    BY <1>4 DEF EntryOf, FreshEntry, links

LEMMA AddBook ==
  ASSUME BInv, IInv', Settled', NEW id \in Tracks, NEW kind \in Kinds, AddTrack(id, kind)
  PROVE  Complete' /\ Book!BookNext
  <1> DEFINE n == Len(tracks)
             i == n + 1
             inst == [np |-> 1, val |-> InstrumentDefault]
             extended == [BlankLane EXCEPT !.inst = IF kind = "custom" THEN inst ELSE @]
             track == [id |-> id, kind |-> kind]
             added(p) == [u \in Ids(tracks) \cup {id} |->
                            IF u = id THEN FreshEntry ELSE PageOf(At(p), tracks, desc)[u]]
  <1>1. /\ i \in Lanes /\ tracks' = Append(tracks, track)
        /\ id \notin {t.id : t \in Range(tracks)}
        /\ live' = [live EXCEPT ![i] = WithInstrument(live[i], inst)]
        /\ desc' = [desc EXCEPT ![i] = NoChain]
        /\ bank' = [p \in DOMAIN bank |-> Append(bank[p], extended)]
        /\ UNCHANGED <<cur, poly>>
    BY DEF AddTrack, NumTracks, WithInstrument, NoChain
  <1>2. /\ tracks \in Seq(TrackSet) /\ n \in Nat /\ InUse = 1..n /\ InUse \subseteq Lanes
        /\ desc \in Tables /\ live \in [Lanes -> LaneSet]
        /\ DOMAIN bank = 1..Len(bank) /\ Len(bank) \in Nat /\ cur \in 1..Len(bank)
        /\ \A p \in 1..Len(bank) : bank[p] \in [1..n -> LaneSet]
        /\ \A k \in Lanes \ InUse : live[k] = BlankLane
        /\ Apart(tracks)
    BY Facts, BankAssumption DEF Lanes, BInv, Settled
  <1>3. track \in TrackSet /\ track.id = id /\ track.kind = kind
    BY DEF TrackSet
  <1>4. /\ Len(tracks') = i
        /\ \A k \in 1..n : tracks'[k] = tracks[k]
        /\ tracks'[i] = track
    BY <1>1, <1>2, <1>3, AppendProperties
  <1>5. /\ desc'[i] = NoChain /\ \A k \in 1..n : desc'[k] = desc[k]
    BY <1>1, <1>2 DEF Tables
  <1>6. /\ extended \in LaneSet /\ extended.body = 0
        /\ kind = "custom" => extended.inst = inst
    <2>1. inst \in InstrumentSet
      BY DEF InstrumentSet, InstrumentDefault
    <2>2. /\ extended.body = 0
          /\ kind = "custom" => extended.inst = inst
      BY DEF BlankLane
    <2>3. extended = BlankLane \/ extended = WithInstrument(BlankLane, inst)
      BY BlankTyped DEF WithInstrument, BlankLane
    <2> HIDE DEF inst, extended
    <2> QED
      BY <2>1, <2>2, <2>3, BlankTyped, LaneEdited
  <1>7. inst.np = 1 /\ inst.val = InstrumentDefault
    OBVIOUS
  <1> HIDE DEF extended, inst, track
  \* The lanes of a page: as before, and one more.
  <1>8. ASSUME NEW p \in 1..Len(bank)
        PROVE  /\ \A k \in 1..n : At(p)'[k] = At(p)[k]
               /\ At(p)'[i].body = 0 /\ (kind = "custom" => At(p)'[i].inst = inst)
    <2>1. CASE p = cur
      <3>1. At(p)' = live' /\ At(p) = live
        BY <1>1, <2>1 DEF At
      <3>2. live[i] = BlankLane
        BY <1>1, <1>2
      <3>3. WithInstrument(live[i], inst).body = 0 /\ WithInstrument(live[i], inst).inst = inst
        BY <3>2 DEF WithInstrument, BlankLane
      <3> QED
        BY <1>1, <1>2, <3>1, <3>3
    <2>2. CASE p # cur
      <3>1. At(p)' = Append(bank[p], extended) /\ At(p) = bank[p]
        BY <1>1, <1>2, <2>2 DEF At
      <3>2. bank[p] \in Seq(LaneSet) /\ Len(bank[p]) = n
        BY <1>2, FunctionIsSeq
      <3>3. /\ \A k \in 1..n : At(p)'[k] = At(p)[k]
            /\ At(p)'[i] = extended
        BY <1>6, <3>1, <3>2, AppendProperties
      <3> QED
        BY <1>6, <3>3
    <2> QED
      BY <2>1, <2>2
  <1>9. Complete'
    <2>1. ASSUME NEW k \in 1..i PROVE Packed(desc'[k])
      <3>1. CASE k = i
        BY <1>5, <3>1 DEF Packed, NoChain
      <3>2. CASE k # i
        <4>1. k \in 1..n
          BY <1>2, <3>2
        <4> QED
          BY <1>2, <1>5, <4>1, BookFacts
      <3> QED
        BY <3>1, <3>2
    <2>2. ASSUME NEW p \in 1..Len(bank), NEW k \in 1..i
          PROVE  Full(At(p)'[k], desc'[k], tracks'[k].kind)
      <3>1. CASE k = i
        BY <1>3, <1>4, <1>5, <1>7, <1>8, <3>1 DEF Full, NoChain
      <3>2. CASE k # i
        <4>1. k \in 1..n
          BY <1>2, <3>2
        <4> QED
          BY <1>2, <1>4, <1>5, <1>8, <4>1, BookFacts
      <3> QED
        BY <3>1, <3>2
    <2>3. Len(bank') = Len(bank)
      BY <1>1, <1>2
    <2> QED
      BY <1>4, <2>1, <2>2, <2>3 DEF Complete, Filled
  <1>10. /\ Ids(tracks') = Ids(tracks) \cup {id} /\ id \notin Ids(tracks)
    <2>1. \A k \in 1..n : tracks[k] \in Range(tracks)
      BY <1>2 DEF Range
    <2>2. id \notin Ids(tracks)
      BY <1>1, <2>1 DEF Ids
    <2>3. 1..i = (1..n) \cup {i}
      BY <1>2
    <2>4. Ids(tracks') = {tracks'[k].id : k \in (1..n) \cup {i}}
      BY <1>4, <2>3 DEF Ids
    <2>5. Ids(tracks) = {tracks'[k].id : k \in 1..n}
      BY <1>4 DEF Ids
    <2>6. tracks'[i].id = id
      BY <1>3, <1>4
    <2> HIDE DEF i, n
    <2> QED
      BY <2>2, <2>4, <2>5, <2>6
  <1>11. ASSUME NEW p \in 1..Len(bank) PROVE added(p) = PageOf(At(p)', tracks', desc')
    <2> DEFINE was == PageOf(At(p), tracks, desc)
    <2>1. \A k \in 1..n : was[tracks[k].id] = EntryOf(tracks, desc[k], k, At(p)[k])
      BY <1>2, PageAt
    <2> HIDE DEF was
    <2>2. ASSUME NEW k \in 1..i
          PROVE  added(p)[tracks'[k].id] = EntryOf(tracks', desc'[k], k, At(p)'[k])
      <3>1. CASE k = i
        <4>1. added(p)[tracks'[k].id] = FreshEntry
          BY <1>3, <1>4, <3>1
        <4>2. EntryOf(tracks', NoChain, i, At(p)'[i]) = FreshEntry
          BY <1>3, <1>4, <1>7, <1>8, EntryOfFresh
        <4> QED
          BY <1>5, <3>1, <4>1, <4>2
      <3>2. CASE k # i
        <4>1. k \in 1..n /\ tracks'[k] = tracks[k] /\ desc'[k] = desc[k] /\ At(p)'[k] = At(p)[k]
          BY <1>2, <1>4, <1>5, <1>8, <3>2
        <4>2. tracks[k].id \in Ids(tracks)
          BY <4>1 DEF Ids
        <4>3. added(p)[tracks[k].id] = was[tracks[k].id]
          BY <1>10, <4>2 DEF was
        <4>4. /\ desc[k] \in Chain /\ Packed(desc[k]) /\ At(p)[k] \in LaneSet
              /\ Full(At(p)[k], desc[k], tracks[k].kind)
          BY <1>2, <4>1, BookFacts
        <4>5. LaneFits(At(p)[k], desc[k], n)
          BY <4>1 DEF At, BInv, Settled, Fits
        <4>6. EntryOf(tracks', desc[k], k, At(p)[k]) = EntryOf(tracks, desc[k], k, At(p)[k])
          BY <1>2, <1>4, <4>1, <4>4, <4>5, EntryAmongMore
        <4> QED
          BY <2>1, <4>1, <4>3, <4>6
      <3> QED
        BY <3>1, <3>2
    <2>3. PICK vector, chains, lanes : vector = tracks' /\ chains = desc' /\ lanes = At(p)'
      OBVIOUS
    <2>4. PICK page : page = added(p)
      OBVIOUS
    <2>5. page = PageOf(lanes, vector, chains)
      <3>1. page = [u \in Ids(vector) |-> page[u]]
        BY <1>10, <2>3, <2>4
      <3>2. \A k \in 1..Len(vector) : page[vector[k].id] = EntryOf(vector, chains[k], k, lanes[k])
        BY <1>4, <2>2, <2>3, <2>4
      <3>3. Apart(vector)
        BY <2>3 DEF Settled
      <3> QED
        BY <3>1, <3>2, <3>3, PageIs
    <2> QED
      BY <2>3, <2>4, <2>5
  <1>12. Pages' = [p \in 1..Len(bank) |-> PageOf(At(p)', tracks', desc')]
    <2>1. Len(bank') = Len(bank)
      BY <1>1, <1>2
    <2> QED
      BY <2>1, PagesNext DEF PagesAre
  <1>13. /\ DOMAIN Pages = 1..Len(bank)
         /\ \A p \in 1..Len(bank) : Pages[p] = PageOf(At(p), tracks, desc)
         /\ DOMAIN Pages[cur] = Ids(tracks)
    BY <1>2, PagesSeq, BookFacts
  <1>14. Pages' = [p \in DOMAIN Pages |->
                     [u \in DOMAIN Pages[cur] \cup {id} |-> IF u = id THEN FreshEntry ELSE Pages[p][u]]]
    BY <1>11, <1>12, <1>13
  <1>17. Limits' = Append(Limits, 0)
    <2>1. /\ poly \in [Lanes -> {0, 1}] /\ poly[i] = 0
      BY <1>1, <1>2, LimitFacts DEF BInv
    <2>2. Limits = [k \in 1..n |-> poly[k]] /\ Limits \in [1..n -> {0, 1}]
      BY <1>2, <2>1 DEF Limits
    <2>3. Append(Limits, 0) = [k \in 1..i |-> IF k = i THEN 0 ELSE Limits[k]]
      BY <1>2, <2>2, Longer
    <2>4. Limits' = [k \in 1..i |-> poly[k]]
      BY <1>1, <1>4 DEF Limits, InUse, NumTracks
    <2>5. \A k \in 1..i : poly[k] = IF k = i THEN 0 ELSE Limits[k]
      BY <1>2, <2>1, <2>2
    <2> QED
      BY <2>3, <2>4, <2>5
  <1>15. Book!NewTrack(id)
    BY <1>1, <1>14, <1>17 DEF Book!NewTrack, Book!EveryPage, Book!Known, FreshEntry
  <1>16. id \in Tracks \ DOMAIN Pages[cur]
    BY <1>10, <1>13
  <1> QED
    BY <1>9, <1>15, <1>16 DEF Book!BookNext, Book!Known

-----------------------------------------------------------------------------
(* A track is deleted: it is gone from every page, and who listened to it    *)
(* listens to none                                                           *)

DeafSetting(set, t) == IF set = t THEN NoTrack ELSE set
DeafLink(link, t) == IF link.set = t THEN [link EXCEPT !.set = NoTrack] ELSE link
DeafChain(links, t) == [k \in DOMAIN links |-> DeafLink(links[k], t)]
Deaf(entry, t) ==
  [entry EXCEPT !.chain = [k \in DOMAIN @ |->
                             IF @[k].set = t THEN [@[k] EXCEPT !.set = NoTrack] ELSE @[k]]]

LEMMA DeafFields ==
  ASSUME NEW body, NEW inst, NEW links, NEW t
  PROVE  Deaf([body |-> body, inst |-> inst, chain |-> links], t)
           = [body |-> body, inst |-> inst, chain |-> DeafChain(links, t)]
  BY DEF Deaf, DeafChain, DeafLink

LEMMA DeafLinkOf ==
  ASSUME NEW fx, NEW set, NEW t
  PROVE  DeafLink([fx |-> fx, set |-> set], t) = [fx |-> fx, set |-> DeafSetting(set, t)]
  BY DEF DeafLink, DeafSetting

\* A selection renumbered, or the value of another effect: it names the same
\* track, by its place among those that are left.
LEMMA SettingRemapped ==
  ASSUME BInv, NEW deleted \in InUse, NumTracks > 1, NEW i \in InUse \ {deleted},
         NEW fx \in Effects, NEW val, fx = Gain => val \in {0, 1},
         NEW new, new = IF fx = Duck THEN RemapSelection(i, val, deleted, NumTracks) ELSE val
  PROVE  SettingOf(NewTracks(deleted), MovedDown(i, deleted), fx, new)
           = DeafSetting(SettingOf(tracks, i, fx, val), tracks[deleted].id)
  <1>1. /\ NumTracks \in Nat /\ NumTracks = Len(tracks) /\ InUse = 1..NumTracks
        /\ Len(NewTracks(deleted)) = NumTracks - 1
        /\ \A k \in 1..NumTracks - 1 :
             NewTracks(deleted)[k] = IF k < deleted THEN tracks[k] ELSE tracks[k + 1]
    BY NewTracksFacts DEF InUse, NumTracks, BInv
  <1>2. tracks[deleted].id \in Tracks /\ Apart(tracks)
    BY BookFacts
  <1>3. CASE fx # Duck
    <2>1. val \in {0, 1}
      BY <1>3 DEF Effects
    <2>2. val # tracks[deleted].id
      BY <1>2, <2>1, BankAssumption
    <2> QED
      BY <1>3, <2>2 DEF SettingOf, DeafSetting
  <1>4. CASE fx = Duck
    <2> DEFINE source == SidechainSourceTrack(i, val, NumTracks)
               moved == MovedDown(source, deleted)
               vector == NewTracks(deleted)
    <2>1. SidechainSourceTrack(MovedDown(i, deleted), new, NumTracks - 1)
            = IF source \in {NoTrack, deleted} THEN NoTrack ELSE moved
      BY <1>1, <1>4, SelectionRemapped
    <2>2. source = NoTrack \/ source \in 1..NumTracks
      BY <1>1, SourceIsTrack DEF Others
    <2>3. SettingOf(tracks, i, fx, val) = IF source = NoTrack THEN NoTrack ELSE tracks[source].id
      BY <1>1, <1>4 DEF SettingOf
    <2>4. SettingOf(vector, MovedDown(i, deleted), fx, new)
            = IF source \in {NoTrack, deleted} THEN NoTrack
              ELSE IF moved = NoTrack THEN NoTrack ELSE vector[moved].id
      BY <1>1, <1>4, <2>1 DEF SettingOf
    <2>5. source \notin {NoTrack, deleted} =>
            moved # NoTrack /\ vector[moved] = tracks[source] /\ tracks[source].id # tracks[deleted].id
      <3> SUFFICES ASSUME source \notin {NoTrack, deleted}
                   PROVE  /\ moved # NoTrack /\ vector[moved] = tracks[source]
                          /\ tracks[source].id # tracks[deleted].id
        OBVIOUS
      <3>1. source \in 1..NumTracks /\ source # deleted /\ deleted \in 1..NumTracks
        BY <1>1, <2>2
      <3> HIDE DEF source, vector
      <3>2. moved \in 1..NumTracks - 1 /\ (source = IF moved < deleted THEN moved ELSE moved + 1)
        BY <1>1, <3>1 DEF MovedDown
      <3> HIDE DEF moved
      <3>3. vector[moved] = tracks[source]
        BY <1>1, <3>2 DEF vector
      <3>4. tracks[source].id # tracks[deleted].id
        BY <1>1, <1>2, <3>1 DEF Apart
      <3> QED
        BY <1>1, <3>2, <3>3, <3>4 DEF NoTrack
    <2> HIDE DEF source, moved, vector
    <2>6. CASE source = NoTrack
      BY <2>3, <2>4, <2>6 DEF DeafSetting, vector
    <2>7. CASE source = deleted
      BY <2>3, <2>4, <2>7 DEF DeafSetting, vector
    <2>8. CASE source \notin {NoTrack, deleted}
      BY <2>3, <2>4, <2>5, <2>8 DEF DeafSetting, vector
    <2> QED
      BY <2>6, <2>7, <2>8
  <1> QED
    BY <1>3, <1>4

\* The lane of a snapshot with its selections renumbered.
LEMMA RemappedLane ==
  ASSUME IInv, NEW snap \in Snapshot, NEW deleted \in InUse, NEW i \in InUse \ {deleted}
  PROVE  LET lane == RemapSnapshot(snap, deleted)[i]
         IN  /\ lane.body = snap[i].body /\ lane.inst = snap[i].inst
             /\ \A s \in 1..Slots :
                  /\ lane.fx[s].np = snap[i].fx[s].np
                  /\ lane.fx[s].val = IF desc[i][s] = Duck /\ snap[i].fx[s].np > 0
                                      THEN RemapSelection(i, snap[i].fx[s].val, deleted, NumTracks)
                                      ELSE snap[i].fx[s].val
  <1> DEFINE was(s) == snap[i].fx[s]
             remapped(s) == RemapSelection(i, was(s).val, deleted, NumTracks)
             slot(s) == IF desc[i][s] = Duck /\ was(s).np > 0
                        THEN [was(s) EXCEPT !.val = remapped(s)] ELSE was(s)
             slots == [s \in 1..Slots |-> slot(s)]
  <1>1. snap[i] \in LaneSet
    BY DEF Snapshot
  <1>2. RemapSnapshot(snap, deleted)[i] = WithChain(snap[i], slots)
    BY DEF RemapSnapshot, WithChain, Snapshot
  <1>3. ASSUME NEW s \in 1..Slots
        PROVE  /\ slot(s).np = was(s).np
               /\ slot(s).val = IF desc[i][s] = Duck /\ was(s).np > 0 THEN remapped(s) ELSE was(s).val
    <2>1. was(s) \in SlotSet
      BY <1>1, LaneFields
    <2>2. slot(s) = IF desc[i][s] = Duck /\ was(s).np > 0
                    THEN [was(s) EXCEPT !.val = remapped(s)] ELSE was(s)
      OBVIOUS
    <2> HIDE DEF was, remapped, slot
    <2> QED
      BY <2>1, <2>2 DEF SlotSet
  <1>4. \A s \in 1..Slots : slots[s] = slot(s)
    OBVIOUS
  <1> HIDE DEF slots, slot
  <1>5. /\ RemapSnapshot(snap, deleted)[i].body = snap[i].body
        /\ RemapSnapshot(snap, deleted)[i].inst = snap[i].inst
        /\ RemapSnapshot(snap, deleted)[i].fx = slots
    BY <1>1, <1>2 DEF WithChain, LaneSet
  <1> QED
    BY <1>3, <1>4, <1>5

LEMMA RemapEntry ==
  ASSUME BInv, NEW deleted \in InUse, NumTracks > 1, NEW i \in InUse \ {deleted},
         NEW snap \in Snapshot, FilledHere(snap), FitsHere(snap)
  PROVE  LET lane == RemapSnapshot(snap, deleted)[i]
         IN  /\ Full(lane, desc[i], tracks[i].kind)
             /\ EntryOf(NewTracks(deleted), desc[i], MovedDown(i, deleted), lane)
                  = Deaf(EntryOf(tracks, desc[i], i, snap[i]), tracks[deleted].id)
  <1> DEFINE lane == RemapSnapshot(snap, deleted)[i]
             t == tracks[deleted].id
             vector == NewTracks(deleted)
             k == MovedDown(i, deleted)
             links == ChainOf(tracks, desc[i], i, snap[i])
  <1>1. /\ InUse = 1..Len(tracks) /\ desc[i] \in Chain /\ Packed(desc[i])
        /\ Full(snap[i], desc[i], tracks[i].kind) /\ LaneFits(snap[i], desc[i], Len(tracks))
    BY BookFacts DEF FilledHere, Filled, FitsHere, Fits
  <1>2. /\ lane.body = snap[i].body /\ lane.inst = snap[i].inst
        /\ \A s \in 1..Slots :
             /\ lane.fx[s].np = snap[i].fx[s].np
             /\ lane.fx[s].val = IF desc[i][s] = Duck /\ snap[i].fx[s].np > 0
                                 THEN RemapSelection(i, snap[i].fx[s].val, deleted, NumTracks)
                                 ELSE snap[i].fx[s].val
    BY RemappedLane DEF BInv
  <1> HIDE DEF lane
  <1>3. Full(lane, desc[i], tracks[i].kind)
    BY <1>1, <1>2 DEF Full
  <1>4. vector[k] = tracks[i]
    <2>1. /\ NumTracks \in Nat /\ InUse = 1..NumTracks
          /\ \A m \in 1..NumTracks - 1 :
               vector[m] = IF m < deleted THEN tracks[m] ELSE tracks[m + 1]
      BY NewTracksFacts DEF InUse, BInv
    <2> HIDE DEF vector
    <2>2. k \in 1..NumTracks - 1 /\ (i = IF k < deleted THEN k ELSE k + 1)
      BY <2>1 DEF MovedDown
    <2> HIDE DEF k
    <2> QED
      BY <2>1, <2>2
  <1>5. Size(desc[i]) \in 0..Slots /\ \A s \in 1..Slots : desc[i][s] # NoFx <=> s <= Size(desc[i])
    BY <1>1, PackedSize
  <1>6. ASSUME NEW s \in 1..Size(desc[i])
        PROVE  SettingOf(vector, k, desc[i][s], lane.fx[s].val)
                 = DeafSetting(SettingOf(tracks, i, desc[i][s], snap[i].fx[s].val), t)
    <2>1. s \in 1..Slots /\ desc[i][s] # NoFx
      BY <1>5, <1>6, BankAssumption
    <2>2. desc[i][s] \in Effects
      BY <1>1, <2>1 DEF Chain
    <2>3. snap[i].fx[s].np = 1 /\ SlotFits(snap[i].fx[s], desc[i][s], Len(tracks))
      BY <1>1, <2>1 DEF Full, LaneFits
    <2>4. desc[i][s] = Gain => snap[i].fx[s].val \in {0, 1}
      BY <2>3 DEF SlotFits
    <2>5. lane.fx[s].val = IF desc[i][s] = Duck
                           THEN RemapSelection(i, snap[i].fx[s].val, deleted, NumTracks)
                           ELSE snap[i].fx[s].val
      BY <1>2, <2>1, <2>3
    <2> QED
      BY <2>2, <2>4, <2>5, SettingRemapped
  <1>7. ChainOf(vector, desc[i], k, lane) = DeafChain(links, t)
    <2>1. DeafChain(links, t) = [s \in 1..Size(desc[i]) |-> DeafLink(links[s], t)]
      BY DEF DeafChain, ChainOf
    <2>2. ASSUME NEW s \in 1..Size(desc[i])
          PROVE  DeafLink(links[s], t)
                   = [fx |-> desc[i][s], set |-> SettingOf(vector, k, desc[i][s], lane.fx[s].val)]
      <3>1. links[s] = [fx |-> desc[i][s], set |-> SettingOf(tracks, i, desc[i][s], snap[i].fx[s].val)]
        BY DEF ChainOf
      <3> QED
        BY <1>6, <3>1, DeafLinkOf
    <2> HIDE DEF links, t, vector, k
    <2> QED
      BY <2>1, <2>2 DEF ChainOf
  <1>8. EntryOf(vector, desc[i], k, lane)
          = [body |-> snap[i].body,
             inst |-> IF tracks[i].kind = "custom" THEN snap[i].inst.val ELSE InstrumentDefault,
             chain |-> DeafChain(links, t)]
    BY <1>2, <1>4, <1>7 DEF EntryOf
  <1>9. EntryOf(tracks, desc[i], i, snap[i])
          = [body |-> snap[i].body,
             inst |-> IF tracks[i].kind = "custom" THEN snap[i].inst.val ELSE InstrumentDefault,
             chain |-> links]
    BY DEF EntryOf
  <1> HIDE DEF links, t, vector, k
  <1>10. EntryOf(vector, desc[i], k, lane) = Deaf(EntryOf(tracks, desc[i], i, snap[i]), t)
    BY <1>8, <1>9, DeafFields
  <1> QED
    BY <1>3, <1>10 DEF lane, t, vector, k

\* The lanes of a snapshot without the track, as a page of those that are left.
LEMMA RemovedPlays ==
  ASSUME BInv, NEW deleted \in InUse, NumTracks > 1, NEW snap \in Snapshot,
         FilledHere(snap), FitsHere(snap), NEW k \in 1..NumTracks - 1, NEW i \in InUse,
         i = IF k < deleted THEN k ELSE k + 1
  PROVE  /\ Full(Removed(snap, deleted)[k], desc[i], tracks[i].kind)
         /\ EntryOf(NewTracks(deleted), desc[i], k, Removed(snap, deleted)[k])
              = Deaf(EntryOf(tracks, desc[i], i, snap[i]), tracks[deleted].id)
  <1> DEFINE remapped == RemapSnapshot(snap, deleted)
             removed == Removed(snap, deleted)
  <1>1. InUse = 1..NumTracks /\ NumTracks \in Nat
    BY NewTracksFacts DEF InUse, BInv
  <1>2. remapped \in [1..NumTracks -> LaneSet]
    BY <1>1, RemapTyped DEF Snapshot, BInv
  <1>3. remapped \in Seq(LaneSet) /\ Len(remapped) = NumTracks
    BY <1>1, <1>2, FunctionIsSeq
  <1>4. removed = RemoveAt(remapped, deleted)
    BY DEF Removed
  <1>5. i # deleted /\ k = MovedDown(i, deleted)
    BY <1>1 DEF MovedDown
  <1>6. /\ Full(remapped[i], desc[i], tracks[i].kind)
        /\ EntryOf(NewTracks(deleted), desc[i], k, remapped[i])
             = Deaf(EntryOf(tracks, desc[i], i, snap[i]), tracks[deleted].id)
    BY <1>5, RemapEntry
  <1> HIDE DEF remapped, removed
  <1>7. removed[k] = remapped[i]
    BY <1>1, <1>3, <1>4, RemoveAtProperties
  <1> QED
    BY <1>6, <1>7 DEF removed

LEMMA IdsWithout ==
  ASSUME IInv, Settled, NEW deleted \in InUse, NumTracks > 1
  PROVE  /\ Ids(NewTracks(deleted)) = Ids(tracks) \ {tracks[deleted].id}
         /\ Ids(tracks) # {tracks[deleted].id}
         /\ tracks[deleted].id \in Ids(tracks)
  <1> DEFINE n == NumTracks - 1
             vector == NewTracks(deleted)
             t == tracks[deleted].id
  <1>1. /\ n \in Nat /\ n > 0 /\ Len(vector) = n /\ NumTracks = Len(tracks) /\ InUse = 1..n + 1
        /\ InUse = 1..Len(tracks)
        /\ \A k \in 1..n : vector[k] = IF k < deleted THEN tracks[k] ELSE tracks[k + 1]
    <2>1. /\ NumTracks \in Nat /\ Len(vector) = n /\ NumTracks = Len(tracks) /\ InUse = 1..NumTracks
          /\ \A k \in 1..n : vector[k] = IF k < deleted THEN tracks[k] ELSE tracks[k + 1]
      BY NewTracksFacts DEF InUse, NumTracks
    <2> QED
      BY <2>1
  <1>2. \A j, k \in InUse : tracks[j].id = tracks[k].id => j = k
    BY <1>1 DEF Settled, Apart
  <1> HIDE DEF vector, n
  <1>3. ASSUME NEW k \in 1..n PROVE vector[k].id \in Ids(tracks) \ {t}
    <2>1. PICK j \in InUse : j # deleted /\ vector[k] = tracks[j]
      BY <1>1
    <2>2. tracks[j].id \in Ids(tracks)
      BY <1>1, <2>1 DEF Ids
    <2> QED
      BY <1>2, <2>1, <2>2
  <1>4. ASSUME NEW j \in InUse, tracks[j].id # t PROVE tracks[j].id \in Ids(vector)
    <2>1. j # deleted /\ j \in 1..n + 1 /\ deleted \in 1..n + 1
      BY <1>1, <1>4
    <2>2. PICK k \in 1..n : vector[k] = tracks[j]
      <3>1. CASE j < deleted
        <4>1. j \in 1..n
          BY <1>1, <2>1, <3>1
        <4> QED
          BY <1>1, <3>1, <4>1
      <3>2. CASE ~ j < deleted
        <4>1. j - 1 \in 1..n /\ ~ j - 1 < deleted /\ (j - 1) + 1 = j
          BY <1>1, <2>1, <3>2
        <4> QED
          BY <1>1, <4>1
      <3> QED
        BY <3>1, <3>2
    <2> QED
      BY <1>1, <2>2 DEF Ids
  <1>5. \A u \in Ids(vector) : u \in Ids(tracks) \ {t}
    BY <1>1, <1>3 DEF Ids
  <1>6. \A u \in Ids(tracks) \ {t} : u \in Ids(vector)
    BY <1>1, <1>4 DEF Ids
  <1>7. Ids(vector) = Ids(tracks) \ {t}
    BY <1>5, <1>6
  <1>8. Ids(tracks) # {t}
    <2>1. vector[1].id \in Ids(tracks) \ {t}
      BY <1>1, <1>3
    <2> QED
      BY <2>1
  <1>9. t \in Ids(tracks)
    BY <1>1 DEF Ids
  <1> QED
    BY <1>7, <1>8, <1>9 DEF vector, t

LEMMA RemoveBook ==
  ASSUME BInv, IInv', Settled', NEW deleted \in InUse, RemoveTrack(deleted)
  PROVE  Complete' /\ Book!BookNext
  <1> DEFINE current == Removed(Capture, deleted)
             n == NumTracks - 1
             t == tracks[deleted].id
             old(k) == IF k < deleted THEN k ELSE k + 1
             dropped(p) == [u \in Ids(tracks) \ {t} |-> Deaf(PageOf(At(p), tracks, desc)[u], t)]
  <1>1. /\ NumTracks > 1 /\ tracks' = NewTracks(deleted) /\ desc' = NewDesc(deleted)
        /\ live' = [Restore(current) EXCEPT ![NumTracks] = BlankLane]
        /\ cur' = cur /\ poly' = [poly EXCEPT ![NumTracks] = 0]
        /\ bank' = [p \in DOMAIN bank |-> IF p = cur THEN current ELSE Removed(bank[p], deleted)]
    BY DEF RemoveTrack, Compacted, NewTracks, NewDesc, NoChain, Removed
  <1>2. /\ Len(tracks') = n /\ n \in Nat /\ n \in Lanes /\ NumTracks \in Nat
        /\ NumTracks \in Lanes /\ InUse = 1..NumTracks /\ NumTracks = Len(tracks)
        /\ InUse \subseteq Lanes
        /\ \A k \in 1..n : tracks'[k] = tracks[old(k)]
        /\ \A k \in 1..n : desc'[k] = desc[old(k)]
    <2>1. n \in Nat
      BY <1>1, NewTracksFacts DEF BInv
    <2> QED
      BY <1>1, <2>1, NewTracksFacts, NewDescFacts, BookFacts DEF InUse, NumTracks, BInv
  <1>3. \A k \in 1..n : old(k) \in InUse
    BY <1>2
  <1>4. /\ Capture \in Snapshot /\ FitsHere(Capture) /\ PlacedHere(Capture)
        /\ Plays(Capture, live) /\ FilledHere(Capture)
    BY CaptureFacts, CaptureFits, CapturePlays, PlaysPage DEF BInv
  <1>5. current \in [1..n -> LaneSet]
    BY <1>1, <1>4, RemovedFacts DEF BInv
  <1>6. DOMAIN bank = 1..Len(bank) /\ Len(bank) \in Nat /\ cur \in 1..Len(bank) /\ live \in [Lanes -> LaneSet]
    BY Facts DEF BInv
  <1>7. Len(bank') = Len(bank)
    BY <1>1, <1>6
  <1> HIDE DEF current
  \* Every lane that is left, in every pattern.
  <1>8. ASSUME NEW p \in 1..Len(bank), NEW k \in 1..n
        PROVE  /\ Full(At(p)'[k], desc'[k], tracks'[k].kind)
               /\ EntryOf(tracks', desc'[k], k, At(p)'[k])
                    = Deaf(EntryOf(tracks, desc[old(k)], old(k), At(p)[old(k)]), t)
    <2> DEFINE i == old(k)
    <2>1. i \in InUse /\ desc'[k] = desc[i] /\ tracks'[k] = tracks[i]
      BY <1>2, <1>3
    <2>2. i = IF k < deleted THEN k ELSE k + 1
      OBVIOUS
    <2> HIDE DEF i
    <2>3. CASE p = cur
      <3>1. /\ Full(current[k], desc[i], tracks[i].kind)
            /\ EntryOf(NewTracks(deleted), desc[i], k, current[k])
                 = Deaf(EntryOf(tracks, desc[i], i, Capture[i]), t)
        BY <1>1, <1>4, <2>1, <2>2, RemovedPlays DEF current
      <3>2. EntryOf(tracks, desc[i], i, Capture[i]) = EntryOf(tracks, desc[i], i, live[i])
        BY <1>4, <2>1 DEF Plays
      <3>3. k \in Lanes /\ k # NumTracks /\ k \in DOMAIN current
        BY <1>2, <1>5, BankAssumption DEF Lanes
      <3>4. live'[k] = RestoredLane(live[k], current[k])
        BY <1>1, <3>3 DEF Restore
      <3>5. live[k] \in LaneSet /\ current[k] \in LaneSet /\ desc[i] \in Chain /\ Packed(desc[i])
        BY <1>5, <1>6, <2>1, <3>3, BookFacts
      <3>6. NewTracks(deleted)[k] = tracks[i]
        BY <1>1, <2>1
      <3>7. /\ Full(RestoredLane(live[k], current[k]), desc[i], tracks[i].kind)
            /\ EntryOf(NewTracks(deleted), desc[i], k, RestoredLane(live[k], current[k]))
                 = EntryOf(NewTracks(deleted), desc[i], k, current[k])
        BY <3>1, <3>5, <3>6, BackSame
      <3>8. At(p)' = live' /\ At(p) = live
        BY <1>1, <2>3 DEF At
      <3> QED
        BY <1>1, <2>1, <3>1, <3>2, <3>4, <3>7, <3>8 DEF i
    <2>4. CASE p # cur
      <3>1. bank[p] \in Snapshot /\ At(p) = bank[p] /\ At(p)' = Removed(bank[p], deleted)
        BY <1>1, <1>6, <2>4, BookFacts DEF At
      <3>2. FilledHere(bank[p])
        BY <3>1, StillPlays
      <3>3. FitsHere(bank[p])
        BY <2>4 DEF BInv, Settled, FitsHere
      <3>4. /\ Full(Removed(bank[p], deleted)[k], desc[i], tracks[i].kind)
            /\ EntryOf(NewTracks(deleted), desc[i], k, Removed(bank[p], deleted)[k])
                 = Deaf(EntryOf(tracks, desc[i], i, bank[p][i]), t)
        BY <1>1, <2>1, <2>2, <3>1, <3>2, <3>3, RemovedPlays
      <3> QED
        BY <1>1, <2>1, <3>1, <3>4 DEF i
    <2> QED
      BY <2>3, <2>4
  <1>9. Complete'
    <2>1. ASSUME NEW k \in 1..n PROVE Packed(desc'[k])
      BY <1>2, <1>3, BookFacts
    <2> QED
      BY <1>2, <1>7, <1>8, <2>1 DEF Complete, Filled
  <1>10. Ids(tracks') = Ids(tracks) \ {t} /\ Ids(tracks) # {t} /\ t \in Ids(tracks)
    BY <1>1, IdsWithout DEF BInv
  <1> HIDE DEF n, t
  <1>11. ASSUME NEW p \in 1..Len(bank) PROVE dropped(p) = PageOf(At(p)', tracks', desc')
    <2> DEFINE was == PageOf(At(p), tracks, desc)
    <2>1. \A k \in InUse : was[tracks[k].id] = EntryOf(tracks, desc[k], k, At(p)[k])
      BY <1>2, PageAt, BookFacts
    <2> HIDE DEF was
    <2>2. ASSUME NEW k \in 1..n
          PROVE  dropped(p)[tracks'[k].id] = EntryOf(tracks', desc'[k], k, At(p)'[k])
      <3>1. tracks'[k] = tracks[old(k)] /\ old(k) \in InUse
        BY <1>2, <1>3
      <3>2. tracks'[k].id \in Ids(tracks) \ {t}
        BY <1>2, <1>10 DEF Ids
      <3>3. dropped(p)[tracks'[k].id] = Deaf(was[tracks'[k].id], t)
        BY <3>2 DEF was
      <3>4. was[tracks'[k].id] = EntryOf(tracks, desc[old(k)], old(k), At(p)[old(k)])
        BY <2>1, <3>1
      <3> QED
        BY <1>8, <3>3, <3>4
    <2>3. PICK vector, chains, lanes : vector = tracks' /\ chains = desc' /\ lanes = At(p)'
      OBVIOUS
    <2>4. PICK page : page = dropped(p)
      OBVIOUS
    <2>5. page = PageOf(lanes, vector, chains)
      <3>1. page = [u \in Ids(vector) |-> page[u]]
        BY <1>10, <2>3, <2>4
      <3>2. \A k \in 1..Len(vector) : page[vector[k].id] = EntryOf(vector, chains[k], k, lanes[k])
        BY <1>2, <2>2, <2>3, <2>4
      <3>3. Apart(vector)
        BY <2>3 DEF Settled
      <3> QED
        BY <3>1, <3>2, <3>3, PageIs
    <2> QED
      BY <2>3, <2>4, <2>5
  <1>12. Pages' = [p \in 1..Len(bank) |-> PageOf(At(p)', tracks', desc')]
    BY <1>7, PagesNext DEF PagesAre
  <1>13. /\ DOMAIN Pages = 1..Len(bank)
         /\ \A p \in 1..Len(bank) : Pages[p] = PageOf(At(p), tracks, desc)
         /\ DOMAIN Pages[cur] = Ids(tracks)
    BY <1>6, PagesSeq, BookFacts
  <1>14. Pages' = [p \in DOMAIN Pages |-> [u \in DOMAIN Pages[cur] \ {t} |-> Deaf(Pages[p][u], t)]]
    BY <1>11, <1>12, <1>13
  <1>17. Limits' = Front(Limits)
    <2>1. poly \in [Lanes -> {0, 1}] /\ NumTracks \in Nat \ {0}
      BY <1>1, <1>2, LimitFacts DEF BInv
    <2>2. Limits = [k \in 1..NumTracks |-> poly[k]] /\ Limits \in [1..NumTracks -> {0, 1}]
      BY <1>2, <2>1 DEF Limits
    <2>3. Front(Limits) = [k \in 1..n |-> Limits[k]]
      <3>1. PICK f, m : f = Limits /\ m = NumTracks
        OBVIOUS
      <3>2. m \in Nat \ {0} /\ f \in [1..m -> {0, 1}]
        BY <2>1, <2>2, <3>1
      <3>3. Front(f) = [k \in 1..m - 1 |-> f[k]]
        BY <3>2, Shorter, Zenon
      <3>4. m - 1 = n
        BY <3>1 DEF n
      <3>5. f = Limits
        BY <3>1
      <3> QED
        BY <3>3, <3>4, <3>5
    <2>4. Limits' = [k \in 1..n |-> poly'[k]]
      <3>1. InUse' = 1..n
        BY <1>2 DEF InUse, NumTracks
      <3> QED
        BY <3>1 DEF Limits
    <2>5. ASSUME NEW k \in 1..n PROVE poly'[k] = Limits[k]
      <3>1. n = NumTracks - 1
        BY DEF n
      <3>2. k \in 1..NumTracks /\ k # NumTracks
        BY <2>1, <3>1
      <3>3. k \in Lanes
        BY <1>2, <3>2
      <3>4. poly'[k] = poly[k]
        BY <1>1, <2>1, <3>2, <3>3
      <3> QED
        BY <2>2, <3>2, <3>4
    <2> QED
      BY <2>3, <2>4, <2>5
  <1>15. Book!DropTrack(t)
    BY <1>1, <1>10, <1>13, <1>14, <1>17 DEF Book!DropTrack, Book!Front, Front, Book!EveryPage, Book!Known, Deaf
  <1>16. t \in DOMAIN Pages[cur]
    BY <1>10, <1>13
  <1> QED
    BY <1>9, <1>15, <1>16 DEF Book!BookNext, Book!Known

-----------------------------------------------------------------------------
(* The start, and the theorems *)

LEMMA InitBook ==
  ASSUME Init
  PROVE  BInv /\ Book!BookInit
  <1>1. IInv /\ Settled
    BY InitEstablishes, InitSettles
  <1>2. /\ setup.fx \in Chain /\ InUse = 1..Len(tracks) /\ InUse \subseteq Lanes
        /\ \A j, k \in 1..Slots : j < k /\ setup.fx[k] # NoFx => setup.fx[j] # NoFx
    <2>1. \A j, k \in 1..Slots : j < k /\ setup.fx[k] # NoFx => setup.fx[j] # NoFx
      BY BankAssumption DEF Init
    <2> QED
      BY <2>1, StartTracks DEF InUse, NumTracks
  <1>3. \A i \in InUse : desc[i] = setup.fx
    <2>1. desc = [i \in Lanes |-> IF i \in InUse THEN setup.fx ELSE [s \in 1..Slots |-> NoFx]]
      BY Zenon DEF Init
    <2> QED
      BY <1>2, <2>1
  <1>4. \A i \in InUse : Packed(desc[i])
    BY <1>2, <1>3 DEF Packed
  <1>5. ASSUME NEW i \in InUse PROVE Full(live[i], desc[i], tracks[i].kind)
    <2> DEFINE slots == [s \in 1..Slots |-> StartSlot(tracks[i].id, setup.fx[s])]
    <2>1. live[i] = [body |-> 0, inst |-> [np |-> 1, val |-> InstrumentDefault], fx |-> slots]
      BY <1>2 DEF Init
    <2>2. live[i].fx = slots /\ live[i].inst.np = 1
      BY <2>1
    <2>3. ASSUME NEW s \in 1..Slots, setup.fx[s] # NoFx
          PROVE  StartSlot(tracks[i].id, setup.fx[s]).np = 1
      BY <2>3 DEF StartSlot
    <2> QED
      BY <1>3, <2>2, <2>3 DEF Full
  <1>6. Len(bank) = 1 /\ cur = 1
    BY DEF Init
  <1>7. Complete
    BY <1>2, <1>4, <1>5, <1>6 DEF Complete, Filled, At
  <1>8. BInv
    BY <1>1, <1>7 DEF BInv
  <1>9. Len(Pages) = 1
    BY <1>6, <1>8, PagesSeq
  <1>10. \A i \in DOMAIN Limits : Limits[i] = 0
    BY <1>2 DEF Init, Limits
  <1> QED
    BY <1>6, <1>8, <1>9, <1>10 DEF Book!BookInit

LEMMA SamePages ==
  ASSUME BInv, IInv', UNCHANGED <<tracks, desc, bank, cur, live>>
  PROVE  Complete' /\ Pages' = Pages
  <1>2. \A q \in 1..Len(bank') : At(q)' = At(q)
    BY DEF At
  <1> DEFINE from == [q \in 1..Len(bank) |-> q]
  <1>3. \A q \in 1..Len(bank') : from[q] = q /\ from[q] \in 1..Len(bank)
    OBVIOUS
  <1> HIDE DEF from
  <1>4. \A q \in 1..Len(bank') : Plays(At(q)', At(from[q]))
    BY <1>2, <1>3, StillPlays
  <1>5. Complete' /\ Pages' = [q \in 1..Len(bank') |-> Pages[from[q]]]
    BY <1>3, <1>4, PagesFollow
  <1>6. Pages = [q \in 1..Len(bank) |-> Pages[q]]
    BY BookFacts
  <1> QED
    BY <1>3, <1>5, <1>6

LEMMA StutterBook ==
  ASSUME BInv, IInv', UNCHANGED vars
  PROVE  Complete' /\ UNCHANGED <<Pages, cur, Limits>>
  <1>1. UNCHANGED <<tracks, desc, bank, cur, live, poly>>
    BY DEF vars, trackVars, stateVars
  <1> QED
    BY <1>1, SamePages, LimitsStay

LEMMA PolyphonyBook ==
  ASSUME BInv, IInv', NEW i \in InUse, NEW v \in {0, 1}, SetPolyphony(i, v)
  PROVE  Complete' /\ Book!BookNext
  <1>1. UNCHANGED <<tracks, desc, bank, cur, live>> /\ poly' = [poly EXCEPT ![i] = v]
    BY DEF SetPolyphony, trackVars
  <1>2. Complete' /\ Pages' = Pages
    BY <1>1, SamePages
  <1>3. poly \in [Lanes -> {0, 1}] /\ InUse \subseteq Lanes
    BY Facts, LimitFacts DEF BInv
  <1>4. /\ DOMAIN Limits = InUse /\ DOMAIN Limits' = InUse
        /\ Limits' = [Limits EXCEPT ![i] = Limits'[i]]
    <2>1. Limits = [k \in InUse |-> poly[k]] /\ Limits' = [k \in InUse |-> poly'[k]]
      BY <1>1 DEF Limits, InUse, NumTracks
    <2> QED
      BY <1>1, <1>3, <2>1
  <1>5. Book!SetLimit(i)
    BY <1>1, <1>2, <1>4 DEF Book!SetLimit
  <1> QED
    BY <1>2, <1>4, <1>5 DEF Book!BookNext

LEMMA BookNextStep == BInv /\ [Next]_vars => BInv' /\ [Book!BookNext]_<<Pages, cur, Limits>>
  <1> SUFFICES ASSUME BInv, [Next]_vars
               PROVE  BInv' /\ (Book!BookNext \/ UNCHANGED <<Pages, cur, Limits>>)
    BY DEF BInv
  <1> DEFINE Kept == Complete' /\ (Book!BookNext \/ UNCHANGED <<Pages, cur, Limits>>)
  <1>1. IInv' /\ Settled' /\ DOMAIN bank = 1..Len(bank)
    BY NextKeeps, SettledNext, Facts DEF BInv
  <1>2. ASSUME NEW i \in InUse, NEW v \in {0, 1}, EditBody(i, v) PROVE Kept
    BY <1>1, <1>2, BodyBook
  <1>3. ASSUME NEW i \in InUse, NEW v \in {0, 1}, SetInstrument(i, v) PROVE Kept
    BY <1>1, <1>3, InstrumentBook
  <1>4. ASSUME NEW i \in InUse, NEW s \in 1..Slots, NEW v \in {0, 1}, SetEffect(i, s, v)
        PROVE  Kept
    BY <1>1, <1>4, EffectBook
  <1>5. ASSUME NEW i \in InUse, NEW s \in 1..Slots, NEW selection \in 0..(NumTracks - 1),
               SelectSidechain(i, s, selection)
        PROVE  Kept
    BY <1>1, <1>5, SidechainBook
  <1>6. ASSUME NEW p \in DOMAIN bank, SwitchPattern(p) PROVE Kept
    BY <1>1, <1>6, SwitchBook
  <1>7. ASSUME ClonePattern PROVE Kept
    BY <1>1, <1>7, CloneBook
  <1>8. ASSUME DeletePattern PROVE Kept
    BY <1>1, <1>8, DeletePatternBook
  <1>9. ASSUME NEW i \in InUse, PropagateTrack(i) PROVE Kept
    BY <1>1, <1>9, PropagateBook
  <1>10. ASSUME NEW i \in InUse, NEW fx \in Effects, LoadEffect(i, fx) PROVE Kept
    BY <1>1, <1>10, LoadBook
  <1>11. ASSUME NEW i \in InUse, NEW s \in 1..Slots, DeleteEffect(i, s) PROVE Kept
    BY <1>1, <1>11, UnloadBook
  <1>12. ASSUME NEW id \in Tracks, NEW kind \in Kinds, AddTrack(id, kind) PROVE Kept
    BY <1>1, <1>12, AddBook
  <1>13. ASSUME NEW i \in InUse, RemoveTrack(i) PROVE Kept
    BY <1>1, <1>13, RemoveBook
  <1>14. ASSUME UNCHANGED vars PROVE Kept
    BY <1>1, <1>14, StutterBook
  <1>16. ASSUME NEW i \in InUse, NEW v \in {0, 1}, SetPolyphony(i, v) PROVE Kept
    BY <1>1, <1>16, PolyphonyBook
  <1> HIDE DEF Kept
  <1>15. Kept
    BY <1>2, <1>3, <1>4, <1>5, <1>6, <1>7, <1>8, <1>9, <1>10, <1>11, <1>12, <1>13, <1>14, <1>16
       DEF Next
  <1> QED
    BY <1>1, <1>15 DEF Kept, BInv

\* In every pattern an effect follows another without a gap and every place that
\* is in use keeps its value, whatever was edited, switched, added or deleted
\* (sync_to_descriptor, and the shift of the slots when an effect is deleted).
THEOREM BookInvariant == Spec => []BInv
  <1>1. Init => BInv
    BY InitBook
  <1>2. BInv /\ [Next]_vars => BInv'
    BY BookNextStep
  <1> QED
    BY <1>1, <1>2, PTL DEF Spec

\* The lanes, snapshots and selection indices amount to a book of pages: an edit
\* changes one entry of the open page, a switch brings back what was left, and a
\* track or an effect comes and goes in every page (SequencerState's operations).
THEOREM BookKept == Spec => KeepsTheBook
  <1>1. Init => BInv /\ Book!BookInit
    BY InitBook
  <1>2. BInv /\ [Next]_vars => BInv' /\ [Book!BookNext]_<<Pages, cur, Limits>>
    BY BookNextStep
  <1>3. Book!bookVars = <<Pages, cur, Limits>>
    BY DEF Book!bookVars
  <1> QED
    BY <1>1, <1>2, <1>3, PTL DEF Spec, KeepsTheBook, Book!BookSpec, Book!bookVars

-----------------------------------------------------------------------------
(* Effects stay in tune *)

\* The place of an effect of the next state, and what it is told there.
LEMMA PlaceNext ==
  ASSUME BInv', NEW q \in Loaded'
  PROVE  /\ q[1] \in 1..Len(tracks') /\ q[1] \in Lanes /\ q[2] \in 1..Slots
         /\ desc'[q[1]][q[2]] # NoFx
         /\ SlotAt(q)'.node = <<tracks'[q[1]].id, desc'[q[1]][q[2]]>>
         /\ SlotAt(q)'.np > 0
  <1>1. IInv' /\ Settled' /\ Complete'
    BY DEF BInv
  <1>2. /\ q[1] \in 1..Len(tracks') /\ q[2] \in 1..Slots /\ live'[q[1]].fx[q[2]].node # NoNode
    BY DEF Loaded, InUse, NumTracks
  <1>3. /\ q[1] \in Lanes /\ live'[q[1]].fx[q[2]].node
             = IF desc'[q[1]][q[2]] = NoFx THEN NoNode ELSE <<tracks'[q[1]].id, desc'[q[1]][q[2]]>>
    BY <1>1, <1>2, FactsNext DEF Placed, Sits, SlotNode
  <1>4. cur' \in 1..Len(bank')
    <2>1. cur' \in DOMAIN bank' /\ bank' \in Seq([InUse' -> LaneSet])
      BY <1>1, Zenon DEF IInv, TypeOK
    <2> QED
      BY <2>1
  <1>5. Filled(live', tracks', desc')
    BY <1>1, <1>4 DEF Complete, At
  <1>6. live'[q[1]].fx[q[2]].np = 1
    BY <1>2, <1>3, <1>5 DEF Filled, Full
  <1> QED
    BY <1>2, <1>3, <1>6 DEF SlotAt

LEMMA PlaceNow ==
  ASSUME BInv, NEW i \in 1..Len(tracks), NEW s \in 1..Slots, desc[i][s] # NoFx
  PROVE  /\ <<i, s>> \in Loaded
         /\ SlotAt(<<i, s>>).node = <<tracks[i].id, desc[i][s]>>
  <1>1. /\ InUse = 1..Len(tracks) /\ Placed(live, tracks, desc)
    BY Facts DEF BInv
  <1>2. live[i].fx[s].node = <<tracks[i].id, desc[i][s]>>
    BY <1>1 DEF Placed, Sits, SlotNode
  <1>3. live[i].fx[s].node # NoNode
    BY <1>2 DEF NoNode
  <1> QED
    BY <1>1, <1>2, <1>3 DEF Loaded, SlotAt

\* An effect whose slot has its own table hears what the slot says.
LEMMA OwnTable ==
  ASSUME BInv', NodesSoundAsSet', NEW q \in Loaded',
         tables'[q[1]][q[2]] = desc'[q[1]][q[2]]
  PROVE  InTune(q)'
  <1>1. SlotAt(q)'.np > 0
    BY PlaceNext
  <1>2. ASSUME desc'[q[1]][q[2]] = Gain PROVE q \in Reached'
    BY <1>1, <1>2 DEF Reached, DescAt, SlotAt
  <1>3. ASSUME desc'[q[1]][q[2]] = Gain PROVE heard'[SlotAt(q)'.node] = SlotAt(q)'.val
    BY <1>2, <1>3 DEF NodesSoundAsSet
  <1> QED
    BY <1>3 DEF InTune, DescAt, SlotAt

Excused(q) == Len(tracks') >= Len(tracks) /\ \E p \in Loaded : Detuned(p, q)

\* An effect that keeps its place and its table.
LEMMA PlaceKept ==
  ASSUME BInv, BInv', NodesSoundAsSet', NEW q \in Loaded', Len(tracks') >= Len(tracks),
         q[1] \in 1..Len(tracks), tracks'[q[1]] = tracks[q[1]],
         desc'[q[1]][q[2]] = desc[q[1]][q[2]], tables'[q[1]][q[2]] = tables[q[1]][q[2]]
  PROVE  InTune(q)' \/ Excused(q)
  <1>1. CASE tables'[q[1]][q[2]] = desc'[q[1]][q[2]]
    BY <1>1, OwnTable
  <1>2. CASE tables'[q[1]][q[2]] # desc'[q[1]][q[2]]
    <2> DEFINE p == <<q[1], q[2]>>
    <2>1. /\ q[2] \in 1..Slots /\ desc[q[1]][q[2]] # NoFx
          /\ SlotAt(q)'.node = <<tracks[q[1]].id, desc[q[1]][q[2]]>>
      BY PlaceNext
    <2>2. p \in Loaded /\ SlotAt(p).node = <<tracks[q[1]].id, desc[q[1]][q[2]]>>
      BY <2>1, PlaceNow
    <2>3. ~InTune(p)
      BY <1>2 DEF InTune, DescAt
    <2> QED
      BY <2>1, <2>2, <2>3 DEF Excused, Detuned
  <1> QED
    BY <1>1, <1>2

LEMMA LoadTune ==
  ASSUME BInv, BInv', NodesSoundAsSet', NEW i \in InUse, NEW fx \in Effects, LoadEffect(i, fx),
         NEW q \in Loaded'
  PROVE  InTune(q)' \/ Excused(q)
  <1>1. PICK s : /\ desc' = [desc EXCEPT ![i][s] = fx] /\ tables' = [tables EXCEPT ![i][s] = fx]
                 /\ tracks' = tracks
    BY DEF LoadEffect, trackVars
  <1>2. /\ desc \in [Lanes -> Chain] /\ tables \in [Lanes -> Chain] /\ Len(tracks) \in Lanes
        /\ InUse \subseteq Lanes
    BY Facts DEF BInv, Tables, Chain
  <1>3. q[1] \in 1..Len(tracks) /\ q[1] \in Lanes /\ q[2] \in 1..Slots
    BY <1>1, PlaceNext
  <1>4. CASE q[1] = i /\ q[2] = s
    <2>1. desc'[q[1]][q[2]] = fx /\ tables'[q[1]][q[2]] = fx
      BY <1>1, <1>2, <1>3, <1>4 DEF Chain
    <2> QED
      BY <2>1, OwnTable
  <1>5. CASE ~(q[1] = i /\ q[2] = s)
    <2>1. desc'[q[1]][q[2]] = desc[q[1]][q[2]] /\ tables'[q[1]][q[2]] = tables[q[1]][q[2]]
      BY <1>1, <1>2, <1>3, <1>5 DEF Chain
    <2>2. Len(tracks') >= Len(tracks)
      BY <1>1, <1>2, BankAssumption DEF Lanes
    <2> QED
      BY <1>1, <1>3, <2>1, <2>2, PlaceKept
  <1> QED
    BY <1>4, <1>5

\* The effects behind the one that is deleted move up.
LEMMA UnloadTune ==
  ASSUME BInv, BInv', NodesSoundAsSet', NEW i \in InUse, NEW s \in 1..Slots, DeleteEffect(i, s),
         NEW q \in Loaded'
  PROVE  InTune(q)' \/ Excused(q)
  <1>1. /\ desc' = [desc EXCEPT ![i] = Closed(@, s, NoFx)] /\ tracks' = tracks
        /\ tables' = [tables EXCEPT ![i][Slots] = NoFx]
    BY DEF DeleteEffect, trackVars
  <1>2. /\ desc \in [Lanes -> Chain] /\ tables \in [Lanes -> Chain] /\ Len(tracks) \in Lanes
        /\ InUse \subseteq Lanes /\ Len(tracks) \in Nat
    BY Facts, BankAssumption DEF BInv, Tables, Chain, Lanes
  <1>3. /\ q[1] \in 1..Len(tracks) /\ q[1] \in Lanes /\ q[2] \in 1..Slots
        /\ desc'[q[1]][q[2]] # NoFx
        /\ SlotAt(q)'.node = <<tracks[q[1]].id, desc'[q[1]][q[2]]>>
    BY <1>1, PlaceNext
  <1>4. CASE q[1] # i
    <2>1. desc'[q[1]] = desc[q[1]] /\ tables'[q[1]] = tables[q[1]]
      BY <1>1, <1>2, <1>3, <1>4
    <2> QED
      BY <1>1, <1>2, <1>3, <2>1, PlaceKept
  <1>5. CASE q[1] = i
    <2>1. /\ desc'[i] = Closed(desc[i], s, NoFx)
          /\ \A k \in 1..Slots : k # Slots => tables'[i][k] = tables[i][k]
      BY <1>1, <1>2 DEF Chain
    <2>2. q[2] # Slots
      BY <1>3, <1>5, <2>1 DEF Closed
    <2>3. CASE q[2] < s
      <3>1. desc'[i][q[2]] = desc[i][q[2]]
        BY <1>3, <2>1, <2>2, <2>3 DEF Closed
      <3> QED
        BY <1>1, <1>2, <1>3, <1>5, <2>1, <2>2, <3>1, PlaceKept
    <2>4. CASE ~(q[2] < s)
      <3>1. desc'[i][q[2]] = desc[i][q[2] + 1] /\ q[2] + 1 \in 1..Slots
        BY <1>3, <2>1, <2>2, <2>4, BankAssumption DEF Closed
      <3>2. <<i, q[2] + 1>> \in Loaded
            /\ SlotAt(<<i, q[2] + 1>>).node = <<tracks[i].id, desc[i][q[2] + 1]>>
        BY <1>3, <1>5, <3>1, PlaceNow
      <3>3. Detuned(<<i, q[2] + 1>>, q)
        BY <1>3, <1>5, <3>1, <3>2 DEF Detuned
      <3> QED
        BY <1>1, <1>2, <3>2, <3>3 DEF Excused
    <2> QED
      BY <2>3, <2>4
  <1> QED
    BY <1>4, <1>5

LEMMA AddTune ==
  ASSUME BInv, BInv', NodesSoundAsSet', NEW id \in Tracks, NEW kind \in Kinds, AddTrack(id, kind),
         NEW q \in Loaded'
  PROVE  InTune(q)' \/ Excused(q)
  <1> DEFINE i == Len(tracks) + 1
  <1>1. /\ tracks' = Append(tracks, [id |-> id, kind |-> kind]) /\ tables' = tables
        /\ desc' = [desc EXCEPT ![i] = NoChain] /\ i \in Lanes
    BY DEF AddTrack, NumTracks, NoChain, graphVars
  <1>2. /\ desc \in [Lanes -> Chain] /\ Len(tracks) \in Nat /\ tracks \in Seq(TrackSet)
    BY Facts, BankAssumption DEF BInv, Tables, Chain, Lanes
  <1>3. /\ Len(tracks') = i /\ \A k \in 1..Len(tracks) : tracks'[k] = tracks[k]
    BY <1>1, <1>2, AppendProperties DEF TrackSet
  <1>4. /\ q[1] \in 1..Len(tracks') /\ q[1] \in Lanes /\ q[2] \in 1..Slots
        /\ desc'[q[1]][q[2]] # NoFx
    BY PlaceNext
  <1>5. q[1] # i
    BY <1>1, <1>2, <1>4 DEF NoChain
  <1>6. q[1] \in 1..Len(tracks) /\ desc'[q[1]] = desc[q[1]]
    BY <1>1, <1>2, <1>3, <1>4, <1>5
  <1> QED
    BY <1>1, <1>2, <1>3, <1>6, PlaceKept

LEMMA RemoveTune ==
  ASSUME BInv', NodesSoundAsSet', NEW i \in InUse, RemoveTrack(i), NEW q \in Loaded'
  PROVE  InTune(q)'
  <1>1. tables' = [k \in Lanes |-> [s \in 1..Slots |->
                     IF k >= NumTracks \/ desc'[k][s] # NoFx THEN desc'[k][s] ELSE tables[k][s]]]
    BY DEF RemoveTrack
  <1>2. q[1] \in Lanes /\ q[2] \in 1..Slots /\ desc'[q[1]][q[2]] # NoFx
    BY PlaceNext
  <1>3. tables'[q[1]][q[2]] = desc'[q[1]][q[2]]
    BY <1>1, <1>2
  <1> QED
    BY <1>3, OwnTable

LEMMA QuietTune ==
  ASSUME BInv, BInv', NodesSoundAsSet', UNCHANGED <<tracks, desc, tables>>, NEW q \in Loaded'
  PROVE  InTune(q)' \/ Excused(q)
  <1>1. q[1] \in 1..Len(tracks) /\ Len(tracks) \in Nat
    BY PlaceNext, Facts, BankAssumption DEF BInv, Lanes
  <1> QED
    BY <1>1, PlaceKept

LEMMA TuneStep ==
  ASSUME BInv, BInv', NodesSoundAsSet', [Next]_vars, NEW q \in Loaded'
  PROVE  InTune(q)' \/ Excused(q)
  <1>1. ASSUME UNCHANGED <<tracks, desc, tables>> PROVE InTune(q)' \/ Excused(q)
    BY <1>1, QuietTune
  <1>2. ASSUME NEW i \in InUse, NEW v \in {0, 1},
               \/ EditBody(i, v) \/ SetInstrument(i, v) \/ SetPolyphony(i, v)
               \/ \E s \in 1..Slots : SetEffect(i, s, v)
        PROVE  UNCHANGED <<tracks, desc, tables>>
    BY <1>2 DEF EditBody, SetInstrument, SetPolyphony, SetEffect, trackVars, graphVars
  <1>3. ASSUME NEW i \in InUse, NEW s \in 1..Slots, NEW selection \in 0..(NumTracks - 1),
               SelectSidechain(i, s, selection)
        PROVE  UNCHANGED <<tracks, desc, tables>>
    BY <1>3 DEF SelectSidechain, trackVars
  <1>4. ASSUME NEW p \in DOMAIN bank, SwitchPattern(p) PROVE UNCHANGED <<tracks, desc, tables>>
    BY <1>4 DEF SwitchPattern, trackVars
  <1>5. ASSUME ClonePattern \/ \E i \in InUse : PropagateTrack(i)
        PROVE  UNCHANGED <<tracks, desc, tables>>
    BY <1>5 DEF ClonePattern, PropagateTrack, trackVars, graphVars
  <1>6. ASSUME DeletePattern \/ UNCHANGED vars PROVE UNCHANGED <<tracks, desc, tables>>
    BY <1>6 DEF DeletePattern, vars, trackVars, graphVars
  <1>7. ASSUME NEW i \in InUse, NEW fx \in Effects, LoadEffect(i, fx)
        PROVE  InTune(q)' \/ Excused(q)
    BY <1>7, LoadTune
  <1>8. ASSUME NEW i \in InUse, NEW s \in 1..Slots, DeleteEffect(i, s)
        PROVE  InTune(q)' \/ Excused(q)
    BY <1>8, UnloadTune
  <1>9. ASSUME NEW id \in Tracks, NEW kind \in Kinds, AddTrack(id, kind)
        PROVE  InTune(q)' \/ Excused(q)
    BY <1>9, AddTune
  <1>10. ASSUME NEW i \in InUse, RemoveTrack(i) PROVE InTune(q)' \/ Excused(q)
    BY <1>10, RemoveTune
  <1> QED
    BY <1>1, <1>2, <1>3, <1>4, <1>5, <1>6, <1>7, <1>8, <1>9, <1>10 DEF Next

\* An effect of the open pattern is told what its slot says from its loading on,
\* through every edit, switch, deletion and new track, until one before it in
\* its chain is deleted; a track's deletion puts that right (copy_from,
\* rebind_live_track_runtime_after_delete, push_all_restored_defaults).
THEOREM StaysInTune == Spec => EffectsStayInTune
  <1> DEFINE Step == \A q \in Loaded' :
                       \/ InTune(q)'
                       \/ Len(tracks') >= Len(tracks) /\ \E p \in Loaded : Detuned(p, q)
  <1>1. BInv /\ BInv' /\ WInv' /\ [Next]_vars => [Step]_vars
    <2> SUFFICES ASSUME BInv, BInv', WInv', [Next]_vars, NEW q \in Loaded'
                 PROVE  \/ InTune(q)'
                        \/ Len(tracks') >= Len(tracks) /\ \E p \in Loaded : Detuned(p, q)
      OBVIOUS
    <2>1. NodesSoundAsSet'
      BY DEF WInv
    <2> QED
      BY <2>1, TuneStep DEF Excused
  <1>2. EffectsStayInTune <=> [][Step]_vars
    BY DEF EffectsStayInTune
  <1> HIDE DEF Step
  <1> QED
    BY <1>1, <1>2, BookInvariant, WiringInvariant, PTL DEF Spec
=============================================================================
