----------------------------- MODULE PatternBank -----------------------------
(***************************************************************************)
(* Patterns and tracks as the program keeps them: the live lanes that the  *)
(* scheduler plays, one per track index, and a bank with one snapshot per  *)
(* pattern (src/sequencer/state.rs).  The open pattern lives in the lanes  *)
(* and its snapshot is stale until it is captured; the others are only in  *)
(* the bank.  Deleting a track moves every later lane down by one in all   *)
(* of them, loading or deleting an effect changes a slot in all of them,   *)
(* and the controller keeps the audio graph in step: which track's output  *)
(* is wired into which effect, and what each effect was last told          *)
(* (src/ui/graph.rs, src/ui/effects.rs, src/ui/projects.rs).               *)
(*                                                                         *)
(* Every operation runs on the UI thread from its start to its end.  What  *)
(* a lane plays (steps, track parameters, chords, time base locks) is one  *)
(* value, and so are an instrument's parameters; an effect has one         *)
(* parameter, which for the effect that ducks is the track it listens to.  *)
(* One track parameter is apart: max_polyphony is captured and never       *)
(* restored, so the snapshots' copy of it is never read and it belongs to  *)
(* the lane, whatever track and pattern come into it.                      *)
(* Indices count from 1.                                                   *)
(***************************************************************************)
EXTENDS Integers, FiniteSets, Sequences, SequencesExt, Functions

CONSTANTS
    Tracks,     \* identities of tracks (of their graph nodes)
    MaxTracks,  \* MAX_TRACKS
    Slots,      \* MAX_CUSTOM_FX
    MaxPatterns,\* bound: patterns in the bank
    Setups      \* the tracks it starts with, and which operations it follows

Duck == "duck"                  \* an effect with a sidechain parameter
Gain == "gain"                  \* one with a parameter of its node
Effects == {Duck, Gain}
NoFx == "none"
NoNode == <<>>
NoTrack == 0

Lanes == 1..MaxTracks
Kinds == {"sampler", "custom"}
Nodes == Tracks \X Effects
Operations == {"body", "instrument", "effect", "sidechain", "polyphony", "switch", "clone",
               "tear", "propagate", "add", "remove", "load", "unload"}

ASSUME BankAssumption ==
    /\ MaxTracks \in Nat \ {0} /\ Slots \in Nat \ {0} /\ MaxPatterns \in Nat \ {0}
    /\ Tracks \cap {0, 1} = {}    \* a track is no setting of an effect
    /\ \A s \in Setups : /\ s.kinds \in Seq(Kinds) /\ Len(s.kinds) \in Lanes
                         /\ s.fx \in [1..Slots -> Effects \cup {NoFx}]
                         /\ \A j, k \in 1..Slots : s.fx[j] = s.fx[k] => j = k \/ s.fx[j] = NoFx
                         /\ \A j, k \in 1..Slots : j < k /\ s.fx[k] # NoFx => s.fx[j] # NoFx
                         /\ s.names \in Seq(Tracks) /\ Len(s.names) = Len(s.kinds)
                         /\ IsInjective(s.names)
                         /\ s.ops \in Nat /\ s.allow \subseteq Operations

VARIABLES
    setup, ops,     \* one of Setups; how many operations are left
    tracks,         \* the controller's track vectors: a sequence of [id, kind]
    desc,           \* effect_descriptors: lane -> slot -> effect
    live,           \* the live lanes
    poly,           \* their max_polyphony, 0 for that of a cleared lane
    tables,         \* param_node_indices of the live slots: whose parameters they address
    bank, cur,      \* pattern_bank, current_pattern
    bind,           \* the runtime's track bindings (voices, pan, delay, send): lane -> track
    wires,          \* sidechain edges of the graph: <<track, effect node>>
    heard           \* the last value each effect node was sent

stateVars == <<live, poly, bank, cur>>
graphVars == <<tables, wires, heard>>
trackVars == <<tracks, bind>>
vars == <<setup, ops, trackVars, desc, stateVars, graphVars>>

NumTracks == Len(tracks)
InUse == 1..NumTracks

(***************************************************************************)
(* Slots and lanes.                                                        *)
(***************************************************************************)
Default == [fx \in Effects |-> IF fx = Gain THEN 1 ELSE 0]
InstrumentDefault == 1

EmptySlot == [node |-> NoNode, np |-> 0, val |-> 0]
EmptyInstrument == [np |-> 0, val |-> 0]
BlankLane == [body |-> 0, inst |-> EmptyInstrument, fx |-> [s \in 1..Slots |-> EmptySlot]]

\* EffectSlotSnapshot: a snapshot keeps as many defaults as the slot has
\* parameters, and restoring one leaves the others of the slot as they are.
Captured(slot) == [slot EXCEPT !.val = IF slot.np = 0 THEN 0 ELSE @]
Restored(slot, snap) == [snap EXCEPT !.val = IF snap.np = 0 THEN slot.val ELSE @]
Synced(slot, node, default) ==
    [node |-> node, np |-> 1, val |-> IF slot.np = 0 THEN default ELSE slot.val]

CapturedLane(lane) == [lane EXCEPT !.inst = Captured(@),
                                   !.fx = [s \in 1..Slots |-> Captured(@[s])]]
RestoredLane(lane, snap) ==
    [body |-> snap.body,
     inst |-> Restored(lane.inst, snap.inst),
     fx   |-> [s \in 1..Slots |-> Restored(lane.fx[s], snap.fx[s])]]

Capture == [i \in InUse |-> CapturedLane(live[i])]
Restore(snap) ==
    [i \in Lanes |-> IF i \in DOMAIN snap THEN RestoredLane(live[i], snap[i]) ELSE live[i]]

\* A vector of slots, or of descriptors, without its s-th; the last is cleared.
Closed(chain, s, empty) ==
    [k \in 1..Slots |-> IF k = Slots THEN empty ELSE IF k < s THEN chain[k] ELSE chain[k + 1]]

(***************************************************************************)
(* The sidechain parameter of an effect counts the tracks other than its   *)
(* own; 0 is off.                                                          *)
(***************************************************************************)
Others(owner, upto) == (1..upto) \ {owner}

SidechainSelectionIndex(owner, source, total) ==
    IF source \in Others(owner, total) THEN Cardinality(Others(owner, source)) ELSE 0

SidechainSourceTrack(owner, selection, total) ==
    LET matches == {t \in Others(owner, total) : Cardinality(Others(owner, t)) = selection}
    IN  IF selection = 0 \/ matches = {} THEN NoTrack ELSE CHOOSE t \in matches : TRUE

MovedDown(index, deleted) == IF index > deleted THEN index - 1 ELSE index

\* Mutant of RemapSelection: the owner's index is that of before the deletion.
RemapForOldOwner(owner, selection, deleted, total) ==
    LET source == SidechainSourceTrack(owner, selection, total)
    IN  IF source \in {NoTrack, deleted} THEN 0
        ELSE SidechainSelectionIndex(owner, MovedDown(source, deleted), total - 1)

RemapSelection(owner, selection, deleted, total) ==
    LET source == SidechainSourceTrack(owner, selection, total)
    IN  IF source \in {NoTrack, deleted} THEN 0
        ELSE SidechainSelectionIndex(MovedDown(owner, deleted), MovedDown(source, deleted), total - 1)

RemapSnapshot(snap, deleted) ==
    LET Remapped(i, slot, fx) ==
            IF i # deleted /\ fx = Duck /\ slot.np > 0
            THEN [slot EXCEPT !.val = RemapSelection(i, @, deleted, NumTracks)]
            ELSE slot
    IN  [i \in DOMAIN snap |->
            [snap[i] EXCEPT !.fx = [s \in 1..Slots |-> Remapped(i, @[s], desc[i][s])]]]

(***************************************************************************)
(* The graph.  apply_effect_sidechain_selection unwires the source of the  *)
(* selection it finds in the slot and wires that of the new one.           *)
(***************************************************************************)
Loaded == {p \in InUse \X (1..Slots) : live[p[1]].fx[p[2]].node # NoNode}
SlotAt(p) == live[p[1]].fx[p[2]]
DescAt(p) == desc[p[1]][p[2]]

Edge(i, selection, node) ==
    LET source == SidechainSourceTrack(i, selection, NumTracks)
    IN  IF source = NoTrack THEN {} ELSE {<<tracks[source].id, node>>}

ApplySelection(i, s, selection) ==
    LET node == live[i].fx[s].node
    IN  wires' = (wires \ Edge(i, live[i].fx[s].val, node)) \cup Edge(i, selection, node)

\* push_all_restored_defaults runs when the slots are already restored, so the
\* selection it unwires is the one it wires again.  A value sent through another
\* effect's table reaches another parameter.
Selected ==
    UNION {Edge(p[1], SlotAt(p).val, SlotAt(p).node) :
               p \in {q \in Loaded : DescAt(q) = Duck /\ SlotAt(q).np > 0}}
Reached == {p \in Loaded : DescAt(p) = Gain /\ tables[p[1]][p[2]] = Gain /\ SlotAt(p).np > 0}
Told == {<<SlotAt(p).node, SlotAt(p).val>> : p \in Reached}

\* Mutant of PushAllRestoredDefaults: it sends parameters and rewires nothing.
PushParamsOnly(graph, told) == wires' = graph /\ heard' = told

PushAllRestoredDefaults(graph, told) ==
    /\ wires' = graph \cup Selected'
    /\ LET sent == Told'
       IN  heard' = [n \in Nodes |-> IF \E v \in {0, 1} : <<n, v>> \in sent
                                     THEN CHOOSE v \in {0, 1} : <<n, v>> \in sent
                                     ELSE told[n]]

(***************************************************************************)
(* Edits of the open pattern.                                              *)
(***************************************************************************)
Spend(op) == op \in setup.allow /\ ops > 0 /\ ops' = ops - 1 /\ UNCHANGED setup

EditBody(i, v) ==
    /\ Spend("body")
    /\ live' = [live EXCEPT ![i].body = v]
    /\ UNCHANGED <<trackVars, desc, poly, bank, cur, graphVars>>

SetInstrument(i, v) ==
    /\ Spend("instrument")
    /\ live' = [live EXCEPT ![i].inst.val = v]
    /\ UNCHANGED <<trackVars, desc, poly, bank, cur, graphVars>>

SetEffect(i, s, v) ==
    /\ Spend("effect") /\ desc[i][s] = Gain
    /\ live' = [live EXCEPT ![i].fx[s].val = v]
    /\ heard' = IF tables[i][s] = Gain THEN [heard EXCEPT ![live[i].fx[s].node] = v] ELSE heard
    /\ UNCHANGED <<trackVars, desc, poly, bank, cur, tables, wires>>

SelectSidechain(i, s, selection) ==
    /\ Spend("sidechain") /\ desc[i][s] = Duck
    /\ ApplySelection(i, s, selection)
    /\ live' = [live EXCEPT ![i].fx[s].val = selection]
    /\ UNCHANGED <<trackVars, desc, poly, bank, cur, tables, heard>>

SetPolyphony(i, v) ==
    /\ Spend("polyphony")
    /\ poly' = [poly EXCEPT ![i] = v]
    /\ UNCHANGED <<trackVars, desc, live, bank, cur, graphVars>>

(***************************************************************************)
(* Patterns.                                                               *)
(***************************************************************************)
\* Mutant of SwitchPattern: the effects are not told what was restored.
SwitchSilently(p) ==
    /\ Spend("switch") /\ p # cur
    /\ bank' = [bank EXCEPT ![cur] = Capture]
    /\ live' = Restore(bank[p])
    /\ cur' = p
    /\ UNCHANGED <<trackVars, desc, poly, graphVars>>

SwitchPattern(p) ==
    /\ Spend("switch") /\ p # cur
    /\ bank' = [bank EXCEPT ![cur] = Capture]
    /\ live' = Restore(bank[p])
    /\ cur' = p
    /\ UNCHANGED <<trackVars, desc, poly, tables>>
    /\ PushAllRestoredDefaults(wires, heard)

ClonePattern ==
    /\ Spend("clone") /\ Len(bank) < MaxPatterns
    /\ bank' = Append([bank EXCEPT ![cur] = Capture], Capture)
    /\ cur' = Len(bank) + 1
    /\ UNCHANGED <<trackVars, desc, poly, live, graphVars>>

DeletePattern ==
    /\ Spend("tear") /\ Len(bank) > 1
    /\ bank' = RemoveAt(bank, cur)
    /\ cur' = IF cur = Len(bank) THEN cur - 1 ELSE cur
    /\ live' = Restore(bank'[cur'])
    /\ UNCHANGED <<trackVars, desc, poly, tables>>
    /\ PushAllRestoredDefaults(wires, heard)

PropagateTrack(i) ==
    /\ Spend("propagate") /\ Len(bank) > 1
    /\ bank' = [p \in DOMAIN bank |-> IF p = cur THEN Capture ELSE [bank[p] EXCEPT ![i] = Capture[i]]]
    /\ UNCHANGED <<trackVars, desc, poly, live, cur, graphVars>>

(***************************************************************************)
(* Effects.  A track takes each effect once, into its first free slot.     *)
(***************************************************************************)
LoadEffect(i, fx) ==
    LET node == <<tracks[i].id, fx>>
        free == {s \in 1..Slots : live[i].fx[s].node = NoNode}
    IN  /\ Spend("load") /\ free # {} /\ \A s \in 1..Slots : desc[i][s] # fx
        /\ UNCHANGED <<trackVars, poly, cur, wires>>
        /\ LET s == CHOOSE k \in free : \A m \in free : k <= m
           IN  /\ desc' = [desc EXCEPT ![i][s] = fx]
               /\ live' = [live EXCEPT ![i].fx[s] = [node |-> node, np |-> 1, val |-> Default[fx]]]
               /\ tables' = [tables EXCEPT ![i][s] = fx]
               /\ bank' = [p \in DOMAIN bank |->
                              IF p = cur THEN Capture'
                              ELSE [bank[p] EXCEPT ![i].fx[s] = Synced(@, node, Default[fx])]]
        /\ heard' = [heard EXCEPT ![node] = Default[fx]]

\* Mutant of DeleteEffect: the slots of the other patterns stay.
DeleteEffectHere(i, s) ==
    LET node == live[i].fx[s].node
    IN  /\ Spend("unload") /\ node # NoNode
        /\ UNCHANGED <<trackVars, poly, cur, tables>>
        /\ desc' = [desc EXCEPT ![i] = Closed(@, s, NoFx)]
        /\ live' = [live EXCEPT ![i].fx = Closed(@, s, EmptySlot)]
        /\ bank' = [bank EXCEPT ![cur] = Capture']
        /\ PushAllRestoredDefaults({w \in wires : w[2] # node}, [heard EXCEPT ![node] = 0])

\* copy_from captures the next slot and restores it into this one, which takes
\* its node, values and locks and leaves the table of indices.
DeleteEffect(i, s) ==
    LET node == live[i].fx[s].node
        following(k) == Captured(live[i].fx[k + 1])
    IN  /\ Spend("unload") /\ node # NoNode
        /\ UNCHANGED <<trackVars, poly, cur>>
        /\ desc' = [desc EXCEPT ![i] = Closed(@, s, NoFx)]
        /\ live' = [live EXCEPT ![i].fx = [k \in 1..Slots |->
                        IF k = Slots THEN EmptySlot
                        ELSE IF k < s THEN @[k] ELSE Restored(@[k], following(k))]]
        /\ tables' = [tables EXCEPT ![i][Slots] = NoFx]
        /\ bank' = [p \in DOMAIN bank |->
                       IF p = cur THEN Capture'
                       ELSE [bank[p] EXCEPT ![i].fx = Closed(@, s, EmptySlot)]]
        /\ PushAllRestoredDefaults({w \in wires : w[2] # node}, [heard EXCEPT ![node] = 0])

(***************************************************************************)
(* Tracks.                                                                 *)
(***************************************************************************)
\* Mutant of AddTrack: only the open pattern's snapshot is extended.
AddTrackHere(id, kind) ==
    LET i == NumTracks + 1
    IN  /\ Spend("add") /\ i \in Lanes /\ id \notin {t.id : t \in Range(tracks)}
        /\ tracks' = Append(tracks, [id |-> id, kind |-> kind])
        /\ bind' = [bind EXCEPT ![i] = id]
        /\ live' = [live EXCEPT ![i].inst = [np |-> 1, val |-> InstrumentDefault]]
        /\ bank' = [bank EXCEPT ![cur] = Append(@, BlankLane)]
        /\ UNCHANGED <<cur, poly, desc, graphVars>>

\* In the bank a custom instrument's slot is brought in step with its
\* descriptor; a sampler's stays empty, also in the patterns to come back to.
AddTrack(id, kind) ==
    LET i == NumTracks + 1
        extended == [BlankLane EXCEPT !.inst = IF kind = "custom"
                                               THEN [np |-> 1, val |-> InstrumentDefault] ELSE @]
    IN  /\ Spend("add") /\ i \in Lanes /\ id \notin {t.id : t \in Range(tracks)}
        /\ tracks' = Append(tracks, [id |-> id, kind |-> kind])
        /\ bind' = [bind EXCEPT ![i] = id]
        /\ live' = [live EXCEPT ![i].inst = [np |-> 1, val |-> InstrumentDefault]]
        /\ desc' = [desc EXCEPT ![i] = [s \in 1..Slots |-> NoFx]]
        /\ bank' = [p \in DOMAIN bank |-> Append(bank[p], extended)]
        /\ UNCHANGED <<cur, poly, graphVars>>

\* Mutant of ShiftedBindings: the shift starts one lane too late.
ShiftedTooLate(deleted) ==
    [i \in Lanes |-> IF i = NumTracks THEN NoTrack
                     ELSE IF i \in (deleted + 1)..NumTracks THEN bind[i + 1] ELSE bind[i]]

\* shift_runtime_track_bindings_left.
ShiftedBindings(deleted) ==
    [i \in Lanes |-> IF i = NumTracks THEN NoTrack
                     ELSE IF i \in deleted..NumTracks THEN bind[i + 1] ELSE bind[i]]

Without(vector, deleted, last) ==
    [i \in Lanes |-> IF i >= NumTracks THEN last
                     ELSE IF i < deleted THEN vector[i] ELSE vector[i + 1]]

\* The lanes after a track is taken out of the snapshot: clear_live_track_lane
\* clears the one that is left over, its max_polyphony included.
Compacted(snap) == [Restore(snap) EXCEPT ![NumTracks] = BlankLane]

RemoveTrack(deleted) ==
    LET id == tracks[deleted].id
        Removed(snap) == RemoveAt(RemapSnapshot(snap, deleted), deleted)
        current == Removed(Capture)
    IN  /\ Spend("remove") /\ NumTracks > 1
        /\ bank' = [p \in DOMAIN bank |-> IF p = cur THEN current ELSE Removed(bank[p])]
        /\ live' = Compacted(current)
        /\ poly' = [poly EXCEPT ![NumTracks] = 0]
        /\ bind' = ShiftedBindings(deleted)
        /\ tracks' = RemoveAt(tracks, deleted)
        /\ desc' = Without(desc, deleted, [s \in 1..Slots |-> NoFx])
        \* rebind_live_track_runtime_after_delete
        /\ tables' = [i \in Lanes |-> [s \in 1..Slots |->
                         IF i >= NumTracks \/ desc'[i][s] # NoFx THEN desc'[i][s] ELSE tables[i][s]]]
        /\ UNCHANGED cur
        /\ PushAllRestoredDefaults({w \in wires : w[1] # id /\ w[2][1] # id}, heard)

(***************************************************************************)
(* The program starts with the tracks of a setup, every one of which has   *)
(* the effects fx of the setup.                                            *)
(***************************************************************************)
StartSlot(id, fx) ==
    IF fx = NoFx THEN EmptySlot ELSE [node |-> <<id, fx>>, np |-> 1, val |-> Default[fx]]

Init ==
    /\ setup \in Setups
    /\ ops = setup.ops
    /\ tracks = [i \in DOMAIN setup.kinds |-> [id |-> setup.names[i], kind |-> setup.kinds[i]]]
    /\ bind = [i \in Lanes |-> IF i \in InUse THEN tracks[i].id ELSE NoTrack]
    /\ desc = [i \in Lanes |-> IF i \in InUse THEN setup.fx ELSE [s \in 1..Slots |-> NoFx]]
    /\ tables = desc
    /\ live = [i \in Lanes |->
                  IF i \notin InUse THEN BlankLane
                  ELSE [body |-> 0, inst |-> [np |-> 1, val |-> InstrumentDefault],
                        fx |-> [s \in 1..Slots |-> StartSlot(tracks[i].id, setup.fx[s])]]]
    /\ poly = [i \in Lanes |-> 0]
    /\ cur = 1
    /\ bank = <<Capture>>
    /\ wires = {}
    /\ heard = [n \in Nodes |-> Default[n[2]]]

Next ==
    \/ \E i \in InUse, v \in {0, 1} : \/ EditBody(i, v)
                                      \/ SetInstrument(i, v)
                                      \/ SetPolyphony(i, v)
                                      \/ \E s \in 1..Slots : SetEffect(i, s, v)
    \/ \E i \in InUse, s \in 1..Slots, selection \in 0..(NumTracks - 1) :
           SelectSidechain(i, s, selection)
    \/ \E p \in DOMAIN bank : SwitchPattern(p)
    \/ ClonePattern
    \/ DeletePattern
    \/ \E i \in InUse : PropagateTrack(i)
    \/ \E i \in InUse, fx \in Effects : LoadEffect(i, fx)
    \/ \E i \in InUse, s \in 1..Slots : DeleteEffect(i, s)
    \/ \E id \in Tracks, kind \in Kinds : AddTrack(id, kind)
    \/ \E i \in InUse : RemoveTrack(i)

Spec == Init /\ [][Next]_vars

(***************************************************************************)
(* Properties.                                                             *)
(***************************************************************************)
\* Every variable has its type; in the bank every snapshot has as many lanes as
\* there are tracks and cur is one of its patterns.
SlotSet == [node : Nodes \cup {NoNode}, np : {0, 1}, val : 0..MaxTracks]
LaneSet == [body : {0, 1}, inst : [np : {0, 1}, val : {0, 1}], fx : [1..Slots -> SlotSet]]
Tables == [Lanes -> [1..Slots -> Effects \cup {NoFx}]]

TypeOK ==
    /\ setup \in Setups /\ ops \in 0..setup.ops
    /\ tracks \in Seq([id : Tracks, kind : Kinds]) /\ NumTracks \in Lanes
    /\ desc \in Tables /\ tables \in Tables
    /\ live \in [Lanes -> LaneSet] /\ poly \in [Lanes -> {0, 1}]
    /\ bank \in Seq([InUse -> LaneSet])
    /\ Len(bank) \in 1..MaxPatterns /\ cur \in DOMAIN bank
    /\ bind \in [Lanes -> Tracks \cup {NoTrack}]
    /\ wires \subseteq (Tracks \X Nodes)
    /\ heard \in [Nodes -> {0, 1}]

\* Whatever tracks were added and deleted, the bindings the audio callback uses
\* for a lane are those of the track that is in it, and an unused lane has none
\* (shift_runtime_track_bindings_left).
BindingsFollow ==
    \A i \in Lanes : bind[i] = IF i \in InUse THEN tracks[i].id ELSE NoTrack

\* In every pattern, open or not, slot s of track i names the effect node that
\* is in that place of that track's chain in the graph, and an empty place none:
\* loading or deleting an effect and deleting a track move the slots of all of
\* the patterns together.
SlotsFollowGraph ==
    \A p \in DOMAIN bank, i \in InUse, s \in 1..Slots :
        LET slot == IF p = cur THEN live[i].fx[s] ELSE bank[p][i].fx[s]
        IN  slot.node = IF desc[i][s] = NoFx THEN NoNode ELSE <<tracks[i].id, desc[i][s]>>

\* The track that an effect of the open pattern is set to listen to is among
\* those wired into it, however the selection came about: chosen, restored with
\* a pattern, or renumbered because a track was deleted.  A track that it was
\* set to listen to before may be left wired as well: push_all_restored_defaults
\* finds the new selection in the slot and unwires nothing.
SelectionIsWired == Selected \subseteq wires

\* An effect is in tune when its slot in the open pattern addresses it by its own
\* parameters and it was last told what the slot says.
InTune(p) ==
    /\ tables[p[1]][p[2]] = DescAt(p)
    /\ DescAt(p) = Gain => heard[SlotAt(p).node] = SlotAt(p).val

\* The places of the chains from which an effect may come out of tune: those of
\* effects that were so before, and those it had to leave.
Detuned(p, q) == SlotAt(p).node = SlotAt(q)'.node /\ (p[2] # q[2] \/ ~InTune(p))

\* "This moves defaults and p-locks along with the node binding so slot-indexed
\* automation continues to refer to the same audible effect" (copy_from,
\* src/effects.rs).  The table of indices is not moved, so this is true of
\* every effect but one that moved up its chain because one before it was
\* deleted: from its loading on, such as kept its place are told what every
\* edit, switch, deletion and new track makes of their slot.  Deleting a track
\* puts all of the others in tune again.
EffectsStayInTune ==
    [][\A q \in Loaded' :
           \/ InTune(q)'
           \/ Len(tracks') >= Len(tracks) /\ \E p \in Loaded : Detuned(p, q)]_vars

\* PatternBook's page of a pattern.  A sampler's parameters are left out: the
\* snapshots of a sampler added later do not keep them (see AddTrack).
Setting(i, s, slot) ==
    IF desc[i][s] # Duck THEN slot.val
    ELSE LET source == SidechainSourceTrack(i, slot.val, NumTracks)
         IN  IF source = NoTrack THEN NoTrack ELSE tracks[source].id

Entry(i, lane) ==
    [body  |-> lane.body,
     inst  |-> IF tracks[i].kind = "custom" THEN lane.inst.val ELSE InstrumentDefault,
     chain |-> [s \in 1..Cardinality({k \in 1..Slots : desc[i][k] # NoFx}) |->
                   [fx |-> desc[i][s], set |-> Setting(i, s, lane.fx[s])]]]

Page(lanes) ==
    [id \in {t.id : t \in Range(tracks)} |->
        LET i == CHOOSE k \in InUse : tracks[k].id = id IN Entry(i, lanes[i])]

Pages == [p \in DOMAIN bank |-> Page(IF p = cur THEN live ELSE bank[p])]

Limits == [i \in InUse |-> poly[i]]

Book == INSTANCE PatternBook WITH
    FreshTrack <- [body |-> 0, inst |-> InstrumentDefault, chain |-> <<>>],
    FreshSetting <- Default,
    Off <- NoTrack,
    pages <- Pages,
    limits <- Limits

\* The lanes, snapshots and selection indices amount to the book: an edit changes
\* the open page, a switch brings back what was left, a track or an effect comes
\* and goes in every page, and an effect goes on listening to the same track.
KeepsTheBook == Book!BookSpec
=============================================================================
