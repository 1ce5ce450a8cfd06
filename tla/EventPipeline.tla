--------------------------- MODULE EventPipeline -----------------------------
(***************************************************************************)
(* How a step of a pattern becomes a sound: the UI publishes a snapshot,   *)
(* the scheduler thread computes the triggers of the next few blocks and   *)
(* pushes them with their sample times (src/scheduler.rs), the audio       *)
(* callback sorts them into a heap and dispatches them (src/audio.rs).     *)
(*                                                                         *)
(* One track is followed; all of its steps are active, it has no swing and *)
(* holds no live notes (a track that does takes no pattern triggers), and  *)
(* the events that live MIDI FX generate for other tracks are left out.    *)
(* The unit of time is the render alignment of 4 samples.  Positions are   *)
(* the clock's total_beats in that unit: the tempo is constant.            *)
(* The queue is the bounded FIFO that EventQueue implements; clear empties *)
(* it at once.  What the UI stores in one operation before it publishes is *)
(* stored in one step.                                                     *)
(***************************************************************************)
EXTENDS Integers, Sequences, FiniteSets, SequencesExt

CONSTANTS Chunk,      \* scheduler_block_size
          Block,      \* frames of a callback
          StepLen,    \* length of a step
          NumSteps,   \* steps of the pattern
          Setups      \* under which bounds it runs

\* A setup: how often the UI does what, how many events the queue holds (4095
\* in the code), a bound on rendered, and whether the scheduler is never a whole
\* horizon late.
ASSUME SizesAssumption ==
  /\ {Chunk, Block, StepLen, NumSteps} \subseteq Nat \ {0}
  /\ Setups \subseteq [ops : [{"toggle", "switch", "delete", "live"} -> Nat],
                       room : Nat \ {0}, time : Nat \ {0}, punctual : BOOLEAN]

VARIABLES
  setup,                   \* one of Setups
  \* SequencerState, written by the UI
  playing, epoch, topo,    \* transport: playing, pattern_epoch, topology_epoch
  tracks,                  \* num_tracks
  edit,                    \* topology edit: kind, request, ready and applied id
  published,               \* the published scheduler snapshot
  live,                    \* live MIDI FX notes are held
  ui,                      \* where the UI is in an operation
  left,                    \* what is left of the operations of the setup
  \* the scheduler thread
  spc, seen,               \* where it is in its loop; what it read
  clock, until,            \* SnapshotSequencerClock, scheduled_until_sample
  last,                    \* last_playing, last_..._epoch, last_live_midi_fx_active
  \* the audio callback
  apc, got,                \* where it is; what it has loaded
  cur, rendered,           \* current_sample; rendered_samples
  queue, heap,             \* scheduled_events, events_heap (in seq order)
  known,                   \* last_num_tracks, last_topology_epoch, last_playing
  history                  \* history: the events dispatched

uiVars == <<playing, epoch, topo, tracks, edit, published, live, ui, left>>
schedVars == <<spc, seen, clock, until, last>>
audioVars == <<apc, got, cur, rendered, heap, known, history>>
vars == <<setup, uiVars, schedVars, audioVars, queue>>

Snapshot == [playing |-> playing, epoch |-> epoch, topo |-> topo]
NoEdit == [on |-> FALSE, request |-> 0, ready |-> 0, applied |-> 0]

Init == /\ setup \in Setups
        /\ playing = FALSE /\ epoch = 0 /\ topo = 0
        /\ tracks \in 1 .. setup.ops["delete"] + 1
        /\ edit = NoEdit
        /\ published = Snapshot
        /\ live = FALSE
        /\ ui = "idle"
        /\ left = setup.ops
        /\ spc = "read"
        /\ seen = [snap |-> Snapshot, rendered |-> 0, edit |-> NoEdit]
        /\ clock = [total |-> 0, step |-> -1, started |-> FALSE]
        /\ until = 0
        /\ last = [playing |-> FALSE, epoch |-> -1, topo |-> -1, live |-> FALSE]
        /\ apc = "idle" /\ cur = 0 /\ rendered = 0
        /\ got = [playing |-> FALSE, epoch |-> 0]
        /\ queue = << >> /\ heap = << >>
        /\ known = [tracks |-> tracks, topo |-> topo, playing |-> FALSE]
        /\ history = << >>

-----------------------------------------------------------------------------
(* The UI thread *)

May(what) == /\ left[what] > 0
             /\ left' = [left EXCEPT ![what] = @ - 1]

UiElse == UNCHANGED <<setup, schedVars, audioVars, queue>>

\* toggle_play, up to the publication of the snapshot.
TogglePlay == /\ ui = "idle" /\ May("toggle")
              /\ playing' = ~ playing
              /\ epoch' = epoch + 1
              /\ ui' = "publish"
              /\ UNCHANGED <<topo, tracks, edit, published, live>> /\ UiElse

\* switch_pattern, clone_pattern and delete_pattern: the same for the transport.
SwitchPattern == /\ ui = "idle" /\ May("switch")
                 /\ epoch' = epoch + 1
                 /\ ui' = "publish"
                 /\ UNCHANGED <<playing, topo, tracks, edit, published, live>> /\ UiElse

\* publish_scheduler_snapshot; after remove_track the edit has to be completed.
Publish == /\ ui \in {"publish", "publishDeletion"}
           /\ published' = Snapshot
           /\ ui' = IF ui = "publish" THEN "idle" ELSE "complete"
           /\ UNCHANGED <<playing, epoch, topo, tracks, edit, live, left>> /\ UiElse

\* A live note is pressed or released on another track.
LiveNote == /\ ui = "idle" /\ May("live")
            /\ live' = ~ live
            /\ UNCHANGED <<playing, epoch, topo, tracks, edit, published, ui>> /\ UiElse

\* request_track_delete_boundary
RequestDelete == /\ ui = "idle" /\ playing /\ May("delete")
                 /\ edit' = [edit EXCEPT !.request = @ + 1, !.on = TRUE]
                 /\ ui' = "wait"
                 /\ UNCHANGED <<playing, epoch, topo, tracks, published, live>> /\ UiElse

\* The boundary is ready: remove_track, up to its publication.
DeleteTrack == /\ ui = "wait" /\ edit.ready >= edit.request
               /\ tracks > 1
               /\ tracks' = tracks - 1
               /\ epoch' = epoch + 1
               /\ ui' = "publishDeletion"
               /\ UNCHANGED <<playing, topo, edit, published, live, left>> /\ UiElse

\* The deletion is given up after 250 ms, or refused: one track has to stay.
DeletionFails == /\ ui = "wait"
                 /\ edit.ready < edit.request \/ tracks = 1
                 /\ ui' = "complete"
                 /\ UNCHANGED <<playing, epoch, topo, tracks, edit, published, live, left>>
                 /\ UiElse

\* complete_topology_edit: the new epoch and the applied id, then the kind.
ApplyEdit == /\ ui = "complete"
             /\ topo' = topo + 1
             /\ edit' = [edit EXCEPT !.applied = @ + 1]
             /\ ui' = "unmark"
             /\ UNCHANGED <<playing, epoch, tracks, published, live, left>> /\ UiElse

UnmarkEdit == /\ ui = "unmark"
              /\ edit' = [edit EXCEPT !.on = FALSE]
              /\ ui' = "publish"
              /\ UNCHANGED <<playing, epoch, topo, tracks, published, live, left>> /\ UiElse

UI == \/ TogglePlay \/ SwitchPattern \/ Publish \/ LiveNote \/ RequestDelete
      \/ DeleteTrack \/ DeletionFails \/ ApplyEdit \/ UnmarkEdit

-----------------------------------------------------------------------------
(* The clock *)

\* The members of the finite set S, from the least in the total order R on.
InOrder(S, R) ==
  [k \in 1 .. Cardinality(S) |->
     CHOOSE x \in S : Cardinality({y \in S : <<y, x>> \in R}) = k]

Cycle == NumSteps * StepLen
StepAt(position) == (position % Cycle) \div StepLen

ResetClock == [total |-> 0, step |-> -1, started |-> FALSE]

\* seek_to_rendered_position: back by what is scheduled but not rendered.
Sought(c, ahead) ==
  LET p == IF ahead < 0 THEN c.total ELSE IF ahead > c.total THEN 0 ELSE c.total - ahead
  IN [total |-> p, step |-> StepAt(p), started |-> TRUE]

\* process_chunk: the clock is moved on before each unit's step is derived.
Started(c) == IF c.started THEN c ELSE [ResetClock EXCEPT !.started = TRUE]
StepBefore(c, p) == IF p = c.total + 1 THEN c.step ELSE StepAt(p - 1)
Positions(c) == c.total + 1 .. c.total + Chunk
Upwards(P) == InOrder(P, {pq \in P \X P : pq[1] <= pq[2]})

\* Mutant of Triggers: the step of the last chunk is forgotten.
TriggersForget(c) == Upwards({p \in Positions(c) : p = c.total + 1 \/ StepAt(p) # StepBefore(c, p)})

Triggers(c) == Upwards({p \in Positions(c) : StepAt(p) # StepBefore(c, p)})

\* lookahead_target_samples
Lookahead == 4 * Chunk

\* Bound: the clock may run ahead of scheduled_until_sample without end (see
\* FillOverflows, and PlanPlaying during an edit); beyond MaxTotal it is set back
\* by a cycle, which no step index tells.
MaxTotal == setup.time + Lookahead + Chunk
Bounded(total) == IF total > MaxTotal /\ total > Cycle THEN total - Cycle ELSE total

Advanced(c) == [c EXCEPT !.total = Bounded(@ + Chunk), !.step = StepAt(c.total + Chunk)]

-----------------------------------------------------------------------------
(* The scheduler thread: spawn_scheduler_thread *)

SchedElse == UNCHANGED <<setup, playing, epoch, topo, tracks, published, live, ui, left, audioVars>>

ReadSnapshot ==
  /\ spc = "read"
  /\ seen' = [seen EXCEPT !.snap = published]
  /\ spc' = "load"
  /\ UNCHANGED <<edit, clock, until, last, queue>> /\ SchedElse

\* The ids of the edit are loaded before its kind.
LoadRendered ==
  /\ spc = "load"
  /\ seen' = [seen EXCEPT !.rendered = rendered, !.edit = [edit EXCEPT !.on = FALSE]]
  /\ spc' = "kind"
  /\ UNCHANGED <<edit, clock, until, last, queue>> /\ SchedElse

LoadKind ==
  /\ spc = "kind"
  /\ seen' = [seen EXCEPT !.edit.on = edit.on]
  /\ spc' = "plan"
  /\ UNCHANGED <<edit, clock, until, last, queue>> /\ SchedElse

LiveChanges == live # last.live
SnapshotChanges == last.epoch # seen.snap.epoch \/ last.topo # seen.snap.topo

\* After the first branch of the loop, which a press or release of live notes takes.
LiveUntil == IF LiveChanges THEN seen.rendered ELSE until

\* Mutant of LiveClock: the clock seeks from the new scheduled_until_sample.
LiveClockLate == IF LiveChanges /\ seen.snap.playing THEN Sought(clock, LiveUntil - seen.rendered)
                 ELSE clock

LiveClock == IF LiveChanges /\ seen.snap.playing THEN Sought(clock, until - seen.rendered)
             ELSE clock

PlanStopped ==
  /\ spc = "plan"
  /\ ~ seen.snap.playing
  /\ queue' = IF last.playing \/ SnapshotChanges \/ LiveChanges THEN << >> ELSE queue
  /\ clock' = ResetClock
  /\ until' = seen.rendered
  /\ last' = [playing |-> FALSE, epoch |-> seen.snap.epoch, topo |-> seen.snap.topo,
              live |-> live]
  /\ spc' = "read"
  /\ UNCHANGED <<edit, seen>> /\ SchedElse

\* Mutant of Frozen: scheduling resumes once the UI has been told.
FrozenOnce == seen.edit.on /\ seen.edit.ready < seen.edit.request

\* The deletion of a track is under way: nothing is scheduled, and the UI is
\* told so.
Frozen == seen.edit.on /\ seen.edit.applied < seen.edit.request
Acknowledged ==
  IF seen.edit.on /\ seen.edit.ready < seen.edit.request
    THEN [edit EXCEPT !.ready = seen.edit.request] ELSE edit

PlanFrozen ==
  /\ spc = "plan"
  /\ seen.snap.playing /\ Frozen
  /\ queue' = << >>
  /\ until' = seen.rendered
  /\ clock' = LiveClock
  /\ edit' = Acknowledged
  /\ last' = [last EXCEPT !.live = live]
  /\ spc' = "read"
  /\ UNCHANGED seen /\ SchedElse

\* A start resets the clock; a new pattern or topology replaces what is
\* scheduled but not rendered.
PlanPlaying ==
  /\ spc = "plan"
  /\ seen.snap.playing /\ ~ Frozen
  /\ LET u == IF seen.edit.on THEN seen.rendered ELSE LiveUntil
         starts == ~ last.playing
     IN /\ clock' = IF starts THEN ResetClock
                    ELSE IF SnapshotChanges THEN Sought(LiveClock, u - seen.rendered)
                    ELSE LiveClock
        /\ until' = IF starts \/ SnapshotChanges THEN seen.rendered ELSE u
        /\ queue' = IF starts \/ SnapshotChanges \/ seen.edit.on \/ LiveChanges
                      THEN << >> ELSE queue
  /\ edit' = Acknowledged
  /\ last' = [last EXCEPT !.live = live]
  /\ spc' = "fill"
  /\ UNCHANGED seen /\ SchedElse

Scheduled(c) ==
  [i \in DOMAIN Triggers(c) |->
     [time |-> until + Triggers(c)[i] - c.total - 1, pos |-> Triggers(c)[i],
      epoch |-> seen.snap.epoch, topo |-> seen.snap.topo]]

Filling == spc = "fill" /\ until < seen.rendered + Lookahead

\* Mutant of FillChunk: events are queued beyond the capacity.
FillIgnoresFull ==
  /\ Filling
  /\ queue' = queue \o Scheduled(Started(clock))
  /\ clock' = Advanced(Started(clock))
  /\ until' = until + Chunk
  /\ UNCHANGED <<edit, spc, seen, last>> /\ SchedElse

FillChunk ==
  /\ Filling
  /\ LET events == Scheduled(Started(clock)) IN
     /\ Len(queue) + Len(events) <= setup.room
     /\ queue' = queue \o events
  /\ clock' = Advanced(Started(clock))
  /\ until' = until + Chunk
  /\ UNCHANGED <<edit, spc, seen, last>> /\ SchedElse

\* The queue is full: the rest of the chunk is given up, but the clock has moved.
FillOverflows ==
  /\ Filling
  /\ LET events == Scheduled(Started(clock)) IN
     /\ Len(queue) + Len(events) > setup.room
     /\ queue' = queue \o SubSeq(events, 1, setup.room - Len(queue))
  /\ clock' = Advanced(Started(clock))
  /\ spc' = "filled"
  /\ UNCHANGED <<edit, seen, until, last>> /\ SchedElse

EndPass ==
  /\ spc \in {"fill", "filled"} /\ ~ Filling
  /\ last' = [last EXCEPT !.playing = seen.snap.playing, !.epoch = seen.snap.epoch,
                          !.topo = seen.snap.topo]
  /\ spc' = "read"
  /\ UNCHANGED <<edit, seen, clock, until, queue>> /\ SchedElse

Sched == \/ ReadSnapshot \/ LoadRendered \/ LoadKind \/ PlanStopped \/ PlanFrozen \/ PlanPlaying
         \/ FillChunk \/ FillOverflows \/ EndPass

-----------------------------------------------------------------------------
(* The audio callback: audio_callback *)

AudioElse == UNCHANGED <<setup, uiVars, schedVars>>

\* The scheduler is on time: the coming block has been scheduled, unless an edit
\* keeps it from that.
InTime == (setup.punctual /\ last.playing /\ ~ edit.on) => rendered + Block <= until

\* A change of the tracks resets the callback's state; while one is under way
\* nothing is kept.
CallbackStart ==
  /\ apc = "idle"
  /\ rendered + Block <= setup.time
  /\ InTime
  /\ LET reset == tracks # known.tracks \/ topo # known.topo IN
     /\ known' = IF reset THEN [tracks |-> tracks, topo |-> topo, playing |-> FALSE]
                 ELSE known
     /\ IF reset \/ edit.on THEN queue' = << >> /\ heap' = << >>
                            ELSE UNCHANGED <<queue, heap>>
  /\ cur' = rendered
  /\ apc' = "started"
  /\ UNCHANGED <<got, rendered, history>> /\ AudioElse

LoadPlaying ==
  /\ apc = "started"
  /\ got' = [got EXCEPT !.playing = playing]
  /\ apc' = "transport"
  /\ UNCHANGED <<cur, rendered, known, queue, heap, history>> /\ AudioElse

\* Mutant of CallbackTransport: everything is dropped on a start, not on a stop.
TransportClearsOnStart ==
  /\ apc = "transport"
  /\ IF got.playing /\ ~ known.playing THEN queue' = << >> /\ heap' = << >>
                                       ELSE UNCHANGED <<queue, heap>>
  /\ known' = [known EXCEPT !.playing = got.playing]
  /\ apc' = "turn"
  /\ UNCHANGED <<got, cur, rendered, history>> /\ AudioElse

CallbackTransport ==
  /\ apc = "transport"
  /\ IF ~ got.playing /\ known.playing THEN queue' = << >> /\ heap' = << >>
                                       ELSE UNCHANGED <<queue, heap>>
  /\ known' = [known EXCEPT !.playing = got.playing]
  /\ apc' = "turn"
  /\ UNCHANGED <<got, cur, rendered, history>> /\ AudioElse

BlockEnd == rendered + Block

\* A turn of the render loop first loads the epoch.
LoadEpoch ==
  /\ apc = "turn" /\ cur < BlockEnd
  /\ got' = [got EXCEPT !.epoch = epoch]
  /\ apc' = "render"
  /\ UNCHANGED <<cur, rendered, known, queue, heap, history>> /\ AudioElse

\* The events of s at the indices I in the order the heap pops them: by time,
\* then by arrival.
PopsBefore(s, i, j) == s[i].time < s[j].time \/ (s[i].time = s[j].time /\ i <= j)
Popped(s, I) ==
  LET order == InOrder(I, {ij \in I \X I : PopsBefore(s, ij[1], ij[2])})
  IN [k \in 1 .. Cardinality(I) |-> s[order[k]]]

\* The queue is drained into the heap, what is due is dispatched, and the time
\* up to the next event is rendered.  (A stale event behind the top of the heap
\* is dropped at once here; it would never play.)
RenderTurn ==
  /\ apc = "render"
  /\ LET all == heap \o queue
         current == {i \in DOMAIN all : all[i].epoch = got.epoch}
         due == {i \in current : all[i].time <= cur}
         rest == Popped(all, current \ due)
     IN /\ history' = history \o Popped(all, due)
        /\ heap' = rest
        /\ cur' = IF rest # << >> /\ Head(rest).time < BlockEnd THEN Head(rest).time
                  ELSE BlockEnd
  /\ queue' = << >>
  /\ apc' = "turn"
  /\ UNCHANGED <<got, rendered, known>> /\ AudioElse

CallbackEnd ==
  /\ apc = "turn" /\ cur = BlockEnd
  /\ rendered' = BlockEnd
  /\ apc' = "idle"
  /\ UNCHANGED <<got, cur, known, queue, heap, history>> /\ AudioElse

Audio == \/ CallbackStart \/ LoadPlaying \/ CallbackTransport
         \/ LoadEpoch \/ RenderTurn \/ CallbackEnd

Next == UI \/ Sched \/ Audio

Spec == Init /\ [][Next]_vars

-----------------------------------------------------------------------------
(* Properties *)

Events == [time : Nat, pos : Nat, epoch : Nat, topo : Nat]
EditType == [on : BOOLEAN, request : Nat, ready : Nat, applied : Nat]
SnapshotType == [playing : BOOLEAN, epoch : Nat, topo : Nat]

TypeOK ==
  /\ playing \in BOOLEAN /\ epoch \in Nat /\ topo \in Nat /\ tracks \in Nat \ {0}
  /\ edit \in EditType
  /\ published \in SnapshotType
  /\ live \in BOOLEAN
  /\ ui \in {"idle", "publish", "publishDeletion", "wait", "complete", "unmark"}
  /\ spc \in {"read", "load", "kind", "plan", "fill", "filled"}
  /\ seen \in [snap : SnapshotType, rendered : Nat, edit : EditType]
  /\ clock \in [total : Nat, step : -1 .. NumSteps - 1, started : BOOLEAN]
  /\ until \in Nat
  /\ last \in [playing : BOOLEAN, epoch : Int, topo : Int, live : BOOLEAN]
  /\ apc \in {"idle", "started", "transport", "turn", "render"}
  /\ got \in [playing : BOOLEAN, epoch : Nat]
  /\ cur \in Nat /\ rendered \in Nat
  /\ queue \in Seq(Events) /\ heap \in Seq(Events) /\ history \in Seq(Events)
  /\ Len(queue) <= setup.room
  /\ known \in [tracks : Nat, topo : Nat, playing : BOOLEAN]

StepIndex(e) == e.pos \div StepLen

\* Only starts, stops and switches: neither live notes nor deletions.
OnlySwitches == setup.ops["live"] + setup.ops["delete"] = 0

\* Within an epoch the steps sound in turn, none twice and none left out in between:
\* whatever chunks, callbacks, late wake-ups and starts do, two events of one epoch
\* that the callback dispatches one after the other are neighbouring steps.  What
\* a callback drops late (OnlyTheStartIsLost) is no exception.  Live notes and
\* deletions replace the horizon within an epoch, and are left out.
StepsInTurn ==
  OnlySwitches =>
  \A i \in 1 .. Len(history) - 1 :
    history[i].epoch = history[i + 1].epoch =>
      StepIndex(history[i + 1]) = StepIndex(history[i]) + 1

\* Replacing what is scheduled keeps the musical phase: while it plays, the
\* scheduler moves its clock and scheduled_until_sample by the same amount
\* ("without disturbing the current musical phase", scheduler.rs line 1477).  It
\* has to be on time, and a deletion freezes the horizon.
PhaseKept ==
  [][(setup.punctual /\ setup.ops["delete"] = 0 /\ last.playing
        /\ last'.playing /\ seen'.snap.playing)
       => until' - clock'.total = until - clock.total]_vars

\* An event made for the current pattern and tracks is played: neither the
\* callback nor the scheduler throws it away ("audio thread discards queued
\* events whose transport_generation is stale", and no others:
\* docs/control-thread-sequencer-spec.md line 331).  Excepted are a callback
\* that acts on a transport it loaded before the UI changed it, and the time in
\* which a track is being deleted.
Fresh(e) == e.epoch = epoch /\ e.topo = topo
Kept == \A e \in Range(queue \o heap) :
          Fresh(e)' => e \in Range(queue' \o heap' \o history')
Outdated == \/ apc = "transport" /\ got.playing # playing
            \/ apc = "render" /\ got.epoch # epoch
FreshEventsKept == [][edit.on \/ Outdated \/ Kept]_vars

\* An outdated callback does lose fresh events: with an epoch loaded before a
\* switch it drops what the scheduler has already made for the new pattern
\* (audio.rs line 2592), and with a stop seen before a restart it drops the new
\* horizon (audio.rs line 2358).  As long as there are only starts, stops and
\* switches, nobody else loses any, and such a loss is confined to the start: no
\* event of the epoch has been dispatched yet, so a pattern that has begun to
\* sound is never thinned out, whatever the threads interleave.
Unheard == \A e \in Range(history') : e.epoch # epoch'
OnlyTheStartIsLost == [][OnlySwitches => Kept \/ (Outdated /\ Unheard)]_vars

\* A track is deleted while the scheduler stands still: nothing that it made for
\* the old tracks is on its way to the callback (topology_edit_ready_id).
DeletionIsQuiet == [][tracks' # tracks => queue = << >>]_vars
=============================================================================
