# A TLA+ verification of tinyseq

tinyseq is a step sequencer and synthesizer. A user interface (Rust, with Lisp
scripts) edits patterns and an audio graph; a scheduler thread turns patterns
into timed events; the audio callback dispatches the events and renders the
graph with a C engine, `audiograph`, that spreads the nodes of a block over
worker threads. The parts meet in lock-free queues, atomics and epochs. This
directory models those meetings, checks them with TLC and proves what can be
proved for every size with TLAPS. Paths below are relative to the repository.

## The system

| Component | State | Operations | Talks to |
|---|---|---|---|
| Ready-node ring `audiograph/mpmc_queue.h` | cells with sequence numbers, two 64-bit cursors | push, pop by any thread | block scheduler |
| Block scheduler `audiograph/graph_engine.c`, `ready_queue.c` | pending counts, jobsInFlight, workSession, sessionFrames, activeWorkerLimit | seed, publish, pop, run, fan out, help, recover from a stall | ring, workers, audio callback |
| Graph edits `audiograph/graph_edit.c`, `graph_api.c`, `graph_nodes.c` | nodes, edges, SUM nodes, orphan flags, command queue, retire list | add, delete, connect, disconnect, hot swap, transactions | block boundary |
| Parameter ring `audiograph/graph_engine.c` | ring of (node, value) | push from the control side, apply before a block | block boundary |
| Worker pool, OS workgroups `audiograph/graph_engine.c` | run flag, workgroup and its version | start, stop, join, leave | workers |
| Scheduled-event queue `src/scheduled_event.rs` | slots, head, tail | push, pop, clear | scheduler thread, callback |
| Scheduler thread `src/scheduler.rs` | clock, scheduled_until, last epochs, accumulators, live MIDI FX | read the snapshot, plan, fill the horizon | UI state, event queue |
| Audio callback `src/audio.rs` | event heap, voice pools, gate-offs, chops | reset on topology changes, drop on stop, drain, dispatch, render | event queue, graph engine |
| Sequencer state `src/sequencer/` | transport atomics, pattern bank, published snapshot, topology edit | play/stop, switch, clone and delete patterns, delete tracks | everybody |
| Voice pools `src/voice.rs`, `src/audio.rs` | voices with owners, ages and fingerprints, gate-off trackers, keyboard notes | allocate, steal, release, shrink, forget sounds, reset for a topology | callback, keyboard channel, graph nodes |
| Pattern bank `src/sequencer/state.rs`, `src/effects.rs` | live lanes, snapshots, current pattern, track bindings, effect slots | capture, restore, switch, clone, delete, propagate, add and remove tracks and effects | UI controller, audio graph |
| DSP nodes, Lisp runtime, UI, agent, projects, recorder | DSP state, documents | render, edit, save, load | sequencer state |

What is hard here: the ring's cells change hands without locks; a worker can
outlive the block it was woken for; the ready queue can fill while every thread
wants to push; the scheduler works ahead of the callback on positions that are
old when it uses them; the callback and the scheduler both clear the same queue;
deleting a track takes three threads through a hand-shake of ids and epochs, and
renumbers lanes, snapshots, bindings and selections in every pattern; voices are
stolen while gate-offs and held keys still name them; graph edits share buffers by
reference counts and hide summing nodes that come and go.
`PROJECT.json` lists these hazards at their lines.

What makes each part correct: the ring hands each value over once and no cell is
shared; a block runs every job once and after its inputs, and leaves nobody
behind; the event queue is a FIFO; steps sound once, in turn and in phase
whatever the UI does; a track is deleted only while nothing refers to it; every
note ends and sounds as asked; a pattern comes back as it was left, by track and
not by index; the graph has the connections that were asked for, and its buffers
and counts agree with them.

## The modules

**MpmcQueue** has one action per atomic access of `mpmc_push` and `mpmc_pop`.
`head`, `tail`, `seq` and `value` are the fields of the queue; `pos` and `arg`
are the locals of the call a thread is in; `log` is a history of claimed pushes.
The compare-and-swap is weak, so it may fail for no reason. The interleaving is
sequentially consistent; the acquire and release orders of the code on
`sequence` are what make that view sound for the payload.

**BlockDataflow** is the abstract promise of a block: jobs start once, after the
jobs they read, and the block closes when all have finished. **BlockScheduler**
is the engine: `stack[t]` holds the nodes a thread is running (more than one
when `schedule_ready_node` helps or runs a node inline), `pending`, `jobs`,
`active`, `session`, `sessionFrames` and `limit` are the code's atomics. The ready
queue is a FIFO, as MpmcQueue justifies. Each block takes any graph of its setup, as
edits happen between blocks, and any of its lengths, as the callback cuts its
blocks at event times. `early` is a history of the workers that last read the frame
count while no block was published. `DataflowSpec` is the refinement. `Leave` merges the
two last decrements of a thread (jobsInFlight and g_active_job_count): after the
first it touches nothing of the graph. The two semaphore signals and the waiter
count are left out, as every wait on them is timed.

**EventQueue** has one action per atomic access of push and pop; clear is a run
of pops. `Poppers` says who pops: the callback and the scheduler, which clears. Two
pops clash when one ends inside the other, and the history `clashed` says whether
that has happened; until then the ring is what **EventFifo** promises, which is what
`FifoSpec` and the other properties say.

**EventPipeline** composes three threads. UI: `playing`, `epoch` (pattern_epoch),
`topo`, `tracks`, `edit` (the topology edit's kind and ids), `published`.
Scheduler: `clock` (total_beats, the last step, was_playing), `until`
(scheduled_until_sample), `last` (what the pass before saw) and `seen` (what this
pass loaded, in the order of the code's loads). Callback: `heap`, `known` (what it
saw last), `got` (what it has loaded in this call), `cur`, `rendered`. One track
is followed, all its steps are active and of equal length; time is counted in the
render alignment of four samples and the tempo is constant. The queue is the
bounded FIFO of EventFifo, and clearing it is one step: what a clear does that clashes
with a pop is EventQueue's subject. The UI's stores before a publication are one step.
Left out: swing, chords, chops, accumulators, the events of MIDI FX, floating-point
rounding, the zero-chunk guard of the render loop.

**VoicePool** holds the two pools of `audio.rs` and `voice.rs` as values and
functions (a pool keeps its voices in the order of their ages instead of counters).
**AudioVoices** composes them with the UI and the callback: `tracks`, `held` and
`inbox` are the UI's and its channel; `pool`, `spools`, `table` and `pending` the
fields of `AudioCallbackData`; `gate` and `loaded` what the graph nodes have been
told; `by`, `heard` and `told` (what a knob has last given to all voices) are
histories. `max_polyphony` stays in its lane when a track is deleted, as no restore
writes it, and a freshly cleared lane has `DefaultPoly`. The callback is split where
the UI can come in between: start, each keyboard message, housekeeping, each event.
Chops, effect chains, voice routing and quantized recording are left out, and a
release lasts callbacks instead of 20 s.

**PatternBook** is what the player is promised: pages that name tracks, effects and
the tracks they listen to. **PatternBank** is what the program keeps: lanes, a
bank of snapshots, `bind` for the runtime's bindings, `tables` for the parameter
indices of the slots, and of the graph the side-chain `wires` and the last value
each effect `heard`. A lane's content is one value, an effect has one parameter.
`max_polyphony` is apart: `PatternSnapshot::capture` saves it and `restore` never
writes it back (`state.rs:249`, `332-409`), so `poly` keeps it by lane and the book has
`limits` by place, the same for every page. The comment at `state.rs:1245-1250`,
"higher lanes shift down immediately", is not true of it.
`KeepsTheBook` is the refinement; its mapping resolves a selection index to the
track it means. Every operation runs on the UI thread from start to end. Each
setup allows some operations, so that sequences of six of them can be checked.

**PatchGraph** is what the callers of the engine are promised: a bag of
connections without cycles, what each command does to it and answers, and which nodes
a block runs. **GraphEdit** is `graph_edit.c`: a record `g` of nodes, edges, free
list, successors and counts, and an operator for every routine. An action is one
command; `EndDrain` is the update after the commands of a drain, and as it may come
after any command every way of batching them is covered. `plan` is the scheduler's
cache (`sched.dirty`, the list of sources, the job count), which `RunBlock` renews if
it is out of date, and `ran` is the set of nodes that the block reaches from it. A
collapse does not look for other readers of the SUM's output: there are none but the
port it was made for. Memory for nodes never runs out; edges do.

`KeepsThePatch` is the refinement. A step of `PatchGraph` is that of the command in
`asked`, so a wrong connection or a wrong answer is no step of it, and with it
`AnswersRightly` says that while buffers are left a command is refused only for cause.
What the code does when they are not is in `PatchGraph` as well, and is less than
`graph_edit.c:981-987` promises:

- A connection that finds one before it at its input, and then no edge for its SUM
  node, is refused and costs that one (`CutShort`). As the command returns false
  (`graph_edit.c:1634-1647`) `sched.dirty` stays unset: the destination waits for
  nobody, is not among the cached sources, and neither it nor what hears it runs
  until a command succeeds (`hurt`). The job count still has them: a block with
  workers waits for the stall recovery (`JobsAreRun` makes the exception).
- A disconnection that leaves a SUM with one source and finds the pool empty is
  refused although the connection is gone (`CutLoose`).

A watched node without any connection is not run, though the comment at
`graph_edit.c:373` has watched nodes stay active: the cache counts nodes with an
input or an output only.

The `MC` modules hold instances (graphs, budgets, symmetry); `...Proofs` hold
theorems. Definitions whose comment starts with "Mutant of" are plausible bugs,
used to see that each property notices one.

## The runs

| Run | Bounds | Shows |
|---|---|---|
| `MCMpmcQueue.cfg` | 3 threads, 2 values, 2 cells, cursors up to 4, so that both cursors lap the ring | exclusive cells, faithful values, ordered cursors, and the inductive invariant used in the proof |
| `Block.cfg` | 3 workers, a ready queue of 1; diamond, fan-in, fan-out, branch and a cycle of four jobs with two jobs per worker; the diamond with blocks of two lengths; and nine graphs of up to four jobs and two lengths, too small for workers | types, the dataflow refinement, an empty graph between blocks, frame counts that agree but for a worker that is early, and that the callback returns, with the queue full all the time and with cycles that edits should refuse |
| `EventQueue.cfg` | 2 poppers, one of them the thread that pushes; a ring of 3, five pushes, so that the ring is lapped | FIFO refinement, order and no races until two pops clash; no unwritten slot is ever read; inductive invariant |
| `Pipeline.cfg` | a horizon of 4 chunks, steps of 3 units; three setups: 3 toggles and a switch with a scheduler as late as it likes over 6 units; 2 toggles, a switch and a live note with a punctual one; a start and a deletion with a queue of 1 event | types, steps in turn (first setup), what switches lose (first setup), the phase (second), and a quiet deletion (third) |
| `Voices.cfg` | 2 voices, 2 tracks, 2 notes, 3 sounds, one of which steps may lock; engines shared, alone or beside a sampler; steps and keys with an edit, keys, steps under every setting, and steps that lock the sound while a knob is turned, a track deleted or the pattern switched | types, gate-offs and keys that end the notes they are for, sounds, enabled voices, caps, stealing |
| `PatternBank.cfg` | up to 3 tracks, 2 slots, 2 patterns, six operations; three setups: side chains under deletion and switching, contents and limits of custom and sampler tracks, effects loaded and deleted | types, bindings, slots, wires, effects in tune and the refinement of PatternBook |
| `GraphEdit.cfg` | two sources, a stereo and a mono effect, a DAC; seven start graphs (both inputs of an effect fed and one edge to spare, shared sources, SUM nodes in a row, a connection made twice, a silent DAC, pools of 5 and 3 edges), three commands with drains and blocks in between | types, producers, the pool, the scheduler's links, no cycle, and the refinement of PatchGraph |

Five runs show a disagreement between the code and what it says of itself:

- `BlockEarlyReturn.cfg`: a block without workers ends when the queue is empty;
  a worker late in its last hot loop may hold one of its nodes (finding at
  `graph_engine.c:1730`).
- `EventQueueClear.cfg`: `clear` on the scheduler thread pops against the
  callback (`scheduled_event.rs:135`), and events come out twice or out of order.
  `EventQueue.cfg` shows the other half: nothing but such a clash disorders them.
- `PipelineDeleteLoses.cfg`: the callback's topology reset throws the rebuilt
  horizon away (`audio.rs:602`).
- `VoiceHangs.cfg`: a key held on a sampler while a track comes or goes; the reset
  forgets the note, and its release ends nothing (`audio.rs:600`).
- `GraphLeaks.cfg`: every SUM node that is taken out keeps an edge of the pool
  (`graph_edit.c:939`).

What else the code does, which the properties make exceptions for or say nothing of:

- `NobodyRunsBetweenBlocks` fails with `LongPreemption = TRUE` (stall recovery under a
  preempted worker), and `FramesAgree` without its exemption of workers in `early` (a
  late worker takes a node of the next block for the old length,
  `graph_engine.c:505`).
- A step sounds twice, under one epoch, with a live note (what is already in the
  callback's heap is scheduled again, `scheduler.rs:1353`) and, under two epochs, with a
  start and a switch (the callback moves on while the scheduler plans,
  `scheduler.rs:1481`); `StepsInTurn` speaks of one epoch and leaves live notes out.
- `PhaseKept` fails without its exemption of deletions with one of them (the frozen
  horizon is dropped without moving the clock back, `scheduler.rs:1402`).
- Fresh events are lost by a callback that acts on a transport or an epoch it loaded
  before a change (`audio.rs:2358`, `2592`); `OnlyTheStartIsLost` allows this
  (`Outdated`) until the first event of the epoch has been dispatched, and no longer.
- A note does not always have the sound it asks for: the knob of an only user goes
  straight to the nodes, and the fingerprint does not know (`audio.rs:1980`,
  `ui/synth.rs:1139`). `PlaysItsSound` says that it then has the sound of the knob.
- A pattern switch leaves the side chain of the old pattern wired
  (`ui/effects.rs:908`), so `SelectionIsWired` cannot say that nothing else is.
- When the first of two effects is deleted, the second keeps its place in the slot's
  table of parameters (`effects.rs:2027`), against the doc of `copy_from`
  (`effects.rs:1968-1972`); `EffectsStayInTune` exempts the effects that move up
  (`Detuned`) and shows that these are the only ones.

Why the bounds are enough: each hazard needs a lap of a ring, one full queue, two
interleaved operations of the UI, a callback between two loads of the scheduler, one
more note than voices, an owner and a source on both sides of a deleted track, or a
SUM node that grows, shrinks and goes, and the instances contain these. `MaxPos`,
`MaxPushes`, the setups' `ops` and `time`, `Budgets`, `MaxPatterns`, `MaxEdits` and
`MaxTotal` are the only bounds on counters; `MaxTotal` sets the clock back by a whole
cycle, which changes no step index. `PatternBank.cfg` and `GraphEdit.cfg` do not
check deadlock: a state where the operations are used up is the end of a setup.

**Fairness.** `FairSpec` of BlockScheduler assumes weak fairness of each thread: an
operating system runs every runnable thread, the waits of the loops are timed, and
the audio thread polls. It assumes nothing about who wins the queue. A block that
never starts is not counted against it. The other modules state safety only: their
operations are the player's choice, and nothing in them waits.

**Assumptions on the environment.** `LongPreemption = FALSE` says that no thread
sleeps for the 50 ms of stall recovery between its pop and its count. A punctual
setup says that the scheduler has scheduled a block before the callback renders it;
it is used for `PhaseKept`, as a late scheduler shifts the phase by its lateness.
Properties of voices except at a pending topology reset (`ResetDue`) say what holds
once the callback has seen the edit.

## The proofs

`MpmcQueueProofs` proves, for every set of threads and values, every capacity of
at least 2 and every bound on the cursors, that `IInv` is an invariant, and from
it `TypeOK`, `NoCellRace`, `PopsWhatWasPushed` and `CursorsInOrder`. `NoCellRace`
alone is not inductive: `CellInv` says of each cell whether it awaits a push or
holds a value, and of which position; `WriterInv` and `ReaderInv` say what an
owner may rely on, and `SawInv` that what a thread has seen in a cell is still so
if the cursor has not moved since, which is what makes the compare-and-swap sound.
Two positions of one lap fall into different cells; that arithmetic is a lemma.

`EventQueueProofs` proves `IInv`, `TypeOK`, `ReadsAreWritten`, `OnlyClashesDisorder`,
`NoSlotRace` and the refinement of EventFifo, for every capacity, every set of events
and any set of threads that pop. The invariant ties the wrapped indices to the lengths
of the histories (`Cursors`) and the slots between them to the events (`Contents`) until
two pops clash. What outlives a clash (`Written`): the tail is the scheduler's alone, and
in the first lap no head that is stored or loaded is beyond the slots that were written.

`PatternBankProofs` proves `TypeOK`, `BindingsFollow` and `SlotsFollowGraph` for any
number of tracks, lanes, slots and patterns, from `BankAssumption` alone, together
with `UnusedLanesBlank` (a lane without a track holds nothing that the next track
could inherit), which is stated with the proofs. Their conjunction `IInv` is inductive
and no part of it is so alone: a new track starts from the lane as it is, so that its
slots are right only if unused lanes are blank, and a selection is wired to a node of
the graph only if the slot names one. The proof has a lemma for each operation. Those
that keep the tracks go through `EditKeeps`, `PatternKeeps` or `ChainKeeps`, each of
which says what may change; `AddStep` and `RemoveStep` move every lane. The lemmas on
lanes say that capturing and restoring one takes the nodes along (`CapturedTyped`,
`RestoredTyped`), those on vectors what is left when one element goes (`RemovedFacts`,
`GapClosed`).

It goes on to `SelectionIsWired` and `EffectsStayInTune`. These
speak of the open pattern only, and a switch opens any other one, so the invariant
`WInv` says of every snapshot what restoring it needs (`Settled`): each slot has the
parameters of the effect in its place, a value within them, and a selection within
the tracks; no track and no effect is there twice. A selection counts the other
tracks, so the proof needs that counting is injective (`SelectionLeadsBack`) and what
removing a track does to it; `push_all_restored_defaults` is then followed slot by
slot, and a slot wired earlier is not touched by a later one.

The same module proves the refinement `KeepsTheBook`. A page is computed from the
lanes of its pattern, the tracks and the chains (`PageOf`), and it depends only on the
values that it shows (`EntriesEqual`). For that the invariant needs one more part,
`Complete`: a chain of effects has no gap, and every value that a page shows is one
that a snapshot keeps, as `Captured` forgets what has no parameters yet. Both hold from
the start by `BankAssumption` (an effect is only ever put into the first free slot).
Each operation has a lemma: `SavedSame` and `BackSame` say that capture and restore
change no entry, `ChainLonger` and `ChainShorter` that a chain gains its last or loses
one, `EntryAmongMore` that a selection means the same track when another is added, and
`RemapEntry` that renumbering for a deleted track leaves every effect listening to the
track it listened to, or to none. The last takes a setting that equals the deleted
track to be a selection of it, hence the assumption that a track is not 0 or 1, the
values of the other effect.

`AudioVoicesProofs` proves `TypeOK`, `OffsBelong`, `EngineNotesEnd`, `PlaysItsSound`,
`EnabledCovers`, `CapHolds` and `NoTrackCutsAnother` for any tracks, voices, notes and
sounds. That an open gate has something that will close it is inductive only with the
history of each key on its way: the messages in the channel alternate and end as the
key is held, and the record of a note meets its note-off before the next note-on
(`KeysInv`, `TableInv`); of the countdowns on one voice at most one is left, that of
the step it plays (`OffsInv`). The step properties need that every voice in use has an
owner and is enabled, and that the order of ages names every voice (`PoolInv`);
`PickFacts` says what `allocate_voice` chooses. For `PlaysItsSound`, the node of a
voice whose fingerprint is not forgotten has that sound or the one that a knob gave
last.

`BlockSchedulerProofs` proves `TypeOK` for every graph, number of workers and
capacity. For the promise itself, `BInv` has a place for each job: still to be
seeded, in the hands of a thread that pushes it, queued, popped, running or finished
(`Places`, `HandedOnce`); no two frames of all stacks hold one (`Layout`); the atomics
count what they are for (`Ledger`: `pending` is the number of inputs that are not
written, or written and not yet told; `jobs` and `active` are cardinalities); and
nothing is held between blocks (`Quiet`, `Alone`). One lemma per step serves the
audio thread, the workers and the nested calls of `schedule_ready_node` alike.
From it follow `NobodyRunsBetweenBlocks`, the refinement `DataflowSpec` and
`FramesAgree`, under hypotheses about the constants that `Block.cfg` meets and that
the promise needs:

- `Steady`: a setup's blocks all use the workers, or none does. `BlockEarlyReturn.cfg`
  is the counterexample otherwise.
- `~LongPreemption`: no thread sleeps for the 50 ms of stall recovery between its pop
  and its count; one that does loses its block (see the runs above).

`FramesAgree` needs nothing about lengths: per thread, what it runs or helps with has
the length of the block if it was taken after the publication (`Lengths`).

`EventPipelineProofs` proves all the properties of `Pipeline.cfg` for all sizes, rooms
and numbers of operations. The triggers of a chunk and the order in which the heap
pops are lists of a set in order (`InOrder`), and `InOrderLists` says by counting that
such a list names each member once. For `OnlyTheStartIsLost`, `SwitchInv` compares
what the threads know of the transport: the epochs only get older on the way from the
UI to the snapshot, the scheduler and its last pass, and who knows the same epoch
knows the same transport (`Versions`); an event on its way was made for a transport
that plays (`AllMade`). So the scheduler empties the queue only for a later epoch, and
a callback that clears has read a stop; what it has played is of epochs no newer than
the one it has loaded (`Heard`), so that a callback which is behind has played nothing
of the present one. For `DeletionIsQuiet`: once the scheduler has acknowledged an
edit, it may have read the ids, the ids and the kind, or nothing yet, and
`StandsStill` says in each of these places that it cannot add to the queue; what it
has read of an older request cannot acknowledge the new one (`QuietPlan`).

`StepsInTurn` speaks of what has sounded only, and needs an invariant about all three
threads (`Turns`): per epoch, the history, the heap and the queue are one sequence of
steps, later and later in time (`Aligned`, `Joined`), and the clock stands at the step
at the end of it (`Continued`); the callback is past the epochs of the history
(`Past`), and the clock is never ahead of the horizon (`Paced`). A chunk appends the
next steps (`FillIs`, from `TriggersAre`: with more than one step, a chunk of any
length holds each step boundary in it once), a turn of the callback cuts the sequence
in two (`RenderIs`), and a new epoch starts an empty one (`TurnFresh`). `PhaseKept`
needs that a seek finds as much to set the clock back by as it asks for (`Phased`).
Their theorems have hypotheses about the behaviour, as the two are not true without:

- `[][~ FillOverflows]_vars`, for both: no event finds the queue full. One that does is
  given up with the rest of its chunk, though the clock has moved: a step is left out,
  and the phase shifts by a chunk. The setups of the run that the two speak about have
  room enough; the code's 4095 events last for as many steps ahead of the callback.
- `[]~ Late`, for `PhaseKept`: when the scheduler plans, what it has scheduled is not
  all rendered already. `punctual` makes the callback wait for a scheduler that is
  known to play; the first pass after a start may take any time, and the next one is
  then late. In the run time ends before a horizon has passed.

`GraphEditProofs` proves `TypeOK`, `InputsHaveProducers`, `PoolIsSound`,
`LinksFollowEdges` and `NoCycles` for any nodes with any numbers of ports, any pool of
edges, any number of SUM nodes and commands, and any first graph that commands can
build. None of them is inductive: deleting a SUM wipes inputs and keeps counts, which
is harmless only because nobody else reads those edges. The invariant `Sound` says

- of edges (`Wired`): what an input reads is written by the port it is noted under
  (`Fed`), what a port writes is noted under that port (`Owned`), counts are no less
  than readers (`Counted`), free edges and edges in use make up the pool (`Pooled`);
- of SUM nodes (`Shapes`, `Hosted`, `OneHost`, `ForHosts`): a SUM has one output and
  feeds the one input it stands in front of, and an input with a SUM reads it; nodes
  not yet there have no ports and no links (`Unborn`);
- of links (`Covered`, `Exact`): what feeds a node has it as a successor, and the
  predecessors of the nodes that are kept are counted exactly. A SUM that was wiped
  with the node behind it is not kept: it stays as it is, with links that are too many,
  until the links are rebuilt;
- that there is no cycle (`Acyclic`, over sets: in every set of nodes there is one that
  hears none of the others).

Deleting a node cuts links before they agree again, hence `Leaving(G, n)`, where the
links from `n` may be anything; `Sound` is `Leaving` with nobody. Each routine has a
lemma for what it does to the fields of the graph (`PlugIs`, `UnreadIs`, ...) and one
for what it keeps, and commands put these together: `ConnectSecondSound` follows a
connection that inserts a SUM to every point where it can stop for want of an edge,
`DeleteNodeSound` goes through the ports one after the other, and `CollapseSound`
deletes a SUM whose reader already hears the source. `Settled` adds what the end of
a drain computes: who is not orphaned is kept and hears nobody who is.

For `NoCycles`, `DownstreamIs` shows that the walk of `can_reach`, which ends after as
many rounds as there are nodes, is closed under the successor lists (`GrowthCloses`,
by counting), hence by `Covered` under the edges; the source of a connection that the
check lets through is outside it, and no set of nodes can then be a cycle through the
new connection (`AcyclicPlugged`). The audio thread's fallback for cycles
(`Block.cfg`) is thus never needed by what edits build, as long as `would_create_cycle`
gets its memory.

`DataLemmas` holds what several of these need: least and greatest elements, quotients,
intervals, recursion along an interval, concatenation, `RemoveAt`, `Front`, `Last` and
`Append` on sequences, functions as sequences.

What stays with TLC, and why:

- Liveness (`CallbackReturns`) and the fairness under it: out of the prover's reach.
- `KeepsThePatch`: the bag of the caller's connections, the answers, and what a block
  runs. The invariant of
  `GraphEditProofs` says that every connection is sound and not which ones there are;
  it would have to be followed through every routine once more, port by port, with
  exact counts instead of bounds.

## Not modelled, and why

- Block scheduler: the semaphore, waiter count and `qlen` of the ready queue (waits
  are timed, so a lost signal delays and loses nothing), the start and stop of
  workers (outside playing), OS workgroups (calls into macOS), diagnostics.
- Graph edits: hot swap and keep-edges replacement (the Rust program calls neither; a
  grown SUM whose `fanin_sum_node_id` goes stale can only come about through them),
  buffers (copied, nothing scheduled), the batch serials (see `EndDrain`), state
  snapshots of watched nodes. Nor are the pointers to buffers that each node caches
  (`io_cache_valid`): they are cleared where `sched.dirty` is set and read again from
  the edges, so they say nothing that the edges do not, except after a refused
  command, which renews neither. Then a node may read the buffer of a connection that
  is gone, and a SUM node that a refused connection has widened
  (`graph_edit.c:1674-1690`) runs with one input more than it has pointers, until a
  command succeeds.
- Parameter ring: the shape of EventQueue with one popper; that several threads push
  is in the list of hazards.
- Step clock, swing, timebases, accumulators: arithmetic on floating-point beats. The
  pipeline's steps are whole units of the render alignment, and the render loop's
  guard of 32 empty turns is never met.
- Voices: chops, effect chains, routing, quantized recording, hot reload of an engine
  (`ui/graph.rs:567`, which keeps fingerprints), the polyphony default (TRUE live,
  `data.rs:586`, FALSE in snapshots). The late release of a key whose voice was
  stolen, a lowered cap and a release tail cut by a topology reset are in the model,
  and no property forbids them.
- Patterns: the payload of steps and their rotate, move and duplicate (pure vector
  operations of one thread; they drop chord durations and instrument locks, which is
  a loss of data and not of consistency), MIDI FX slots (which are deleted as effects
  are, `ui/effects.rs:333`), bus effects (their side-chain selections are not
  renumbered when a track goes, `ui/effects.rs:834`), sample ids, and the in-place
  clearing of a track that an environment variable selects.
- DSP (floating point), the Lisp runtime (an interpreter of user scripts), UI, agent,
  project files and recorder (presentation and file access).
