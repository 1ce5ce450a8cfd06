--------------------------- MODULE BlockScheduler ----------------------------
(***************************************************************************)
(* How the audio thread and the worker threads process the node graph, one *)
(* block after the other (audiograph/graph_engine.c).                      *)
(*                                                                         *)
(* A thread runs a node in a frame of its stack: schedule_ready_node runs  *)
(* another node in the middle of a fan-out when the ready queue is full.   *)
(* The graph, the frame count and the caller of process_next_block are the *)
(* environment: each block takes any graph of the setup (edits are applied *)
(* between blocks) and any of its frame counts (the last slice of a        *)
(* callback is shorter than the others).                                   *)
(*                                                                         *)
(* The ready queue is the FIFO that MpmcQueue implements.                  *)
(***************************************************************************)
EXTENDS Integers, Sequences, FiniteSets, SequencesExt

CONSTANTS Nodes,          \* node ids
          Setups,         \* what a run of the engine may be given
          WorkerCount,    \* g_engine.workerCount
          Audio,          \* the audio thread
          NoNode,         \* no node; also marks the frame that seeds a block
          QueueSize,      \* capacity of the ready queue (4096 in the code)
          LongPreemption  \* may a thread sleep for the 50 ms of stall recovery
                          \* between its pop and g_active_job_count++ ?

\* A setup: graphs (functions from jobs to the jobs they read), the lengths of
\* blocks, and how many jobs justify one more worker (24 in the code).
ASSUME SchedulerAssumption ==
  /\ QueueSize \in Nat /\ QueueSize >= 1
  /\ WorkerCount \in Nat
  /\ Audio \notin 1 .. WorkerCount
  /\ NoNode \notin Nodes
  /\ LongPreemption \in BOOLEAN

ASSUME GraphAssumption ==
  /\ IsFiniteSet(Nodes)
  /\ \A s \in Setups :
       /\ s.frames \subseteq Nat \ {0}
       /\ s.jobsPerWorker \in Nat \ {0}
       /\ \A g \in s.graphs : /\ DOMAIN g \subseteq Nodes
                              /\ \A n \in DOMAIN g : g[n] \subseteq DOMAIN g

VARIABLES setup,          \* one of Setups
          graph,          \* the graph of the block
          frames,         \* nframes of process_live_block_internal
          apc,            \* where the audio thread is in the block
          wpc,            \* where each worker is in worker_main
          stack,          \* per thread, the nodes it is running, the innermost last
          ready,          \* the ready queue
          pending,        \* inputs each node still waits for
          jobs,           \* jobsInFlight
          active,         \* g_active_job_count
          session,        \* workSession is this graph
          sessionFrames,  \* nframes as published to the workers
          limit,          \* activeWorkerLimit
          runs,           \* history: how often each node was run in this block
          finished,       \* history: the nodes whose outputs are written
          early           \* history: the workers that last read the frame count
                          \* while no block was published

vars == <<setup, graph, frames, apc, wpc, stack, ready, pending, jobs, active,
          session, sessionFrames, limit, runs, finished, early>>

Workers == 1 .. WorkerCount    \* worker_index + 1
Threads == Workers \cup {Audio}
Jobs(g) == DOMAIN g
Sources(g) == {n \in Jobs(g) : g[n] = {}}
Successors(g, n) == {m \in Jobs(g) : n \in g[m]}

\* A node being run, or the seeding of a block (node = NoNode).  "load" and
\* "popped": taken from the queue; "running"; "fanout": notifying the nodes in
\* left; "push", "help", "retry": handing next to the ready queue.
FrameSet == [node : Nodes \cup {NoNode}, nf : Nat, left : SUBSET Nodes,
             next : Nodes \cup {NoNode},
             at : {"load", "popped", "running", "fanout", "push", "help", "retry"}]

Popped(n, f, place) == [node |-> n, nf |-> f, left |-> {}, next |-> NoNode, at |-> place]

Top(t) == Last(stack[t])
Runs(t, place) == stack[t] # << >> /\ Top(t).at = place
WithTop(t, f) == [stack EXCEPT ![t] = Append(Front(@), f)]
WithCall(t, f, callee) == [stack EXCEPT ![t] = Front(@) \o <<f, callee>>]

Init == /\ setup \in Setups
        /\ graph \in setup.graphs
        /\ frames \in setup.frames
        /\ apc = "idle"
        /\ wpc = [w \in Workers |-> "parked"]
        /\ stack = [t \in Threads |-> << >>]
        /\ ready = << >>
        /\ pending = [n \in Nodes |-> -1]
        /\ jobs = 0
        /\ active = 0
        /\ session = FALSE
        /\ sessionFrames \in setup.frames
        /\ limit = 0
        /\ runs = [n \in Nodes |-> 0]
        /\ finished = {}
        /\ early = {}

-----------------------------------------------------------------------------
(* Running one node: try_execute_ready_node and execute_and_fanout *)

\* A worker reads the frame count after it has popped; every other caller
\* passes its own.
Begin(t) ==
  /\ Runs(t, "load") \/ Runs(t, "popped")
  /\ LET f == Top(t)
         nf == IF f.at = "load" THEN sessionFrames ELSE f.nf
     IN /\ stack' = WithTop(t, [f EXCEPT !.at = "running", !.nf = nf])
        /\ runs' = [runs EXCEPT ![f.node] = @ + 1]
        /\ early' = IF f.at # "load" THEN early
                    ELSE IF session THEN early \ {t} ELSE early \cup {t}
  /\ active' = active + 1
  /\ UNCHANGED <<setup, graph, frames, apc, wpc, ready, pending, jobs, session,
                 sessionFrames, limit, finished>>

\* Mutant of Finish: the job is counted out before its fan-out.
FinishCountsOut(t) ==
  /\ Runs(t, "running")
  /\ LET f == Top(t) IN
       /\ stack' = WithTop(t, [f EXCEPT !.at = "fanout", !.left = Successors(graph, f.node)])
       /\ finished' = finished \cup {f.node}
  /\ jobs' = jobs - 1
  /\ UNCHANGED <<setup, graph, frames, apc, wpc, ready, pending, active, session,
                 sessionFrames, limit, runs, early>>

Finish(t) ==
  /\ Runs(t, "running")
  /\ LET f == Top(t) IN
       /\ stack' = WithTop(t, [f EXCEPT !.at = "fanout", !.left = Successors(graph, f.node)])
       /\ finished' = finished \cup {f.node}
  /\ UNCHANGED <<setup, graph, frames, apc, wpc, ready, pending, jobs, active, session,
                 sessionFrames, limit, runs, early>>

\* Mutant of Notify: every notification makes the successor ready.
NotifyAlwaysReady(t) ==
  /\ Runs(t, "fanout")
  /\ Top(t).node # NoNode
  /\ \E m \in Top(t).left :
       /\ pending' = [pending EXCEPT ![m] = @ - 1]
       /\ stack' = WithTop(t, [Top(t) EXCEPT !.left = @ \ {m}, !.at = "push", !.next = m])
  /\ UNCHANGED <<setup, graph, frames, apc, wpc, ready, jobs, active, session,
                 sessionFrames, limit, runs, finished, early>>

\* One successor loses a pending input; the last one makes it ready.
Notify(t) ==
  /\ Runs(t, "fanout")
  /\ Top(t).node # NoNode
  /\ \E m \in Top(t).left :
       LET f == [Top(t) EXCEPT !.left = @ \ {m}] IN
       /\ pending' = [pending EXCEPT ![m] = @ - 1]
       /\ stack' = WithTop(t, IF pending[m] = 1
                              THEN [f EXCEPT !.at = "push", !.next = m]
                              ELSE f)
  /\ UNCHANGED <<setup, graph, frames, apc, wpc, ready, jobs, active, session,
                 sessionFrames, limit, runs, finished, early>>

\* The last access of execute_and_fanout is the job count that the audio
\* thread waits on.
Leave(t) ==
  /\ Runs(t, "fanout")
  /\ Top(t).node # NoNode
  /\ Top(t).left = {}
  /\ stack' = [stack EXCEPT ![t] = Front(@)]
  /\ jobs' = jobs - 1
  /\ active' = active - 1
  /\ UNCHANGED <<setup, graph, frames, apc, wpc, ready, pending, session,
                 sessionFrames, limit, runs, finished, early>>

(* schedule_ready_node *)

Pushed(f) == [f EXCEPT !.at = "fanout", !.next = NoNode]

Push(t) ==
  /\ Runs(t, "push") \/ Runs(t, "retry")
  /\ Len(ready) < QueueSize
  /\ ready' = Append(ready, Top(t).next)
  /\ stack' = WithTop(t, Pushed(Top(t)))
  /\ UNCHANGED <<setup, graph, frames, apc, wpc, pending, jobs, active, session,
                 sessionFrames, limit, runs, finished, early>>

\* Mutant of PushFull: rq_push_or_spin instead of helping.
PushSpins(t) ==
  /\ Runs(t, "push")
  /\ Len(ready) = QueueSize
  /\ UNCHANGED vars

PushFull(t) ==
  /\ Runs(t, "push")
  /\ Len(ready) = QueueSize
  /\ stack' = WithTop(t, [Top(t) EXCEPT !.at = "help"])
  /\ UNCHANGED <<setup, graph, frames, apc, wpc, ready, pending, jobs, active, session,
                 sessionFrames, limit, runs, finished, early>>

\* Make room by running another ready node, then try again.
HelpOther(t) ==
  /\ Runs(t, "help")
  /\ ready # << >>
  /\ ready' = Tail(ready)
  /\ stack' = WithCall(t, [Top(t) EXCEPT !.at = "push"],
                       Popped(Head(ready), Top(t).nf, "popped"))
  /\ UNCHANGED <<setup, graph, frames, apc, wpc, pending, jobs, active, session,
                 sessionFrames, limit, runs, finished, early>>

HelpNothing(t) ==
  /\ Runs(t, "help")
  /\ ready = << >>
  /\ stack' = WithTop(t, [Top(t) EXCEPT !.at = "retry"])
  /\ UNCHANGED <<setup, graph, frames, apc, wpc, ready, pending, jobs, active, session,
                 sessionFrames, limit, runs, finished, early>>

\* Full, then empty, then full again: the node runs inline.
RunInline(t) ==
  /\ Runs(t, "retry")
  /\ Len(ready) = QueueSize
  /\ stack' = WithCall(t, Pushed(Top(t)), Popped(Top(t).next, Top(t).nf, "popped"))
  /\ UNCHANGED <<setup, graph, frames, apc, wpc, ready, pending, jobs, active, session,
                 sessionFrames, limit, runs, finished, early>>

Execute(t) == \/ Begin(t) \/ Finish(t) \/ Notify(t) \/ Leave(t)
              \/ Push(t) \/ PushFull(t) \/ HelpOther(t) \/ HelpNothing(t) \/ RunInline(t)

-----------------------------------------------------------------------------
(* The audio thread: process_live_block_internal *)

\* init_pending_and_seed up to the seeding: the queue is drained, the counts
\* are those of the new block.
BeginBlock(g, f) ==
  /\ apc = "idle"
  /\ graph' = g
  /\ frames' = f
  /\ ready' = << >>
  /\ pending' = [n \in Nodes |-> IF n \in Jobs(g) THEN Cardinality(g[n]) ELSE -1]
  /\ jobs' = Cardinality(Jobs(g))
  /\ stack' = [stack EXCEPT ![Audio] =
                 <<[Popped(NoNode, f, "fanout") EXCEPT !.left = Sources(g)]>>]
  /\ apc' = "seed"
  /\ runs' = [n \in Nodes |-> 0]
  /\ finished' = {}
  /\ UNCHANGED <<setup, wpc, active, session, sessionFrames, limit, early>>

Seed ==
  /\ apc = "seed"
  /\ Runs(Audio, "fanout")
  /\ Top(Audio).node = NoNode
  /\ \E n \in Top(Audio).left :
       stack' = WithTop(Audio, [Top(Audio) EXCEPT !.left = @ \ {n}, !.at = "push", !.next = n])
  /\ UNCHANGED <<setup, graph, frames, apc, wpc, ready, pending, jobs, active, session,
                 sessionFrames, limit, runs, finished, early>>

Seeded ==
  /\ apc = "seed"
  /\ Runs(Audio, "fanout")
  /\ Top(Audio).node = NoNode
  /\ Top(Audio).left = {}
  /\ stack' = [stack EXCEPT ![Audio] = << >>]
  /\ apc' = "publish"
  /\ UNCHANGED <<setup, graph, frames, wpc, ready, pending, jobs, active, session,
                 sessionFrames, limit, runs, finished, early>>

\* choose_active_worker_count
ActiveWorkers ==
  LET n == Cardinality(Jobs(graph))
      sources == Cardinality(Sources(graph))
      wanted == n \div setup.jobsPerWorker
      capped == IF sources >= 2 /\ wanted > sources THEN sources ELSE wanted
  IN IF n < setup.jobsPerWorker THEN 0
     ELSE IF capped > WorkerCount THEN WorkerCount ELSE capped

\* detect_cycle: only a graph that no node can start is noticed.
HasCycle == Jobs(graph) # {} /\ Sources(graph) = {}

CycleFound ==
  /\ apc = "publish"
  /\ HasCycle
  /\ jobs' = 0
  /\ ready' = << >>
  /\ apc' = "idle"
  /\ UNCHANGED <<setup, graph, frames, wpc, stack, pending, active, session,
                 sessionFrames, limit, runs, finished, early>>

\* Nothing (left) to do: a graph without jobs, or all of them run while seeding.
NothingToDo ==
  /\ apc = "publish"
  /\ ~ HasCycle
  /\ jobs <= 0
  /\ apc' = "idle"
  /\ UNCHANGED <<setup, graph, frames, wpc, stack, ready, pending, jobs, active, session,
                 sessionFrames, limit, runs, finished, early>>

\* Mutant of Publish: the workers are not told the frame count.
PublishKeepsCount ==
  /\ apc = "publish"
  /\ ~ HasCycle
  /\ jobs > 0
  /\ limit' = ActiveWorkers
  /\ IF ActiveWorkers > 0
       THEN apc' = "help" /\ session' = TRUE
       ELSE apc' = "drain" /\ UNCHANGED session
  /\ UNCHANGED <<setup, graph, frames, wpc, stack, ready, pending, jobs, active,
                 sessionFrames, runs, finished, early>>

Publish ==
  /\ apc = "publish"
  /\ ~ HasCycle
  /\ jobs > 0
  /\ limit' = ActiveWorkers
  /\ IF ActiveWorkers > 0
       THEN apc' = "help" /\ session' = TRUE /\ sessionFrames' = frames
       ELSE apc' = "drain" /\ UNCHANGED <<session, sessionFrames>>
  /\ UNCHANGED <<setup, graph, frames, wpc, stack, ready, pending, jobs, active,
                 runs, finished, early>>

\* The audio thread works too, until no job is in flight (or, without workers,
\* until the queue is empty).
AudioPop ==
  /\ stack[Audio] = << >>
  /\ \/ apc = "help" /\ jobs > 0
     \/ apc = "drain"
  /\ ready # << >>
  /\ ready' = Tail(ready)
  /\ stack' = [stack EXCEPT ![Audio] = <<Popped(Head(ready), frames, "popped")>>]
  /\ UNCHANGED <<setup, graph, frames, apc, wpc, pending, jobs, active, session,
                 sessionFrames, limit, runs, finished, early>>

EndParallel ==
  /\ apc = "help"
  /\ stack[Audio] = << >>
  /\ jobs <= 0
  /\ session' = FALSE
  /\ apc' = "idle"
  /\ UNCHANGED <<setup, graph, frames, wpc, stack, ready, pending, jobs, active,
                 sessionFrames, limit, runs, finished, early>>

\* Mutant of EndSerial: one pop only, "if" for "while".
EndSerialAfterOne ==
  /\ apc = "drain"
  /\ stack[Audio] = << >>
  /\ apc' = "idle"
  /\ UNCHANGED <<setup, graph, frames, wpc, stack, ready, pending, jobs, active, session,
                 sessionFrames, limit, runs, finished, early>>

EndSerial ==
  /\ apc = "drain"
  /\ stack[Audio] = << >>
  /\ ready = << >>
  /\ apc' = "idle"
  /\ UNCHANGED <<setup, graph, frames, wpc, stack, ready, pending, jobs, active, session,
                 sessionFrames, limit, runs, finished, early>>

\* A thread that has popped a node and not yet counted itself.
Uncounted == \E t \in Threads : Runs(t, "load") \/ Runs(t, "popped")

\* Mutant of StallRecovery: the test of the active jobs is inverted.
StallRecoveryInverted ==
  /\ apc = "help"
  /\ stack[Audio] = << >>
  /\ jobs > 0
  /\ ready = << >>
  /\ active > 0
  /\ jobs' = 0
  /\ session' = FALSE
  /\ apc' = "idle"
  /\ UNCHANGED <<setup, graph, frames, wpc, stack, ready, pending, active,
                 sessionFrames, limit, runs, finished, early>>

\* For 50 ms the queue was empty and nobody was running a node.
StallRecovery ==
  /\ apc = "help"
  /\ stack[Audio] = << >>
  /\ jobs > 0
  /\ ready = << >>
  /\ active = 0
  /\ Uncounted => LongPreemption
  /\ jobs' = 0
  /\ ready' = << >>
  /\ session' = FALSE
  /\ apc' = "idle"
  /\ UNCHANGED <<setup, graph, frames, wpc, stack, pending, active,
                 sessionFrames, limit, runs, finished, early>>

AudioStep == \/ Seed \/ Seeded \/ CycleFound \/ NothingToDo \/ Publish \/ AudioPop
             \/ EndParallel \/ EndSerial \/ StallRecovery

-----------------------------------------------------------------------------
(* A worker: worker_main *)

Goto(w, l) == wpc' = [wpc EXCEPT ![w] = l]

WorkerUnchanged == UNCHANGED <<setup, graph, frames, apc, pending, jobs, active, session,
                               sessionFrames, limit, runs, finished, early>>

\* wait_for_block_start_or_shutdown
Wake(w) ==
  /\ wpc[w] = "parked"
  /\ session /\ jobs > 0
  /\ Goto(w, "woken")
  /\ UNCHANGED <<stack, ready>> /\ WorkerUnchanged

\* Load workSession and activeWorkerLimit.
Enter(w) ==
  /\ wpc[w] = "woken"
  /\ Goto(w, IF ~ session THEN "parked" ELSE IF w > limit THEN "benched" ELSE "hot")
  /\ UNCHANGED <<stack, ready>> /\ WorkerUnchanged

\* Mutant of Check: a worker that finds the block over goes nowhere.
CheckForgets(w) ==
  /\ wpc[w] = "hot"
  /\ Goto(w, IF session /\ jobs # 0 THEN "pop" ELSE "gone")
  /\ UNCHANGED <<stack, ready>> /\ WorkerUnchanged

\* A worker above the limit sleeps the block out.
Unbench(w) ==
  /\ wpc[w] = "benched"
  /\ ~ session \/ jobs = 0
  /\ Goto(w, "parked")
  /\ UNCHANGED <<stack, ready>> /\ WorkerUnchanged

\* The head of the hot loop: is this block still going on?
Check(w) ==
  /\ wpc[w] = "hot"
  /\ Goto(w, IF session /\ jobs # 0 THEN "pop" ELSE "parked")
  /\ UNCHANGED <<stack, ready>> /\ WorkerUnchanged

WorkerPop(w) ==
  /\ wpc[w] = "pop"
  /\ IF ready = << >>
       THEN UNCHANGED <<stack, ready>>
       ELSE /\ ready' = Tail(ready)
            /\ stack' = [stack EXCEPT ![w] = <<Popped(Head(ready), 0, "load")>>]
  /\ Goto(w, "hot")
  /\ WorkerUnchanged

WorkerStep(w) ==
  /\ stack[w] = << >>
  /\ Wake(w) \/ Enter(w) \/ Unbench(w) \/ Check(w) \/ WorkerPop(w)

-----------------------------------------------------------------------------
ThreadStep(t) == Execute(t) \/ (t = Audio /\ AudioStep) \/ (t \in Workers /\ WorkerStep(t))

Next == \/ \E g \in setup.graphs, f \in setup.frames : BeginBlock(g, f)
        \/ \E t \in Threads : ThreadStep(t)

Spec == Init /\ [][Next]_vars

\* Every thread keeps running: the operating system schedules all of them, and
\* nothing in the loops blocks without a timeout while a block is open.
Fairness == \A t \in Threads : WF_vars(ThreadStep(t))
FairSpec == Spec /\ Fairness

-----------------------------------------------------------------------------
(* Properties *)

TypeOK == /\ setup \in Setups
          /\ graph \in setup.graphs
          /\ frames \in setup.frames
          /\ apc \in {"idle", "seed", "publish", "help", "drain"}
          /\ wpc \in [Workers -> {"parked", "woken", "benched", "hot", "pop"}]
          /\ stack \in [Threads -> Seq(FrameSet)]
          /\ ready \in Seq(Nodes)
          /\ pending \in [Nodes -> Int]
          /\ jobs \in Int
          /\ active \in Int
          /\ session \in BOOLEAN
          /\ sessionFrames \in setup.frames
          /\ limit \in Nat
          /\ runs \in [Nodes -> Nat]
          /\ finished \subseteq Nodes
          /\ early \subseteq Threads

\* Block by block, the threads implement the promise of BlockDataflow: every
\* job runs once and after its inputs, however fan-outs, pops and helping
\* interleave, and the audio thread returns only when all of them have run.
Dataflow == INSTANCE BlockDataflow WITH
  open <- apc # "idle", Graphs <- UNION {s.graphs : s \in Setups}
DataflowSpec == Dataflow!Spec

\* A node is processed for the frame count of the block it belongs to, on the
\* audio thread always, and on a worker unless it takes the node in the gap
\* between the seeding of a block and its publication, when sessionFrames is
\* still that of the block before: helping hands the right count on, and a wrong
\* one never outlives the nodes that were started in the gap.
FramesAgree ==
  \A t \in Threads : Runs(t, "running") /\ t \notin early \ {Audio} => Top(t).nf = frames

\* When the audio thread is out of the block, so is everybody else: the output
\* it copies, the states it frees and the edits it applies next are not in use.
NobodyRunsBetweenBlocks ==
  apc = "idle" => \A t \in Threads : stack[t] = << >>

\* process_next_block returns.
CallbackReturns == apc # "idle" ~> apc = "idle"
=============================================================================
