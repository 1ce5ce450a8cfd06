------------------------- MODULE BlockSchedulerProofs -------------------------
(***************************************************************************)
(* Proofs about BlockScheduler, for any graphs, any number of workers and  *)
(* any capacity of the ready queue.                                        *)
(*                                                                         *)
(* The types hold always.  That the scheduler implements BlockDataflow is  *)
(* proved for setups whose blocks all use the workers, or none does        *)
(* (Steady): one that mixes them breaks the promise, which is the run with *)
(* MixedSetup.  No thread sleeps through a stall recovery while it holds a *)
(* node (~ LongPreemption), or the recovery takes the block from under it. *)
(***************************************************************************)
EXTENDS BlockScheduler, DataLemmas, FiniteSetTheorems, TLAPS

-----------------------------------------------------------------------------
(* The frames of all stacks, as a set *)

Frames(st) == UNION {{st[t][i] : i \in 1..Len(st[t])} : t \in Threads}

\* No node is in two frames.
Distinct(st) ==
  \A t, u \in Threads : \A i \in 1..Len(st[t]), j \in 1..Len(st[u]) :
    st[t][i].node = st[u][j].node => t = u /\ i = j

InFanOut == {"fanout", "push", "help", "retry"}

NodesAt(F, places) == {n \in Nodes : \E f \in F : f.node = n /\ f.at \in places}
Taken(F) == NodesAt(F, {"load", "popped"})
Running(F) == NodesAt(F, {"running"})
Fanning(F) == NodesAt(F, InFanOut)
Carried(F) == {n \in Nodes : \E f \in F : f.next = n}
Left(F, n) == {m \in Nodes : \E f \in F : f.node = n /\ m \in f.left}

-----------------------------------------------------------------------------
(* The invariant *)

\* A frame that hands a node over names it, and so does one that runs a node.
NamedFrames == {f \in FrameSet :
                  /\ f.at \in {"push", "help", "retry"} => f.next \in Nodes
                  /\ f.at \in {"load", "popped", "running"} => f.node \in Nodes}

TInv == TypeOK /\ stack \in [Threads -> Seq(NamedFrames)]

OneEach(F) == \A f, g \in F : f.node = g.node => f = g
NextOnce(F) == \A f, g \in F : f.next = g.next /\ f.next # NoNode => f = g
Once(q) == \A i, j \in 1..Len(q) : q[i] = q[j] => i = j
Elements(q) == {q[i] : i \in 1..Len(q)}

\* The frames of one stack: only the audio thread's outermost one is the
\* seeding of a block, and it is there exactly while the block is seeded.
SeedFrame ==
  /\ \A t \in Threads : \A i \in 1..Len(stack[t]) :
       stack[t][i].node = NoNode <=> t = Audio /\ i = 1 /\ apc = "seed"
  /\ apc = "seed" => stack[Audio] # << >>
  /\ apc \in {"idle", "publish"} => stack[Audio] = << >>

\* What a frame holds fits the place it is at.
FrameFits(f) ==
  /\ f.at \in {"push", "help", "retry"} <=> f.next # NoNode
  /\ f.node = NoNode => f.at \in InFanOut
  /\ f.left \subseteq IF f.node = NoNode THEN Sources(graph) ELSE Successors(graph, f.node)

Layout == /\ Distinct(stack)
          /\ SeedFrame
          /\ \A f \in Frames(stack) : FrameFits(f)

\* No node waits in two hands, nor twice in the queue.
HandedOnce == NextOnce(Frames(stack)) /\ Once(ready)

Seeding == Left(Frames(stack), NoNode)
InHand == Carried(Frames(stack))
Queued == Elements(ready)
Grabbed == Taken(Frames(stack))
Busy == Running(Frames(stack))
Notifying == Fanning(Frames(stack))

\* The nodes that may start.
Startable == Seeding \cup InHand \cup Queued \cup Grabbed
Reached == Startable \cup Busy \cup finished

\* A node is in one place, and a place holds jobs of the graph.
Places ==
  /\ Seeding \cap (InHand \cup Queued \cup Grabbed) = {}
  /\ InHand \cap (Queued \cup Grabbed) = {}
  /\ Queued \cap Grabbed = {}
  /\ Startable \cap (Busy \cup finished) = {}
  /\ Busy \cap finished = {}
  /\ Notifying \subseteq finished
  /\ Reached \subseteq Jobs(graph)

\* The inputs a node still waits for: not written, or written and not told.
Owing(m) == {n \in graph[m] : n \notin finished \/ m \in Left(Frames(stack), n)}

\* The counters count what they are for.
Ledger ==
  /\ runs = [n \in Nodes |-> IF n \in Busy \cup finished THEN 1 ELSE 0]
  /\ active = Cardinality(Busy \cup Notifying)
  /\ HasCycle => finished = {}
  /\ apc # "idle" =>
       /\ \A m \in Jobs(graph) : /\ pending[m] = Cardinality(Owing(m))
                                 /\ m \in Reached <=> Owing(m) = {}
       /\ jobs = Cardinality(Jobs(graph) \ (finished \ Notifying))

\* Between two blocks nothing is in the hands of anyone.
Quiet == apc = "idle" => ready = << >> /\ \A t \in Threads : stack[t] = << >>

Serial(s) == \/ WorkerCount = 0
             \/ \A g \in s.graphs : Cardinality(Jobs(g)) < s.jobsPerWorker
Parallel(s) == /\ WorkerCount > 0
               /\ \A g \in s.graphs : Cardinality(Jobs(g)) >= s.jobsPerWorker

\* A setup keeps to one of the two ways of running a block.
Alone ==
  /\ Serial(setup) => /\ ~ session
                      /\ \A w \in Workers : wpc[w] = "parked" /\ stack[w] = << >>
  /\ Parallel(setup) => apc # "drain"

BInv == TInv /\ Layout /\ HandedOnce /\ Places /\ Ledger /\ Quiet /\ Alone

-----------------------------------------------------------------------------
(* The types *)

LEMMA TopIsNamed ==
  ASSUME TInv, NEW t \in Threads, stack[t] # << >>
  PROVE  Top(t) \in NamedFrames /\ Top(t) \in FrameSet
  <1>1. stack[t] \in Seq(NamedFrames)
    BY DEF TInv
  <1> QED
    BY <1>1, FrontLast DEF Top, NamedFrames

\* The changes of the stacks keep their type.
LEMMA StacksTyped ==
  ASSUME TInv, NEW t \in Threads, NEW f \in NamedFrames
  PROVE  /\ stack[t] # << >> => WithTop(t, f) \in [Threads -> Seq(NamedFrames)]
         /\ \A c \in NamedFrames :
              stack[t] # << >> => WithCall(t, f, c) \in [Threads -> Seq(NamedFrames)]
         /\ stack[t] # << >> => [stack EXCEPT ![t] = Front(@)] \in [Threads -> Seq(NamedFrames)]
         /\ [stack EXCEPT ![t] = <<f>>] \in [Threads -> Seq(NamedFrames)]
         /\ [stack EXCEPT ![t] = << >>] \in [Threads -> Seq(NamedFrames)]
  <1>1. stack \in [Threads -> Seq(NamedFrames)] /\ stack[t] \in Seq(NamedFrames)
    BY DEF TInv
  <1>2. ASSUME stack[t] # << >> PROVE WithTop(t, f) \in [Threads -> Seq(NamedFrames)]
    <2>1. Append(Front(stack[t]), f) \in Seq(NamedFrames)
      BY <1>1, <1>2, ReplaceLast
    <2> QED
      BY <1>1, <2>1 DEF WithTop
  <1>3. ASSUME NEW c \in NamedFrames, stack[t] # << >>
        PROVE  WithCall(t, f, c) \in [Threads -> Seq(NamedFrames)]
    <2>1. Front(stack[t]) \in Seq(NamedFrames)
      BY <1>1, <1>3, FrontLast
    <2>2. <<f, c>> \in Seq(NamedFrames)
      OBVIOUS
    <2>3. Front(stack[t]) \o <<f, c>> \in Seq(NamedFrames)
      BY <2>1, <2>2, ConcatProperties
    <2> QED
      BY <1>1, <2>3 DEF WithCall
  <1>4. ASSUME stack[t] # << >>
        PROVE  [stack EXCEPT ![t] = Front(@)] \in [Threads -> Seq(NamedFrames)]
    <2>1. Front(stack[t]) \in Seq(NamedFrames)
      BY <1>1, <1>4, FrontLast
    <2> QED
      BY <1>1, <2>1
  <1>5. <<f>> \in Seq(NamedFrames) /\ << >> \in Seq(NamedFrames)
    BY EmptySeq
  <1> QED
    BY <1>1, <1>2, <1>3, <1>4, <1>5

\* TInv in two parts: the stacks, and the rest.
Named(st) == st \in [Threads -> Seq(NamedFrames)]

RestTyped == /\ setup \in Setups
             /\ graph \in setup.graphs
             /\ frames \in setup.frames
             /\ apc \in {"idle", "seed", "publish", "help", "drain"}
             /\ wpc \in [Workers -> {"parked", "woken", "benched", "hot", "pop"}]
             /\ ready \in Seq(Nodes)
             /\ pending \in [Nodes -> Int]
             /\ jobs \in Int
             /\ active \in Int
             /\ session \in BOOLEAN
             /\ sessionFrames \in setup.frames
             /\ limit \in Nat
             /\ runs \in [Nodes -> Nat]
             /\ finished \subseteq Nodes
             /\ early \subseteq Threads

LEMMA TypeParts == TInv <=> RestTyped /\ Named(stack)
  <1>1. ASSUME Named(stack) PROVE stack \in [Threads -> Seq(FrameSet)]
    <2>1. NamedFrames \subseteq FrameSet
      BY DEF NamedFrames
    <2>2. \A t \in Threads : stack[t] \in Seq(FrameSet)
      BY <1>1, <2>1, SeqMonotonic DEF Named
    <2> QED
      BY <1>1, <2>2 DEF Named
  <1> QED
    BY <1>1 DEF TInv, TypeOK, RestTyped, Named

\* What a setup gives.
LEMMA SetupFacts ==
  ASSUME RestTyped, NEW g \in setup.graphs
  PROVE  /\ setup.frames \subseteq Nat /\ setup.jobsPerWorker \in Nat \ {0}
         /\ Jobs(g) \subseteq Nodes /\ IsFiniteSet(Jobs(g)) /\ Cardinality(Jobs(g)) \in Nat
         /\ Sources(g) \subseteq Jobs(g)
         /\ \A n \in Nodes : Successors(g, n) \subseteq Jobs(g)
         /\ \A n \in Jobs(g) : g[n] \subseteq Jobs(g) /\ IsFiniteSet(g[n])
  <1>1. setup \in Setups
    BY DEF RestTyped
  <1>2. /\ setup.frames \subseteq Nat /\ setup.jobsPerWorker \in Nat \ {0}
        /\ DOMAIN g \subseteq Nodes /\ \A n \in DOMAIN g : g[n] \subseteq DOMAIN g
    BY <1>1, GraphAssumption
  <1>3. \A T \in SUBSET DOMAIN g : IsFiniteSet(T)
    <2>1. \A T \in SUBSET Nodes : IsFiniteSet(T)
      BY GraphAssumption, FS_Subset
    <2> QED
      BY <1>2, <2>1
  <1>4. Cardinality(DOMAIN g) \in Nat
    BY <1>3, FS_CardinalityType
  <1> QED
    BY <1>2, <1>3, <1>4 DEF Jobs, Sources, Successors

\* A frame with other contents.
LEMMA FramesTyped ==
  ASSUME TInv, NEW t \in Threads, Top(t) \in NamedFrames,
         NEW L \in SUBSET Nodes, NEW m \in Nodes, NEW nf \in Nat
  PROVE  /\ Top(t).at \in {"load", "popped"} =>
              [Top(t) EXCEPT !.at = "running", !.nf = nf] \in NamedFrames
         /\ [Top(t) EXCEPT !.at = "fanout", !.left = L] \in NamedFrames
         /\ [Top(t) EXCEPT !.left = L] \in NamedFrames
         /\ [Top(t) EXCEPT !.left = L, !.at = "push", !.next = m] \in NamedFrames
         /\ Pushed(Top(t)) \in NamedFrames
         /\ Top(t).at \in {"push", "help", "retry"} =>
              /\ Top(t).next \in Nodes
              /\ [Top(t) EXCEPT !.at = "push"] \in NamedFrames
              /\ [Top(t) EXCEPT !.at = "help"] \in NamedFrames
              /\ [Top(t) EXCEPT !.at = "retry"] \in NamedFrames
         /\ Popped(m, nf, "load") \in NamedFrames /\ Popped(m, nf, "popped") \in NamedFrames
         /\ [Popped(NoNode, nf, "fanout") EXCEPT !.left = L] \in NamedFrames
         /\ Top(t).nf \in Nat
  BY SchedulerAssumption DEF NamedFrames, FrameSet, Pushed, Popped

LEMMA QueueTyped ==
  ASSUME RestTyped
  PROVE  /\ \A m \in Nodes : Append(ready, m) \in Seq(Nodes)
         /\ ready # << >> => Head(ready) \in Nodes /\ Tail(ready) \in Seq(Nodes)
         /\ << >> \in Seq(Nodes)
  <1>1. ready \in Seq(Nodes)
    BY DEF RestTyped
  <1> QED
    BY <1>1, AppendProperties, HeadTailProperties, EmptySeq

LEMMA ExecuteTyped ==
  ASSUME TInv, NEW t \in Threads, Execute(t)
  PROVE  RestTyped' /\ Named(stack')
  <1>1. RestTyped /\ Named(stack)
    BY TypeParts
  <1>2. stack[t] # << >>
    BY DEF Execute, Begin, Finish, Notify, Leave, Push, PushFull, HelpOther, HelpNothing,
           RunInline, Runs
  <1>3. Top(t) \in NamedFrames /\ Top(t) \in FrameSet
    BY <1>2, TopIsNamed
  <1> DEFINE F == Top(t)
  <1>4. /\ F.node \in Nodes \cup {NoNode} /\ F.nf \in Nat /\ F.left \subseteq Nodes
        /\ sessionFrames \in Nat /\ graph \in setup.graphs
        /\ F.at \in {"load", "popped", "running"} => F.node \in Nodes
        /\ F.at \in {"push", "help", "retry"} => F.next \in Nodes
    <2>1. setup.frames \subseteq Nat /\ sessionFrames \in setup.frames /\ graph \in setup.graphs
      BY <1>1, SetupFacts DEF RestTyped
    <2> QED
      BY <1>3, <2>1 DEF FrameSet, NamedFrames
  <1>5. /\ \A f \in NamedFrames : Named(WithTop(t, f))
        /\ \A f, c \in NamedFrames : Named(WithCall(t, f, c))
        /\ Named([stack EXCEPT ![t] = Front(@)])
    <2>1. F \in NamedFrames
      BY <1>3
    <2> QED
      BY <1>2, <2>1, StacksTyped DEF Named
  <1>6. /\ \A n \in Nodes : runs[n] + 1 \in Nat
        /\ \A m \in Nodes : pending[m] - 1 \in Int
        /\ active + 1 \in Int /\ active - 1 \in Int /\ jobs - 1 \in Int
    BY <1>1 DEF RestTyped
  <1>7. CASE Begin(t)
    <2> DEFINE nf == IF F.at = "load" THEN sessionFrames ELSE F.nf
               f == [F EXCEPT !.at = "running", !.nf = nf]
    <2>1. nf \in Nat /\ F.at \in {"load", "popped"}
      BY <1>4, <1>7 DEF Begin, Runs
    <2>2. stack' = WithTop(t, f)
      BY <1>7 DEF Begin
    <2> HIDE DEF nf
    <2>3. f \in NamedFrames
      <3>1. F.node \in Nodes /\ F.left \in SUBSET Nodes
        BY <1>4, <2>1
      <3> QED
        BY <1>3, <2>1, <3>1, FramesTyped
    <2>4. Named(stack')
      BY <1>5, <2>2, <2>3
    <2>5. runs' \in [Nodes -> Nat]
      <3>1. runs' = [runs EXCEPT ![F.node] = @ + 1] /\ F.node \in Nodes
        BY <1>4, <1>7, <2>1 DEF Begin
      <3> QED
        BY <1>1, <1>6, <3>1 DEF RestTyped
    <2>6. RestTyped'
      BY <1>1, <1>6, <1>7, <2>5 DEF RestTyped, Begin
    <2> QED
      BY <2>4, <2>6
  <1>8. CASE Finish(t)
    <2> DEFINE L == Successors(graph, F.node)
    <2>1. L \subseteq Nodes /\ F.node \in Nodes
      <3>1. Jobs(graph) \subseteq Nodes
        BY <1>1, <1>4, SetupFacts
      <3> QED
        BY <1>4, <1>8, <3>1 DEF Successors, Finish, Runs
    <2> HIDE DEF L
    <2>2. [F EXCEPT !.at = "fanout", !.left = L] \in NamedFrames
      BY <1>3, <1>4, <2>1, FramesTyped, SchedulerAssumption
    <2>3. Named(stack')
      BY <1>5, <1>8, <2>2 DEF Finish, L
    <2> QED
      BY <1>1, <1>8, <2>1, <2>3 DEF RestTyped, Finish
  <1>9. CASE Notify(t)
    <2>1. PICK m \in F.left :
            /\ pending' = [pending EXCEPT ![m] = @ - 1]
            /\ stack' = WithTop(t, IF pending[m] = 1
                                   THEN [[F EXCEPT !.left = @ \ {m}] EXCEPT !.at = "push", !.next = m]
                                   ELSE [F EXCEPT !.left = @ \ {m}])
      BY <1>9 DEF Notify
    <2> DEFINE L == F.left \ {m}
    <2>2. m \in Nodes /\ L \in SUBSET Nodes
      BY <1>4
    <2>3. /\ [F EXCEPT !.left = @ \ {m}] = [F EXCEPT !.left = L]
          /\ [[F EXCEPT !.left = @ \ {m}] EXCEPT !.at = "push", !.next = m]
               = [F EXCEPT !.left = L, !.at = "push", !.next = m]
      BY <1>3 DEF FrameSet
    <2> HIDE DEF L
    <2>4. /\ [F EXCEPT !.left = L] \in NamedFrames
          /\ [F EXCEPT !.left = L, !.at = "push", !.next = m] \in NamedFrames
      BY <1>3, <1>4, <2>2, FramesTyped
    <2>5. Named(stack')
      BY <1>5, <2>1, <2>3, <2>4
    <2>6. pending' \in [Nodes -> Int]
      BY <1>1, <1>6, <2>1, <2>2 DEF RestTyped
    <2> QED
      BY <1>1, <1>9, <2>5, <2>6 DEF RestTyped, Notify
  <1>10. CASE Leave(t)
    BY <1>1, <1>5, <1>6, <1>10 DEF RestTyped, Leave
  <1>11. CASE Push(t)
    <2>1. F.next \in Nodes /\ Pushed(F) \in NamedFrames
      BY <1>3, <1>4, <1>11, FramesTyped DEF Push, Runs
    <2>2. Append(ready, F.next) \in Seq(Nodes)
      BY <1>1, <2>1, QueueTyped
    <2> QED
      BY <1>1, <1>5, <1>11, <2>1, <2>2 DEF RestTyped, Push
  <1>12. CASE PushFull(t) \/ HelpNothing(t)
    <2>1. /\ [F EXCEPT !.at = "help"] \in NamedFrames
          /\ [F EXCEPT !.at = "retry"] \in NamedFrames
      BY <1>3, <1>4, <1>12, FramesTyped DEF PushFull, HelpNothing, Runs
    <2> QED
      BY <1>1, <1>5, <1>12, <2>1 DEF RestTyped, PushFull, HelpNothing
  <1>13. CASE HelpOther(t)
    <2>1. [F EXCEPT !.at = "push"] \in NamedFrames
      BY <1>3, <1>4, <1>13, FramesTyped DEF HelpOther, Runs
    <2>2. Head(ready) \in Nodes /\ Tail(ready) \in Seq(Nodes)
      BY <1>1, <1>13, QueueTyped DEF HelpOther
    <2>3. Popped(Head(ready), F.nf, "popped") \in NamedFrames
      BY <1>3, <1>4, <2>2, FramesTyped
    <2> QED
      BY <1>1, <1>5, <1>13, <2>1, <2>2, <2>3 DEF RestTyped, HelpOther
  <1>14. CASE RunInline(t)
    <2>1. F.next \in Nodes /\ Pushed(F) \in NamedFrames
      BY <1>3, <1>4, <1>14, FramesTyped DEF RunInline, Runs
    <2>2. Popped(F.next, F.nf, "popped") \in NamedFrames
      BY <1>3, <1>4, <2>1, FramesTyped
    <2> QED
      BY <1>1, <1>5, <1>14, <2>1, <2>2 DEF RestTyped, RunInline
  <1> QED
    BY <1>7, <1>8, <1>9, <1>10, <1>11, <1>12, <1>13, <1>14 DEF Execute

LEMMA ActiveWorkersNat == ASSUME RestTyped PROVE ActiveWorkers \in Nat
  <1>1. /\ Cardinality(Jobs(graph)) \in Nat /\ setup.jobsPerWorker \in Nat \ {0}
        /\ Sources(graph) \subseteq Jobs(graph) /\ IsFiniteSet(Jobs(graph))
    BY SetupFacts DEF RestTyped
  <1>2. Cardinality(Sources(graph)) \in Nat
    BY <1>1, FS_Subset, FS_CardinalityType
  <1> DEFINE n == Cardinality(Jobs(graph))
             k == Cardinality(Sources(graph))
             wanted == n \div setup.jobsPerWorker
             capped == IF k >= 2 /\ wanted > k THEN k ELSE wanted
  <1>3. wanted \in Nat
    <2> DEFINE j == setup.jobsPerWorker
    <2>1. n \in Nat /\ j \in Nat \ {0}
      BY <1>1
    <2> HIDE DEF n, j
    <2>2. n \div j \in Nat
      BY <2>1, Z3
    <2> QED
      BY <2>2 DEF n, j
  <1>4. capped \in Nat
    BY <1>2, <1>3
  <1>5. ActiveWorkers = IF n < setup.jobsPerWorker THEN 0
                        ELSE IF capped > WorkerCount THEN WorkerCount ELSE capped
    BY DEF ActiveWorkers
  <1> QED
    BY <1>4, <1>5, SchedulerAssumption

LEMMA AudioTyped ==
  ASSUME TInv, AudioStep
  PROVE  RestTyped' /\ Named(stack')
  <1>1. RestTyped /\ Named(stack) /\ Audio \in Threads /\ << >> \in Seq(Nodes)
    BY TypeParts, EmptySeq DEF Threads
  <1>2. CASE Seed
    <2> DEFINE F == Top(Audio)
    <2>1. stack[Audio] # << >> /\ F \in NamedFrames /\ F \in FrameSet
      BY <1>1, <1>2, TopIsNamed DEF Seed, Runs
    <2>2. PICK n \in F.left :
            stack' = WithTop(Audio, [F EXCEPT !.left = @ \ {n}, !.at = "push", !.next = n])
      BY <1>2 DEF Seed
    <2> DEFINE L == F.left \ {n}
    <2>3. n \in Nodes /\ L \in SUBSET Nodes /\ F.nf \in Nat
      BY <2>1 DEF FrameSet
    <2>4. [F EXCEPT !.left = @ \ {n}, !.at = "push", !.next = n]
            = [F EXCEPT !.left = L, !.at = "push", !.next = n]
      BY <2>1 DEF FrameSet
    <2> HIDE DEF L
    <2>5. [F EXCEPT !.left = L, !.at = "push", !.next = n] \in NamedFrames
      BY <1>1, <2>1, <2>3, FramesTyped
    <2>6. Named(stack')
      BY <1>1, <2>1, <2>2, <2>4, <2>5, StacksTyped DEF Named
    <2> QED
      BY <1>1, <1>2, <2>6 DEF RestTyped, Seed
  <1>3. CASE Seeded
    <2>1. Top(Audio) \in NamedFrames
      BY <1>1, <1>3, TopIsNamed DEF Seeded, Runs
    <2>2. Named(stack')
      BY <1>1, <1>3, <2>1, StacksTyped DEF Named, Seeded
    <2> QED
      BY <1>1, <1>3, <2>2 DEF RestTyped, Seeded
  <1>4. CASE CycleFound \/ NothingToDo \/ EndParallel \/ EndSerial \/ StallRecovery
    <2>1. /\ UNCHANGED <<setup, graph, frames, wpc, stack, pending, active, sessionFrames,
                         limit, runs, finished, early>>
          /\ ready' \in {ready, << >>} /\ jobs' \in {jobs, 0}
          /\ session' \in {session, FALSE} /\ apc' = "idle"
      BY <1>4 DEF CycleFound, NothingToDo, EndParallel, EndSerial, StallRecovery
    <2>2. session' \in BOOLEAN
      BY <1>1, <2>1, Zenon DEF RestTyped
    <2>3. ready' \in Seq(Nodes)
      BY <1>1, <2>1, Zenon DEF RestTyped
    <2>4. jobs' \in Int
      BY <1>1, <2>1 DEF RestTyped
    <2> QED
      BY <1>1, <2>1, <2>2, <2>3, <2>4 DEF RestTyped
  <1>5. CASE Publish
    <2>1. ActiveWorkers \in Nat
      BY <1>1, ActiveWorkersNat
    <2>2. UNCHANGED stack /\ UNCHANGED <<setup, graph, frames, wpc, ready, pending, jobs,
                                         active, runs, finished, early>>
      BY <1>5 DEF Publish
    <2>3. limit' \in Nat /\ session' \in BOOLEAN
          /\ sessionFrames' \in setup.frames /\ apc' \in {"help", "drain"}
      BY <1>1, <1>5, <2>1 DEF RestTyped, Publish
    <2> QED
      BY <1>1, <2>2, <2>3 DEF RestTyped
  <1>6. CASE AudioPop
    <2>1. Head(ready) \in Nodes /\ Tail(ready) \in Seq(Nodes) /\ frames \in Nat
      <3>1. setup.frames \subseteq Nat /\ frames \in setup.frames
        BY <1>1, SetupFacts DEF RestTyped
      <3> QED
        BY <1>1, <1>6, <3>1, QueueTyped DEF AudioPop
    <2>2. Popped(Head(ready), frames, "popped") \in NamedFrames
      BY <2>1 DEF NamedFrames, FrameSet, Popped
    <2>3. Named(stack')
      BY <1>1, <1>6, <2>2, StacksTyped DEF Named, AudioPop
    <2> QED
      BY <1>1, <1>6, <2>1, <2>3 DEF RestTyped, AudioPop
  <1> QED
    BY <1>2, <1>3, <1>4, <1>5, <1>6 DEF AudioStep

LEMMA WorkerTyped ==
  ASSUME TInv, NEW w \in Workers, WorkerStep(w)
  PROVE  RestTyped' /\ Named(stack')
  <1>1. RestTyped /\ Named(stack) /\ w \in Threads
    BY TypeParts DEF Threads
  <1>2. wpc' \in [Workers -> {"parked", "woken", "benched", "hot", "pop"}]
    BY <1>1 DEF RestTyped, WorkerStep, Wake, Enter, Unbench, Check, WorkerPop, Goto
  <1>3. UNCHANGED <<setup, graph, frames, apc, pending, jobs, active, session,
                    sessionFrames, limit, runs, finished, early>>
    BY DEF WorkerStep, Wake, Enter, Unbench, Check, WorkerPop, WorkerUnchanged
  <1>4. ready' \in Seq(Nodes) /\ Named(stack')
    <2>1. CASE UNCHANGED <<stack, ready>>
      BY <1>1, <2>1 DEF RestTyped
    <2>2. CASE /\ ready # << >> /\ ready' = Tail(ready)
               /\ stack' = [stack EXCEPT ![w] = <<Popped(Head(ready), 0, "load")>>]
      <3>1. Head(ready) \in Nodes /\ Tail(ready) \in Seq(Nodes)
        BY <1>1, <2>2, QueueTyped
      <3>2. Popped(Head(ready), 0, "load") \in NamedFrames
        BY <3>1 DEF NamedFrames, FrameSet, Popped
      <3> QED
        BY <1>1, <2>2, <3>1, <3>2, StacksTyped DEF Named
    <2> QED
      BY <2>1, <2>2 DEF WorkerStep, Wake, Enter, Unbench, Check, WorkerPop
  <1> QED
    BY <1>1, <1>2, <1>3, <1>4 DEF RestTyped

LEMMA BeginBlockTyped ==
  ASSUME TInv, NEW g \in setup.graphs, NEW f \in setup.frames, BeginBlock(g, f)
  PROVE  RestTyped' /\ Named(stack')
  <1>1. RestTyped /\ Named(stack) /\ Audio \in Threads /\ << >> \in Seq(Nodes)
    BY TypeParts, EmptySeq DEF Threads
  <1>2. f \in Nat /\ Cardinality(Jobs(g)) \in Nat /\ Sources(g) \subseteq Nodes
    BY <1>1, SetupFacts
  <1>3. pending' \in [Nodes -> Int]
    <2>1. \A n \in Jobs(g) : Cardinality(g[n]) \in Int
      BY <1>1, SetupFacts, FS_CardinalityType
    <2> QED
      BY <2>1 DEF BeginBlock
  <1>4. Named(stack')
    <2> DEFINE L == Sources(g)
               c == [Popped(NoNode, f, "fanout") EXCEPT !.left = L]
    <2>1. L \in SUBSET Nodes
      BY <1>2
    <2>2. stack' = [stack EXCEPT ![Audio] = <<c>>]
      BY DEF BeginBlock
    <2> HIDE DEF L
    <2>3. c \in NamedFrames
      BY <1>2, <2>1 DEF NamedFrames, FrameSet, Popped
    <2> HIDE DEF c
    <2> QED
      BY <1>1, <2>2, <2>3, StacksTyped DEF Named
  <1>5. runs' \in [Nodes -> Nat]
    BY DEF BeginBlock
  <1> QED
    BY <1>1, <1>2, <1>3, <1>4, <1>5 DEF RestTyped, BeginBlock

LEMMA TypesKept ==
  ASSUME TInv, [Next]_vars
  PROVE  TInv'
  <1>1. RestTyped' /\ Named(stack') => TInv'
    <2>1. ASSUME RestTyped', Named(stack') PROVE stack' \in [Threads -> Seq(FrameSet)]
      <3>1. NamedFrames \subseteq FrameSet
        BY DEF NamedFrames
      <3>2. \A t \in Threads : stack'[t] \in Seq(FrameSet)
        BY <2>1, <3>1, SeqMonotonic DEF Named
      <3> QED
        BY <2>1, <3>2 DEF Named
    <2> QED
      BY <2>1 DEF TInv, TypeOK, RestTyped, Named
  <1>2. CASE Next
    BY <1>1, <1>2, ExecuteTyped, AudioTyped, WorkerTyped, BeginBlockTyped DEF Next, ThreadStep
  <1>3. CASE UNCHANGED vars
    BY <1>1, <1>3, TypeParts DEF vars, RestTyped, Named
  <1> QED
    BY <1>2, <1>3

LEMMA InitTyped == Init => TInv
  <1>1. ASSUME Init PROVE RestTyped /\ Named(stack)
    <2>1. << >> \in Seq(NamedFrames) /\ << >> \in Seq(Nodes)
      BY EmptySeq
    <2>2. Named(stack)
      BY <1>1, <2>1 DEF Init, Named
    <2>3. pending \in [Nodes -> Int] /\ runs \in [Nodes -> Nat]
      BY <1>1 DEF Init
    <2>4. wpc \in [Workers -> {"parked", "woken", "benched", "hot", "pop"}]
      BY <1>1 DEF Init
    <2>5. session \in BOOLEAN /\ finished \subseteq Nodes /\ ready \in Seq(Nodes)
      BY <1>1, <2>1, Zenon DEF Init
    <2>6. jobs \in Int /\ active \in Int /\ limit \in Nat
      BY <1>1 DEF Init
    <2>7. RestTyped
      BY <1>1, <2>3, <2>4, <2>5, <2>6 DEF Init, RestTyped
    <2> QED
      BY <2>2, <2>7
  <1> QED
    BY <1>1, TypeParts

\* Every variable has its type, whatever the graphs and however many workers:
\* a worker is where worker_main can be, and a frame is at a step of
\* execute_and_fanout or of schedule_ready_node.
THEOREM TypeCorrect == Spec => []TypeOK
  <1>1. TInv => TypeOK
    BY DEF TInv
  <1> QED
    BY <1>1, InitTyped, TypesKept, PTL DEF Spec

-----------------------------------------------------------------------------
(* How the stacks change *)

Stacks == [Threads -> Seq(FrameSet)]

Replaced(st, t, e) == [st EXCEPT ![t] = Append(Front(@), e)]
Added(st, t, c) == [st EXCEPT ![t] = Append(@, c)]
Dropped(st, t) == [st EXCEPT ![t] = Front(@)]

LEMMA FrameIsSomewhere ==
  ASSUME NEW st \in Stacks
  PROVE  /\ \A t \in Threads : \A i \in 1..Len(st[t]) : st[t][i] \in Frames(st)
         /\ \A f \in Frames(st) : /\ f \in FrameSet
                                  /\ \E t \in Threads : \E i \in 1..Len(st[t]) : f = st[t][i]
  <1>1. ASSUME NEW t \in Threads, NEW i \in 1..Len(st[t]) PROVE st[t][i] \in Frames(st)
    <2> DEFINE own == {st[t][j] : j \in 1..Len(st[t])}
    <2>1. st[t][i] \in own
      OBVIOUS
    <2>2. own \in {{st[u][j] : j \in 1..Len(st[u])} : u \in Threads}
      OBVIOUS
    <2> QED
      BY <2>1, <2>2 DEF Frames
  <1>2. ASSUME NEW f \in Frames(st)
        PROVE  \E t \in Threads : \E i \in 1..Len(st[t]) : f = st[t][i]
    BY Zenon DEF Frames
  <1>3. ASSUME NEW t \in Threads, NEW i \in 1..Len(st[t]) PROVE st[t][i] \in FrameSet
    <2>1. st[t] \in Seq(FrameSet)
      BY DEF Stacks
    <2> QED
      BY <2>1, ElementOfSeq
  <1> QED
    BY <1>1, <1>2, <1>3

\* A node tells its frame.
LEMMA FrameOfNode ==
  ASSUME NEW st \in Stacks, Distinct(st), NEW f \in Frames(st), NEW g \in Frames(st),
         f.node = g.node
  PROVE  f = g
  <1>1a. PICK t \in Threads : \E i \in 1..Len(st[t]) : f = st[t][i]
    BY FrameIsSomewhere
  <1>1. PICK i \in 1..Len(st[t]) : f = st[t][i]
    BY <1>1a
  <1>2a. PICK u \in Threads : \E j \in 1..Len(st[u]) : g = st[u][j]
    BY FrameIsSomewhere
  <1>2. PICK j \in 1..Len(st[u]) : g = st[u][j]
    BY <1>2a
  <1>3. t = u /\ i = j
    BY <1>1, <1>2 DEF Distinct
  <1> QED
    BY <1>1, <1>2, <1>3

\* The innermost frame of a thread is replaced by another one of the same node.
LEMMA ReplaceFrame ==
  ASSUME NEW st \in Stacks, Distinct(st), NEW t \in Threads, st[t] # << >>,
         NEW e \in FrameSet, e.node = Last(st[t]).node,
         NEW st2, st2 = Replaced(st, t, e)
  PROVE  /\ st2 \in Stacks /\ Distinct(st2)
         /\ Last(st[t]) \in Frames(st)
         /\ Frames(st2) = (Frames(st) \ {Last(st[t])}) \cup {e}
         /\ \A u \in Threads : /\ Len(st2[u]) = Len(st[u])
                               /\ \A i \in 1..Len(st[u]) : st2[u][i].node = st[u][i].node
         /\ \A u \in Threads : u # t => st2[u] = st[u]
         /\ st2[t] # << >> /\ Last(st2[t]) = e
  <1> DEFINE s == st[t]
             k == Len(s)
             l == Last(s)
  <1>1. /\ s \in Seq(FrameSet) /\ k \in Nat \ {0} /\ k \in 1..Len(st[t])
        /\ l = s[k] /\ l \in FrameSet
    BY FrontLast DEF Stacks
  <1>2. /\ st2[t] \in Seq(FrameSet) /\ Len(st2[t]) = k
        /\ \A i \in 1..k : st2[t][i] = IF i = k THEN e ELSE s[i]
    <2>1. st2[t] = Append(Front(s), e)
      BY DEF Stacks, Replaced
    <2> QED
      BY <2>1, ReplaceLast DEF Stacks
  <1>3. \A u \in Threads : u # t => st2[u] = st[u]
    BY DEF Stacks, Replaced
  <1>4. st2 \in Stacks
    <2>1. st2 = [u \in Threads |-> IF u = t THEN st2[t] ELSE st[u]]
      BY DEF Stacks, Replaced
    <2>2. \A u \in Threads : st[u] \in Seq(FrameSet)
      BY DEF Stacks, Replaced
    <2> QED
      BY <1>2, <2>1, <2>2 DEF Stacks
  <1>5. ASSUME NEW u \in Threads
        PROVE  Len(st2[u]) = Len(st[u]) /\ \A i \in 1..Len(st[u]) : st2[u][i].node = st[u][i].node
    <2>1. CASE u = t
      <3>1. \A i \in 1..k : st2[t][i].node = s[i].node
        BY <1>1, <1>2
      <3> QED
        BY <1>2, <2>1, <3>1
    <2>2. CASE u # t
      BY <1>3, <2>2
    <2> QED
      BY <2>1, <2>2
  <1>6. Distinct(st2)
    <2> SUFFICES ASSUME NEW u \in Threads, NEW v \in Threads,
                        NEW i \in 1..Len(st2[u]), NEW j \in 1..Len(st2[v]),
                        st2[u][i].node = st2[v][j].node
                 PROVE  u = v /\ i = j
      BY DEF Distinct
    <2>1. i \in 1..Len(st[u]) /\ j \in 1..Len(st[v])
      BY <1>5
    <2>2. st[u][i].node = st[v][j].node
      BY <1>5, <2>1
    <2> QED
      BY <2>1, <2>2 DEF Distinct
  <1>7. l \in Frames(st)
    BY <1>1, FrameIsSomewhere
  <1>8. ASSUME NEW f PROVE f \in Frames(st2) <=> f \in (Frames(st) \ {l}) \cup {e}
    <2>1. ASSUME f \in Frames(st2) PROVE f \in (Frames(st) \ {l}) \cup {e}
      <3>1a. PICK u \in Threads : \E i \in 1..Len(st2[u]) : f = st2[u][i]
        BY <1>4, <2>1, FrameIsSomewhere
      <3>1. PICK i \in 1..Len(st2[u]) : f = st2[u][i]
        BY <3>1a
      <3>2. CASE u = t /\ i = k
        BY <1>1, <1>2, <3>1, <3>2
      <3>3. CASE ~ (u = t /\ i = k)
        <4>1. i \in 1..Len(st[u]) /\ f = st[u][i]
          BY <1>2, <1>3, <1>5, <3>1, <3>3
        <4>2. f # l
          BY <1>1, <3>3, <4>1 DEF Distinct
        <4> QED
          BY <4>1, <4>2, FrameIsSomewhere
      <3> QED
        BY <3>2, <3>3
    <2>2. ASSUME f \in Frames(st), f # l PROVE f \in Frames(st2)
      <3>1a. PICK u \in Threads : \E i \in 1..Len(st[u]) : f = st[u][i]
        BY <2>2, FrameIsSomewhere
      <3>1. PICK i \in 1..Len(st[u]) : f = st[u][i]
        BY <3>1a
      <3>2. f = st2[u][i] /\ i \in 1..Len(st2[u])
        BY <1>1, <1>2, <1>3, <1>5, <2>2, <3>1
      <3> QED
        BY <1>4, <3>2, FrameIsSomewhere
    <2>3. e \in Frames(st2)
      <3>1. e = st2[t][k] /\ k \in 1..Len(st2[t])
        BY <1>1, <1>2
      <3>2. st2[t][k] \in Frames(st2)
        BY <1>4, <3>1, FrameIsSomewhere
      <3> QED
        BY <3>1, <3>2
    <2> QED
      BY <2>1, <2>2, <2>3
  <1>9. Frames(st2) = (Frames(st) \ {l}) \cup {e}
    BY <1>8
  <1>10. st2[t] # << >> /\ Last(st2[t]) = e
    BY <1>1, <1>2, EmptySeq DEF Last
  <1> QED
    BY <1>3, <1>4, <1>5, <1>6, <1>7, <1>9, <1>10

\* A thread starts on a node that no frame has.
LEMMA AddFrame ==
  ASSUME NEW st \in Stacks, Distinct(st), NEW t \in Threads,
         NEW c \in FrameSet, \A f \in Frames(st) : f.node # c.node,
         NEW st2, st2 = Added(st, t, c)
  PROVE  /\ st2 \in Stacks /\ Distinct(st2)
         /\ Frames(st2) = Frames(st) \cup {c}
         /\ \A u \in Threads : \A i \in 1..Len(st[u]) : /\ i \in 1..Len(st2[u])
                                                        /\ st2[u][i] = st[u][i]
         /\ \A u \in Threads : \A i \in 1..Len(st2[u]) :
              i \notin 1..Len(st[u]) => /\ u = t /\ i = Len(st[t]) + 1
                                        /\ st2[u][i] = c
         /\ \A u \in Threads : u # t => st2[u] = st[u]
         /\ st2[t] # << >> /\ Last(st2[t]) = c
  <1> DEFINE s == st[t]
             k == Len(s)
  <1>1. s \in Seq(FrameSet) /\ k \in Nat
    BY LenProperties DEF Stacks
  <1>2. /\ st2[t] \in Seq(FrameSet) /\ Len(st2[t]) = k + 1
        /\ \A i \in 1..k : st2[t][i] = s[i]
        /\ st2[t][k + 1] = c /\ st2[t] # << >>
    <2>1. st2[t] = Append(s, c)
      BY DEF Stacks, Added
    <2> QED
      BY <1>1, <2>1, AppendProperties
  <1>3. \A u \in Threads : u # t => st2[u] = st[u]
    BY DEF Stacks, Added
  <1>4. st2 \in Stacks
    <2>1. st2 = [u \in Threads |-> IF u = t THEN st2[t] ELSE st[u]]
      BY DEF Stacks, Added
    <2>2. \A u \in Threads : st[u] \in Seq(FrameSet)
      BY DEF Stacks, Added
    <2> QED
      BY <1>2, <2>1, <2>2 DEF Stacks
  <1>5. ASSUME NEW u \in Threads, NEW i \in 1..Len(st[u])
        PROVE  i \in 1..Len(st2[u]) /\ st2[u][i] = st[u][i]
    <2>1. CASE u = t
      BY <1>1, <1>2, <2>1
    <2>2. CASE u # t
      BY <1>3, <2>2
    <2> QED
      BY <2>1, <2>2
  <1>6. ASSUME NEW u \in Threads, NEW i \in 1..Len(st2[u]), i \notin 1..Len(st[u])
        PROVE  u = t /\ i = k + 1 /\ st2[u][i] = c
    <2>1. u = t
      BY <1>3, <1>6
    <2>2. i = k + 1
      BY <1>1, <1>2, <1>6, <2>1
    <2> QED
      BY <1>2, <2>1, <2>2
  <1>7. Distinct(st2)
    <2> SUFFICES ASSUME NEW u \in Threads, NEW v \in Threads,
                        NEW i \in 1..Len(st2[u]), NEW j \in 1..Len(st2[v]),
                        st2[u][i].node = st2[v][j].node
                 PROVE  u = v /\ i = j
      BY DEF Distinct
    <2>1. CASE i \in 1..Len(st[u]) /\ j \in 1..Len(st[v])
      <3>1. st[u][i].node = st[v][j].node
        BY <1>5, <2>1
      <3> QED
        BY <2>1, <3>1 DEF Distinct
    <2>2. CASE i \in 1..Len(st[u]) /\ j \notin 1..Len(st[v])
      <3>1. st2[u][i] = st[u][i] /\ st2[v][j] = c /\ st[u][i] \in Frames(st)
        BY <1>5, <1>6, <2>2, FrameIsSomewhere
      <3> QED
        BY <3>1
    <2>3. CASE i \notin 1..Len(st[u]) /\ j \in 1..Len(st[v])
      <3>1. st2[v][j] = st[v][j] /\ st2[u][i] = c /\ st[v][j] \in Frames(st)
        BY <1>5, <1>6, <2>3, FrameIsSomewhere
      <3> QED
        BY <3>1
    <2>4. CASE i \notin 1..Len(st[u]) /\ j \notin 1..Len(st[v])
      BY <1>6, <2>4
    <2> QED
      BY <2>1, <2>2, <2>3, <2>4
  <1>8. ASSUME NEW f PROVE f \in Frames(st2) <=> f \in Frames(st) \cup {c}
    <2>1. ASSUME f \in Frames(st2) PROVE f \in Frames(st) \cup {c}
      <3>1a. PICK u \in Threads : \E i \in 1..Len(st2[u]) : f = st2[u][i]
        BY <1>4, <2>1, FrameIsSomewhere
      <3>1. PICK i \in 1..Len(st2[u]) : f = st2[u][i]
        BY <3>1a
      <3>2. CASE i \in 1..Len(st[u])
        BY <1>5, <3>1, <3>2, FrameIsSomewhere
      <3>3. CASE i \notin 1..Len(st[u])
        BY <1>6, <3>1, <3>3
      <3> QED
        BY <3>2, <3>3
    <2>2. ASSUME f \in Frames(st) PROVE f \in Frames(st2)
      <3>1a. PICK u \in Threads : \E i \in 1..Len(st[u]) : f = st[u][i]
        BY <2>2, FrameIsSomewhere
      <3>1. PICK i \in 1..Len(st[u]) : f = st[u][i]
        BY <3>1a
      <3> QED
        BY <1>4, <1>5, <3>1, FrameIsSomewhere
    <2>3. c \in Frames(st2)
      <3>1. k + 1 \in 1..Len(st2[t]) /\ c = st2[t][k + 1]
        BY <1>1, <1>2
      <3>2. st2[t][k + 1] \in Frames(st2)
        BY <1>4, <3>1, FrameIsSomewhere
      <3> QED
        BY <3>1, <3>2
    <2> QED
      BY <2>1, <2>2, <2>3
  <1>9. Frames(st2) = Frames(st) \cup {c}
    BY <1>8
  <1>10. Last(st2[t]) = c
    BY <1>2 DEF Last
  <1> QED
    BY <1>2, <1>3, <1>4, <1>5, <1>6, <1>7, <1>9, <1>10

\* A thread leaves its innermost frame.
LEMMA DropFrame ==
  ASSUME NEW st \in Stacks, Distinct(st), NEW t \in Threads, st[t] # << >>,
         NEW st2, st2 = Dropped(st, t)
  PROVE  /\ st2 \in Stacks /\ Distinct(st2)
         /\ Last(st[t]) \in Frames(st)
         /\ Frames(st2) = Frames(st) \ {Last(st[t])}
         /\ \A u \in Threads : \A i \in 1..Len(st2[u]) : /\ i \in 1..Len(st[u])
                                                         /\ st2[u][i] = st[u][i]
         /\ \A u \in Threads : \A i \in 1..Len(st[u]) :
              i \notin 1..Len(st2[u]) => u = t /\ i = Len(st[t])
         /\ \A u \in Threads : u # t => st2[u] = st[u]
  <1> DEFINE s == st[t]
             k == Len(s)
             l == Last(s)
  <1>1. /\ s \in Seq(FrameSet) /\ k \in Nat \ {0} /\ k \in 1..Len(st[t])
        /\ l = s[k] /\ l \in FrameSet
    BY FrontLast DEF Stacks
  <1>2. /\ st2[t] \in Seq(FrameSet) /\ Len(st2[t]) = k - 1
        /\ \A i \in 1..k - 1 : st2[t][i] = s[i]
    <2>1. st2[t] = Front(s)
      BY DEF Stacks, Dropped
    <2> QED
      BY <1>1, <2>1, FrontLast
  <1>3. \A u \in Threads : u # t => st2[u] = st[u]
    BY DEF Stacks, Dropped
  <1>4. st2 \in Stacks
    <2>1. st2 = [u \in Threads |-> IF u = t THEN st2[t] ELSE st[u]]
      BY DEF Stacks, Dropped
    <2>2. \A u \in Threads : st[u] \in Seq(FrameSet)
      BY DEF Stacks, Dropped
    <2> QED
      BY <1>2, <2>1, <2>2 DEF Stacks
  <1>5. ASSUME NEW u \in Threads, NEW i \in 1..Len(st2[u])
        PROVE  i \in 1..Len(st[u]) /\ st2[u][i] = st[u][i] /\ ~ (u = t /\ i = k)
    <2>1. CASE u = t
      BY <1>1, <1>2, <2>1
    <2>2. CASE u # t
      BY <1>3, <2>2
    <2> QED
      BY <2>1, <2>2
  <1>6. ASSUME NEW u \in Threads, NEW i \in 1..Len(st[u]), ~ (u = t /\ i = k)
        PROVE  i \in 1..Len(st2[u])
    <2>1. CASE u = t
      BY <1>1, <1>2, <1>6, <2>1
    <2>2. CASE u # t
      BY <1>3, <2>2
    <2> QED
      BY <2>1, <2>2
  <1>7. Distinct(st2)
    <2> SUFFICES ASSUME NEW u \in Threads, NEW v \in Threads,
                        NEW i \in 1..Len(st2[u]), NEW j \in 1..Len(st2[v]),
                        st2[u][i].node = st2[v][j].node
                 PROVE  u = v /\ i = j
      BY DEF Distinct
    <2>1. i \in 1..Len(st[u]) /\ j \in 1..Len(st[v]) /\ st[u][i].node = st[v][j].node
      BY <1>5
    <2> QED
      BY <2>1 DEF Distinct
  <1>8. ASSUME NEW f PROVE f \in Frames(st2) <=> f \in Frames(st) \ {l}
    <2>1. ASSUME f \in Frames(st2) PROVE f \in Frames(st) \ {l}
      <3>1a. PICK u \in Threads : \E i \in 1..Len(st2[u]) : f = st2[u][i]
        BY <1>4, <2>1, FrameIsSomewhere
      <3>1. PICK i \in 1..Len(st2[u]) : f = st2[u][i]
        BY <3>1a
      <3>2. i \in 1..Len(st[u]) /\ f = st[u][i] /\ ~ (u = t /\ i = k)
        BY <1>5, <3>1
      <3>3. f # l
        BY <1>1, <3>2 DEF Distinct
      <3> QED
        BY <3>2, <3>3, FrameIsSomewhere
    <2>2. ASSUME f \in Frames(st), f # l PROVE f \in Frames(st2)
      <3>1a. PICK u \in Threads : \E i \in 1..Len(st[u]) : f = st[u][i]
        BY <2>2, FrameIsSomewhere
      <3>1. PICK i \in 1..Len(st[u]) : f = st[u][i]
        BY <3>1a
      <3>2. i \in 1..Len(st2[u])
        BY <1>1, <1>6, <2>2, <3>1
      <3> QED
        BY <1>4, <1>5, <3>1, <3>2, FrameIsSomewhere, SMTT(20)
    <2> QED
      BY <2>1, <2>2
  <1>9. Frames(st2) = Frames(st) \ {l}
    BY <1>8
  <1>10. l \in Frames(st)
    BY <1>1, FrameIsSomewhere
  <1> QED
    BY <1>3, <1>4, <1>5, <1>6, <1>7, <1>9, <1>10

-----------------------------------------------------------------------------
(* What a change of one frame does to the sets of nodes *)

Swapped(F, f, e) == (F \ {f}) \cup {e}
With(F, c) == F \cup {c}
Without(F, f) == F \ {f}

\* The place of a frame's node.
Counted(e, places) == e.node \in Nodes /\ e.at \in places

LEMMA SwapSets ==
  ASSUME NEW F \in SUBSET FrameSet, OneEach(F), NextOnce(F), NEW f \in F,
         NEW e \in FrameSet, e.node = f.node, NEW F2, F2 = Swapped(F, f, e)
  PROVE  /\ Taken(F2) = IF Counted(e, {"load", "popped"}) THEN Taken(F) \cup {e.node}
                        ELSE Taken(F) \ {e.node}
         /\ Running(F2) = IF Counted(e, {"running"}) THEN Running(F) \cup {e.node}
                          ELSE Running(F) \ {e.node}
         /\ Fanning(F2) = IF Counted(e, InFanOut) THEN Fanning(F) \cup {e.node}
                          ELSE Fanning(F) \ {e.node}
         /\ \A n : Left(F2, n) = IF n = e.node THEN e.left ELSE Left(F, n)
         /\ Left(F, e.node) = f.left
         /\ e.next = f.next => Carried(F2) = Carried(F)
         /\ e.next # NoNode /\ f.next = NoNode => Carried(F2) = Carried(F) \cup {e.next}
         /\ f.next # NoNode /\ e.next = NoNode =>
              Carried(F2) = Carried(F) \ {f.next} /\ f.next \in Carried(F)
         /\ e.next \in {f.next, NoNode} => NextOnce(F2)
         /\ e.next \notin Carried(F) => NextOnce(F2)
  <1>1. /\ NoNode \notin Nodes
        /\ \A g \in FrameSet : /\ g.node \in Nodes \cup {NoNode} /\ g.left \subseteq Nodes
                               /\ g.next \in Nodes \cup {NoNode}
    BY SchedulerAssumption DEF FrameSet
  <1>2. \A g \in F : g \in FrameSet /\ (g # f => g.node # e.node)
    BY DEF OneEach
  <1>3. \A g : g \in F2 <=> g = e \/ (g \in F /\ g # f)
    BY DEF Swapped
  <1>4. ASSUME NEW A
        PROVE  NodesAt(F2, A) = IF Counted(e, A) THEN NodesAt(F, A) \cup {e.node}
                                ELSE NodesAt(F, A) \ {e.node}
    BY <1>1, <1>2, <1>3 DEF NodesAt, Counted
  <1>5. ASSUME NEW n PROVE Left(F2, n) = IF n = e.node THEN e.left ELSE Left(F, n)
    BY <1>1, <1>2, <1>3 DEF Left
  <1>6. Left(F, e.node) = f.left
    BY <1>1, <1>2 DEF Left
  <1>7. ASSUME e.next = f.next PROVE Carried(F2) = Carried(F)
    BY <1>3, <1>7 DEF Carried
  <1>8. ASSUME e.next # NoNode, f.next = NoNode PROVE Carried(F2) = Carried(F) \cup {e.next}
    BY <1>1, <1>3, <1>8 DEF Carried
  <1>9. ASSUME f.next # NoNode, e.next = NoNode
        PROVE  Carried(F2) = Carried(F) \ {f.next} /\ f.next \in Carried(F)
    <2>1. \A g \in F : g # f => g.next # f.next
      BY <1>9 DEF NextOnce
    <2>2. f.next \in Nodes /\ f \in FrameSet
      BY <1>1, <1>2, <1>9
    <2> QED
      BY <1>1, <1>3, <1>9, <2>1, <2>2 DEF Carried
  <1>10. ASSUME e.next \in {f.next, NoNode} PROVE NextOnce(F2)
    BY <1>3, <1>10 DEF NextOnce
  <1>11. ASSUME e.next \notin Carried(F) PROVE NextOnce(F2)
    <2>1. \A g \in F : g.next = e.next => e.next = NoNode
      BY <1>1, <1>11 DEF Carried
    <2> QED
      BY <1>3, <1>11, <2>1 DEF NextOnce
  <1>12. /\ Taken(F2) = IF Counted(e, {"load", "popped"}) THEN Taken(F) \cup {e.node}
                        ELSE Taken(F) \ {e.node}
         /\ Running(F2) = IF Counted(e, {"running"}) THEN Running(F) \cup {e.node}
                          ELSE Running(F) \ {e.node}
         /\ Fanning(F2) = IF Counted(e, InFanOut) THEN Fanning(F) \cup {e.node}
                          ELSE Fanning(F) \ {e.node}
    BY <1>4, Zenon DEF Taken, Running, Fanning
  <1> QED
    BY <1>5, <1>6, <1>7, <1>8, <1>9, <1>10, <1>11, <1>12

LEMMA AddSets ==
  ASSUME NEW F \in SUBSET FrameSet, NEW c \in FrameSet, c.node \in Nodes,
         c.at \in {"load", "popped"},
         \A f \in F : f.node # c.node, c.next = NoNode, c.left = {},
         NEW F2, F2 = With(F, c)
  PROVE  /\ Taken(F2) = Taken(F) \cup {c.node}
         /\ Running(F2) = Running(F) /\ Fanning(F2) = Fanning(F)
         /\ \A n : Left(F2, n) = Left(F, n)
         /\ Carried(F2) = Carried(F)
         /\ NextOnce(F) => NextOnce(F2)
  <1>1. NoNode \notin Nodes
    BY SchedulerAssumption
  <1>2. c.at \notin {"running"} /\ c.at \notin InFanOut
    BY DEF InFanOut
  <1>3. Taken(F2) = Taken(F) \cup {c.node}
    BY DEF NodesAt, Taken, With
  <1>4. Running(F2) = Running(F) /\ Fanning(F2) = Fanning(F)
    BY <1>2 DEF NodesAt, Running, Fanning, With
  <1>5. ASSUME NEW n PROVE Left(F2, n) = Left(F, n)
    BY DEF Left, With
  <1>6. Carried(F2) = Carried(F)
    BY <1>1 DEF Carried, With
  <1>7. NextOnce(F) => NextOnce(F2)
    BY DEF NextOnce, With
  <1> QED
    BY <1>3, <1>4, <1>5, <1>6, <1>7

LEMMA DropSets ==
  ASSUME NEW F \in SUBSET FrameSet, OneEach(F), NextOnce(F), NEW f \in F,
         f.next = NoNode, f.left = {}, f.node # NoNode, f.at \in InFanOut,
         NEW F2, F2 = Without(F, f)
  PROVE  /\ Taken(F2) = Taken(F) /\ Running(F2) = Running(F)
         /\ Fanning(F2) = Fanning(F) \ {f.node} /\ f.node \in Fanning(F)
         /\ \A n : Left(F2, n) = Left(F, n)
         /\ Carried(F2) = Carried(F)
         /\ NextOnce(F2)
  <1>1. NoNode \notin Nodes /\ f.node \in Nodes
    BY SchedulerAssumption DEF FrameSet
  <1>2. f.at \notin {"running"} /\ f.at \notin {"load", "popped"}
    BY DEF InFanOut
  <1>3. \A g \in F : g # f => g.node # f.node
    BY DEF OneEach
  <1>4. Taken(F2) = Taken(F) /\ Running(F2) = Running(F)
    BY <1>2 DEF NodesAt, Taken, Running, Without
  <1>5. Fanning(F2) = Fanning(F) \ {f.node} /\ f.node \in Fanning(F)
    BY <1>1, <1>3 DEF NodesAt, Fanning, Without
  <1>6. ASSUME NEW n PROVE Left(F2, n) = Left(F, n)
    BY DEF Left, Without
  <1>7. Carried(F2) = Carried(F)
    BY <1>1 DEF Carried, Without
  <1>8. NextOnce(F2)
    BY DEF NextOnce, Without
  <1> QED
    BY <1>4, <1>5, <1>6, <1>7, <1>8

\* Nodes in different places of their frames are different.
LEMMA OnePlaceEach ==
  ASSUME NEW F \in SUBSET FrameSet, OneEach(F)
  PROVE  /\ Taken(F) \cap (Running(F) \cup Fanning(F)) = {}
         /\ Running(F) \cap Fanning(F) = {}
         /\ \A f \in F : f.node \in Nodes =>
              f.node \in Taken(F) \cup Running(F) \cup Fanning(F)
  <1>1. ASSUME NEW A, NEW B, A \cap B = {} PROVE NodesAt(F, A) \cap NodesAt(F, B) = {}
    BY <1>1 DEF NodesAt, OneEach
  <1>2. /\ {"load", "popped"} \cap {"running"} = {}
        /\ {"load", "popped"} \cap InFanOut = {}
        /\ {"running"} \cap InFanOut = {}
    BY DEF InFanOut
  <1>3. ASSUME NEW f \in F, f.node \in Nodes
        PROVE  f.node \in Taken(F) \cup Running(F) \cup Fanning(F)
    <2>1. f.at \in {"load", "popped"} \cup {"running"} \cup InFanOut
      BY DEF FrameSet, InFanOut
    <2> QED
      BY <1>3, <2>1 DEF NodesAt, Taken, Running, Fanning
  <1>4. /\ Taken(F) \cap Running(F) = {} /\ Taken(F) \cap Fanning(F) = {}
        /\ Running(F) \cap Fanning(F) = {}
    BY <1>1, <1>2 DEF Taken, Running, Fanning
  <1> QED
    BY <1>3, <1>4

LEMMA OneEachFrame ==
  ASSUME NEW st \in Stacks, Distinct(st)
  PROVE  Frames(st) \in SUBSET FrameSet /\ OneEach(Frames(st))
  BY FrameIsSomewhere, FrameOfNode DEF OneEach

-----------------------------------------------------------------------------
(* The steps keep the layout *)

LEMMA StackTyped == TInv => stack \in Stacks
  BY DEF TInv, TypeOK, Stacks

LEMMA LayoutFacts ==
  ASSUME TInv, Layout
  PROVE  /\ stack \in Stacks /\ Distinct(stack)
         /\ Frames(stack) \in SUBSET FrameSet /\ OneEach(Frames(stack))
         /\ \A t \in Threads : stack[t] # << >> => Top(t) \in Frames(stack) /\ FrameFits(Top(t))
  <1>1. stack \in Stacks /\ Distinct(stack)
    BY StackTyped DEF Layout
  <1>2. Frames(stack) \in SUBSET FrameSet /\ OneEach(Frames(stack))
    BY <1>1, OneEachFrame
  <1>3. ASSUME NEW t \in Threads, stack[t] # << >> PROVE Top(t) \in Frames(stack)
    <2>1. stack[t] \in Seq(FrameSet)
      BY <1>1 DEF Stacks
    <2>0. Last(stack[t]) = stack[t][Len(stack[t])] /\ Len(stack[t]) \in Nat \ {0}
      BY <1>3, <2>1, FrontLast, Zenon
    <2>2. Last(stack[t]) = stack[t][Len(stack[t])] /\ Len(stack[t]) \in 1..Len(stack[t])
      BY <2>0
    <2>3. stack[t][Len(stack[t])] \in Frames(stack)
      BY <1>1, <2>2, FrameIsSomewhere
    <2> QED
      BY <2>2, <2>3 DEF Top
  <1> QED
    BY <1>1, <1>2, <1>3 DEF Layout

LEMMA FitsKept ==
  ASSUME NEW f, FrameFits(f), graph' = graph
  PROVE  FrameFits(f)'
  BY DEF FrameFits, Sources, Successors, Jobs

LEMMA LayoutReplaced ==
  ASSUME TInv, Layout, NEW t \in Threads, stack[t] # << >>,
         NEW e \in FrameSet, e.node = Top(t).node, FrameFits(e)',
         stack' = WithTop(t, e), UNCHANGED <<graph, apc>>
  PROVE  /\ Layout'
         /\ Frames(stack') = (Frames(stack) \ {Top(t)}) \cup {e}
         /\ stack'[t] # << >> /\ Last(stack'[t]) = e
         /\ \A u \in Threads : u # t => stack'[u] = stack[u]
  <1> DEFINE st2 == stack'
  <1>1. st2 = Replaced(stack, t, e) /\ Top(t) = Last(stack[t])
    BY DEF WithTop, Top, Replaced
  <1>2. stack \in Stacks /\ Distinct(stack)
    BY LayoutFacts
  <1> HIDE DEF st2
  <1>3. /\ st2 \in Stacks /\ Distinct(st2)
        /\ Frames(st2) = (Frames(stack) \ {Top(t)}) \cup {e}
        /\ \A u \in Threads : /\ Len(st2[u]) = Len(stack[u])
                              /\ \A i \in 1..Len(stack[u]) : st2[u][i].node = stack[u][i].node
        /\ \A u \in Threads : u # t => st2[u] = stack[u]
        /\ st2[t] # << >> /\ Last(st2[t]) = e
    <2>1. e.node = Last(stack[t]).node
      BY <1>1
    <2>2. /\ st2 \in Stacks /\ Distinct(st2)
          /\ Frames(st2) = (Frames(stack) \ {Last(stack[t])}) \cup {e}
          /\ \A u \in Threads :
               /\ Len(st2[u]) = Len(stack[u])
               /\ \A i \in 1..Len(stack[u]) : st2[u][i].node = stack[u][i].node
          /\ \A u \in Threads : u # t => st2[u] = stack[u]
          /\ st2[t] # << >> /\ Last(st2[t]) = e
      BY <1>1, <1>2, <2>1, ReplaceFrame
    <2> QED
      BY <1>1, <2>2
  <1>4. SeedFrame'
    <2>1. \A u \in Threads : \A i \in 1..Len(st2[u]) :
            st2[u][i].node = NoNode <=> u = Audio /\ i = 1 /\ apc = "seed"
      BY <1>3 DEF Layout, SeedFrame
    <2>2. stack[Audio] # << >> => st2[Audio] # << >>
      <3>1. Audio \in Threads
        BY DEF Threads
      <3>2. CASE t = Audio
        BY <1>3, <3>2
      <3>3. CASE t # Audio
        BY <1>3, <3>1, <3>3
      <3> QED
        BY <3>2, <3>3
    <2>3. stack[Audio] = << >> => st2[Audio] = << >>
      BY <1>3, SchedulerAssumption DEF Threads
    <2> QED
      BY <2>1, <2>2, <2>3 DEF SeedFrame, Layout, st2
  <1>5. \A f \in Frames(st2) : FrameFits(f)'
    BY <1>3, FitsKept DEF Layout
  <1> QED
    BY <1>3, <1>4, <1>5 DEF Layout, st2

LEMMA LayoutAdded ==
  ASSUME NEW st \in Stacks, Distinct(st), NEW t \in Threads,
         \A f \in Frames(st) : FrameFits(f)',
         \A u \in Threads : \A i \in 1..Len(st[u]) :
           st[u][i].node = NoNode <=> u = Audio /\ i = 1 /\ apc = "seed",
         apc = "seed" => st[Audio] # << >>,
         apc \in {"idle", "publish"} => st[Audio] = << >>,
         t = Audio => apc \notin {"idle", "publish"},
         NEW c \in FrameSet, \A f \in Frames(st) : f.node # c.node, c.node # NoNode,
         FrameFits(c)',
         stack' = Added(st, t, c), UNCHANGED <<graph, apc>>
  PROVE  Layout' /\ Frames(stack') = Frames(st) \cup {c}
  <1> DEFINE st2 == stack'
  <1>1. st2 = Added(st, t, c)
    OBVIOUS
  <1> HIDE DEF st2
  <1>2. /\ st2 \in Stacks /\ Distinct(st2)
        /\ Frames(st2) = Frames(st) \cup {c}
        /\ \A u \in Threads : \A i \in 1..Len(st[u]) : /\ i \in 1..Len(st2[u])
                                                       /\ st2[u][i] = st[u][i]
        /\ \A u \in Threads : \A i \in 1..Len(st2[u]) :
             i \notin 1..Len(st[u]) => /\ u = t /\ i = Len(st[t]) + 1
                                       /\ st2[u][i] = c
        /\ \A u \in Threads : u # t => st2[u] = st[u]
        /\ st2[t] # << >>
    BY <1>1, AddFrame
  <1>3. Audio \in Threads /\ \A u \in Threads : st[u] \in Seq(FrameSet) /\ Len(st[u]) \in Nat
    BY LenProperties DEF Threads, Stacks
  <1>4. ASSUME NEW u \in Threads, NEW i \in 1..Len(st2[u])
        PROVE  st2[u][i].node = NoNode <=> u = Audio /\ i = 1 /\ apc = "seed"
    <2>1. CASE i \in 1..Len(st[u])
      BY <1>2, <2>1
    <2>2. CASE i \notin 1..Len(st[u])
      <3>1. u = t /\ i = Len(st[t]) + 1 /\ st2[u][i] = c
        BY <1>2, <2>2
      <3>2. ~ (u = Audio /\ i = 1 /\ apc = "seed")
        <4>1. ASSUME u = Audio, i = 1, apc = "seed" PROVE FALSE
          <5>1. Len(st[Audio]) = 0
            BY <1>3, <3>1, <4>1
          <5>2. st[Audio] # << >>
            BY <4>1
          <5> QED
            BY <1>3, <5>1, <5>2, EmptySeq
        <4> QED
          BY <4>1
      <3> QED
        BY <3>1, <3>2
    <2> QED
      BY <2>1, <2>2
  <1>5. apc = "seed" => st2[Audio] # << >>
    BY <1>2, <1>3
  <1>6. apc \in {"idle", "publish"} => st2[Audio] = << >>
    BY <1>2, <1>3
  <1>7. SeedFrame'
    BY <1>4, <1>5, <1>6 DEF SeedFrame, st2
  <1>8. \A f \in Frames(st2) : FrameFits(f)'
    BY <1>2
  <1> QED
    BY <1>2, <1>7, <1>8 DEF Layout, st2

LEMMA LayoutCalled ==
  ASSUME TInv, Layout, NEW t \in Threads, stack[t] # << >>,
         NEW e \in FrameSet, e.node = Top(t).node, FrameFits(e)',
         NEW c \in FrameSet, \A f \in Frames(stack) : f.node # c.node, c.node # NoNode,
         FrameFits(c)',
         stack' = WithCall(t, e, c), UNCHANGED <<graph, apc>>
  PROVE  /\ Layout'
         /\ Frames(stack') = ((Frames(stack) \ {Top(t)}) \cup {e}) \cup {c}
  <1> DEFINE st == Replaced(stack, t, e)
  <1>1. stack \in Stacks /\ Distinct(stack) /\ Top(t) = Last(stack[t])
    BY LayoutFacts DEF Top
  <1>2. stack' = Added(st, t, c)
    <2>1. stack[t] \in Seq(FrameSet)
      BY <1>1 DEF Stacks
    <2>2. Front(stack[t]) \o <<e, c>> = Append(Append(Front(stack[t]), e), c)
      BY <2>1, ReplaceAndPush
    <2>3. stack' = [stack EXCEPT ![t] = Append(Append(Front(stack[t]), e), c)]
      BY <2>2 DEF WithCall
    <2>4. st = [stack EXCEPT ![t] = Append(Front(stack[t]), e)]
      BY DEF Replaced
    <2> HIDE DEF st
    <2>5. [st EXCEPT ![t] = Append(@, c)] = [st EXCEPT ![t] = Append(Append(Front(stack[t]), e), c)]
      BY <1>1, <2>4 DEF Stacks
    <2> QED
      BY <1>1, <2>3, <2>4, <2>5 DEF Stacks, Added
  <1>3. st = Replaced(stack, t, e)
    OBVIOUS
  <1> HIDE DEF st
  <1>4. /\ st \in Stacks /\ Distinct(st)
        /\ Top(t) \in Frames(stack)
        /\ Frames(st) = (Frames(stack) \ {Top(t)}) \cup {e}
        /\ \A u \in Threads : /\ Len(st[u]) = Len(stack[u])
                              /\ \A i \in 1..Len(stack[u]) : st[u][i].node = stack[u][i].node
        /\ \A u \in Threads : u # t => st[u] = stack[u]
        /\ st[t] # << >>
    <2>1. e.node = Last(stack[t]).node
      BY <1>1
    <2>2. /\ st \in Stacks /\ Distinct(st)
          /\ Last(stack[t]) \in Frames(stack)
          /\ Frames(st) = (Frames(stack) \ {Last(stack[t])}) \cup {e}
          /\ \A u \in Threads :
               /\ Len(st[u]) = Len(stack[u])
               /\ \A i \in 1..Len(stack[u]) : st[u][i].node = stack[u][i].node
          /\ \A u \in Threads : u # t => st[u] = stack[u]
          /\ st[t] # << >>
      BY <1>1, <1>3, <2>1, ReplaceFrame
    <2> QED
      BY <1>1, <2>2
  <1>5. \A f \in Frames(st) : FrameFits(f)' /\ f.node # c.node
    BY <1>4, FitsKept DEF Layout
  <1>6. \A u \in Threads : \A i \in 1..Len(st[u]) :
          st[u][i].node = NoNode <=> u = Audio /\ i = 1 /\ apc = "seed"
    BY <1>4 DEF Layout, SeedFrame
  <1>7. /\ apc = "seed" => st[Audio] # << >>
        /\ apc \in {"idle", "publish"} => st[Audio] = << >>
        /\ t = Audio => apc \notin {"idle", "publish"}
    BY <1>4 DEF Layout, SeedFrame, Threads
  <1>8. Layout' /\ Frames(stack') = Frames(st) \cup {c}
    BY <1>2, <1>4, <1>5, <1>6, <1>7, LayoutAdded
  <1> QED
    BY <1>4, <1>8

LEMMA LayoutStarted ==
  ASSUME TInv, Layout, NEW t \in Threads, stack[t] = << >>,
         t = Audio => apc \notin {"idle", "publish"},
         NEW c \in FrameSet, \A f \in Frames(stack) : f.node # c.node, c.node # NoNode,
         FrameFits(c)',
         stack' = [stack EXCEPT ![t] = <<c>>], UNCHANGED <<graph, apc>>
  PROVE  Layout' /\ Frames(stack') = Frames(stack) \cup {c}
  <1>1. stack \in Stacks /\ Distinct(stack)
    BY LayoutFacts
  <1>2. stack' = Added(stack, t, c)
    <2>1. Append(<< >>, c) = <<c>>
      OBVIOUS
    <2>2. stack[t] = << >>
      OBVIOUS
    <2> QED
      BY <2>1, <2>2 DEF Added
  <1>3. \A f \in Frames(stack) : FrameFits(f)'
    BY FitsKept DEF Layout
  <1> QED
    BY <1>1, <1>2, <1>3, LayoutAdded DEF Layout, SeedFrame

LEMMA LayoutLeft ==
  ASSUME TInv, Layout, NEW t \in Threads, stack[t] # << >>, Top(t).node # NoNode,
         stack' = [stack EXCEPT ![t] = Front(@)], UNCHANGED <<graph, apc>>
  PROVE  Layout' /\ Frames(stack') = Frames(stack) \ {Top(t)}
  <1> DEFINE st2 == stack'
  <1>1. st2 = Dropped(stack, t) /\ Top(t) = Last(stack[t])
    BY DEF Top, Dropped
  <1>2. stack \in Stacks /\ Distinct(stack)
    BY LayoutFacts
  <1> HIDE DEF st2
  <1>3. /\ st2 \in Stacks /\ Distinct(st2)
        /\ Frames(st2) = Frames(stack) \ {Top(t)}
        /\ \A u \in Threads : \A i \in 1..Len(st2[u]) : /\ i \in 1..Len(stack[u])
                                                        /\ st2[u][i] = stack[u][i]
        /\ \A u \in Threads : \A i \in 1..Len(stack[u]) :
             i \notin 1..Len(st2[u]) => u = t /\ i = Len(stack[t])
        /\ \A u \in Threads : u # t => st2[u] = stack[u]
    <2>2. /\ st2 \in Stacks /\ Distinct(st2)
          /\ Frames(st2) = Frames(stack) \ {Last(stack[t])}
          /\ \A u \in Threads : \A i \in 1..Len(st2[u]) : /\ i \in 1..Len(stack[u])
                                                          /\ st2[u][i] = stack[u][i]
          /\ \A u \in Threads : \A i \in 1..Len(stack[u]) :
               i \notin 1..Len(st2[u]) => u = t /\ i = Len(stack[t])
          /\ \A u \in Threads : u # t => st2[u] = stack[u]
      BY <1>1, <1>2, DropFrame
    <2> QED
      BY <1>1, <2>2
  <1>4. Audio \in Threads /\ stack[Audio] \in Seq(FrameSet) /\ stack[t] \in Seq(FrameSet)
    BY <1>2 DEF Threads, Stacks
  <1>5. apc = "seed" => st2[Audio] # << >>
    <2> SUFFICES ASSUME apc = "seed", st2[Audio] = << >> PROVE FALSE
      OBVIOUS
    <2>1. stack[Audio] # << >> /\ Len(stack[Audio]) \in Nat \ {0}
      BY <1>4, EmptySeq DEF Layout, SeedFrame
    <2>2. 1 \in 1..Len(stack[Audio]) /\ 1 \notin 1..Len(st2[Audio])
      BY <2>1, EmptySeq
    <2>3. t = Audio /\ 1 = Len(stack[Audio])
      <3>1. \A i \in 1..Len(stack[Audio]) :
              i \notin 1..Len(st2[Audio]) => Audio = t /\ i = Len(stack[t])
        BY <1>3, <1>4, Zenon
      <3>2. Audio = t /\ 1 = Len(stack[t])
        BY <2>2, <3>1
      <3> QED
        BY <3>2
    <2>4. stack[Audio][1].node = NoNode
      BY <1>4, <2>2 DEF Layout, SeedFrame
    <2> QED
      BY <2>3, <2>4 DEF Top, Last
  <1>6. apc \notin {"idle", "publish"} \/ t # Audio
    BY DEF Layout, SeedFrame
  <1>7. SeedFrame'
    BY <1>3, <1>4, <1>5, <1>6 DEF Layout, SeedFrame, st2
  <1>8. \A f \in Frames(st2) : FrameFits(f)'
    BY <1>3, FitsKept DEF Layout
  <1> QED
    BY <1>3, <1>7, <1>8 DEF Layout, st2

-----------------------------------------------------------------------------
(* The ready queue *)

LEMMA QueuePushed ==
  ASSUME NEW q \in Seq(Nodes), Once(q), NEW m \in Nodes, m \notin Elements(q)
  PROVE  Once(Append(q, m)) /\ Elements(Append(q, m)) = Elements(q) \cup {m}
  <1> DEFINE r == Append(q, m)
  <1>1. /\ Len(q) \in Nat /\ Len(r) = Len(q) + 1
        /\ \A i \in 1..Len(q) : r[i] = q[i]
        /\ r[Len(q) + 1] = m
    BY AppendProperties, LenProperties
  <1>2. \A i \in 1..Len(r) : i \in 1..Len(q) \/ i = Len(q) + 1
    BY <1>1
  <1>3. /\ \A i \in 1..Len(q) : i \in 1..Len(r) /\ q[i] # m
        /\ Len(q) + 1 \in 1..Len(r)
    BY <1>1 DEF Elements
  <1> HIDE DEF r
  <1>4. Once(r)
    BY <1>1, <1>2, <1>3 DEF Once
  <1>5. ASSUME NEW x PROVE x \in Elements(r) <=> x \in Elements(q) \/ x = m
    <2>1. ASSUME x \in Elements(r) PROVE x \in Elements(q) \/ x = m
      <3>1. PICK i \in 1..Len(r) : x = r[i]
        BY <2>1 DEF Elements
      <3> QED
        BY <1>1, <1>2, <3>1 DEF Elements
    <2>2. ASSUME x \in Elements(q) PROVE x \in Elements(r)
      <3>1. PICK i \in 1..Len(q) : x = q[i]
        BY <2>2 DEF Elements
      <3>2. i \in 1..Len(r) /\ x = r[i]
        BY <1>1, <1>3, <3>1
      <3> QED
        BY <3>2 DEF Elements
    <2>3. m \in Elements(r)
      <3>1. Len(q) + 1 \in 1..Len(r) /\ r[Len(q) + 1] = m
        BY <1>1, <1>3
      <3>2. r[Len(q) + 1] \in Elements(r)
        BY <3>1 DEF Elements
      <3> QED
        BY <3>1, <3>2
    <2> QED
      BY <2>1, <2>2, <2>3
  <1> QED
    BY <1>4, <1>5 DEF r

LEMMA QueuePopped ==
  ASSUME NEW q \in Seq(Nodes), Once(q), q # << >>
  PROVE  /\ Once(Tail(q)) /\ Head(q) \in Elements(q)
         /\ Elements(Tail(q)) = Elements(q) \ {Head(q)}
  <1> DEFINE r == Tail(q)
  <1>1. /\ Len(q) \in Nat \ {0} /\ Len(r) = Len(q) - 1
        /\ \A i \in 1..Len(r) : r[i] = q[i + 1]
        /\ Head(q) = q[1]
    BY HeadTailProperties, EmptySeq
  <1> HIDE DEF r
  <1>2. /\ \A i \in 1..Len(r) : i + 1 \in 1..Len(q) /\ i + 1 # 1
        /\ \A i \in 1..Len(q) : i # 1 => i - 1 \in 1..Len(r) /\ i = (i - 1) + 1
        /\ 1 \in 1..Len(q)
    BY <1>1
  <1>3. Once(r)
    <2> SUFFICES ASSUME NEW i \in 1..Len(r), NEW j \in 1..Len(r), r[i] = r[j] PROVE i = j
      BY DEF Once
    <2>1. i + 1 = j + 1
      BY <1>1, <1>2 DEF Once
    <2> QED
      BY <2>1
  <1>4. ASSUME NEW x PROVE x \in Elements(r) <=> x \in Elements(q) /\ x # Head(q)
    <2>1. ASSUME x \in Elements(r) PROVE x \in Elements(q) /\ x # Head(q)
      <3>1. PICK i \in 1..Len(r) : x = r[i]
        BY <2>1 DEF Elements
      <3>2. i + 1 \in 1..Len(q) /\ x = q[i + 1] /\ i + 1 # 1
        BY <1>1, <1>2, <3>1
      <3> QED
        BY <1>1, <1>2, <3>2 DEF Elements, Once
    <2>2. ASSUME x \in Elements(q), x # Head(q) PROVE x \in Elements(r)
      <3>1. PICK i \in 1..Len(q) : x = q[i]
        BY <2>2 DEF Elements
      <3>2. i - 1 \in 1..Len(r) /\ x = r[i - 1]
        <4>1. i # 1
          BY <1>1, <2>2, <3>1
        <4>2. i - 1 \in 1..Len(r) /\ (i - 1) + 1 = i
          BY <1>2, <4>1
        <4> QED
          BY <1>1, <3>1, <4>2
      <3> QED
        BY <3>2 DEF Elements
    <2> QED
      BY <2>1, <2>2
  <1>5. Head(q) \in Elements(q)
    BY <1>1, <1>2 DEF Elements
  <1> QED
    BY <1>3, <1>4, <1>5 DEF r

LEMMA QueueEmpty ==
  /\ Once(<< >>) /\ Elements(<< >>) = {}
  /\ \A q \in Seq(Nodes) : Elements(q) = {} => q = << >>
  <1>1. Len(<< >>) = 0
    OBVIOUS
  <1>2. 1..0 = {}
    OBVIOUS
  <1>3. Once(<< >>) /\ Elements(<< >>) = {}
    BY <1>1, <1>2 DEF Once, Elements
  <1>4. ASSUME NEW q \in Seq(Nodes), q # << >> PROVE Elements(q) # {}
    <2>1. 1 \in 1..Len(q)
      BY <1>4, EmptySeq
    <2> QED
      BY <2>1 DEF Elements
  <1> QED
    BY <1>3, <1>4

-----------------------------------------------------------------------------
(* The ledger: what the six steps of a node do to the counts *)

LEMMA CountDown ==
  ASSUME NEW S, IsFiniteSet(S), NEW x \in S
  PROVE  Cardinality(S \ {x}) = Cardinality(S) - 1 /\ Cardinality(S) \in Nat
  BY FS_RemoveElement, FS_CardinalityType

LEMMA CountUp ==
  ASSUME NEW S, IsFiniteSet(S), NEW x, x \notin S
  PROVE  Cardinality(S \cup {x}) = Cardinality(S) + 1
  BY FS_AddElement

\* The sets that are counted are finite.
LEMMA LedgerSets ==
  ASSUME RestTyped
  PROVE  /\ graph \in setup.graphs /\ finished \subseteq Nodes
         /\ Jobs(graph) \subseteq Nodes /\ DOMAIN graph = Jobs(graph)
         /\ Busy \subseteq Nodes /\ Notifying \subseteq Nodes /\ Startable \subseteq Nodes \cup Queued
         /\ \A T \in SUBSET Nodes : IsFiniteSet(T)
         /\ \A m \in Jobs(graph) : /\ graph[m] \subseteq Jobs(graph)
                                   /\ Owing(m) \subseteq graph[m] /\ IsFiniteSet(Owing(m))
  <1>1. graph \in setup.graphs /\ finished \subseteq Nodes
    BY DEF RestTyped
  <1>2. Jobs(graph) \subseteq Nodes /\ \A n \in Jobs(graph) : graph[n] \subseteq Jobs(graph)
    BY <1>1, SetupFacts
  <1>3. \A T \in SUBSET Nodes : IsFiniteSet(T)
    BY GraphAssumption, FS_Subset
  <1>4. Busy \subseteq Nodes /\ Notifying \subseteq Nodes /\ Startable \subseteq Nodes \cup Queued
    BY DEF Busy, Notifying, Running, Fanning, NodesAt, Startable, Seeding, InHand, Grabbed,
           Left, Carried, Taken
  <1>5. \A m \in Jobs(graph) : Owing(m) \subseteq graph[m]
    BY DEF Owing
  <1>6. \A m \in Jobs(graph) : IsFiniteSet(Owing(m))
    BY <1>2, <1>3, <1>5
  <1> QED
    BY <1>1, <1>2, <1>3, <1>4, <1>5, <1>6 DEF Jobs

\* Nothing is counted when a node only changes hands.
LEMMA LedgerKept ==
  ASSUME RestTyped, Ledger,
         UNCHANGED <<graph, finished, runs, active, pending>>,
         Busy' = Busy, Notifying' = Notifying, Startable' = Startable,
         \A n \in Nodes : Left(Frames(stack'), n) = Left(Frames(stack), n),
         apc' # "idle" => apc # "idle" /\ jobs' = jobs
  PROVE  Ledger'
  <1>1. \A m \in Jobs(graph) : graph[m] \subseteq Nodes
    BY LedgerSets
  <1>2. \A m \in Jobs(graph) : Owing(m)' = Owing(m)
    BY <1>1 DEF Owing
  <1>3. Jobs(graph') = Jobs(graph) /\ HasCycle' = HasCycle /\ Reached' = Reached
    BY DEF Jobs, HasCycle, Sources, Reached
  <1> QED
    BY <1>2, <1>3 DEF Ledger

LEMMA LedgerBegin ==
  ASSUME RestTyped, Places, Ledger, NEW n \in Grabbed,
         UNCHANGED <<graph, finished, pending, apc, jobs>>,
         runs' = [runs EXCEPT ![n] = @ + 1], active' = active + 1,
         Busy' = Busy \cup {n}, Notifying' = Notifying, Startable' = Startable \ {n},
         \A k \in Nodes : Left(Frames(stack'), k) = Left(Frames(stack), k)
  PROVE  Ledger'
  <1>1. \A m \in Jobs(graph) : graph[m] \subseteq Nodes
    BY LedgerSets
  <1>2. \A m \in Jobs(graph) : Owing(m)' = Owing(m)
    BY <1>1 DEF Owing
  <1>3. n \in Startable /\ n \notin Busy /\ n \notin finished /\ n \in Nodes /\ n \notin Notifying
    <2>1. n \in Startable
      BY DEF Startable
    <2>2. n \in Nodes
      BY DEF Grabbed, Taken, NodesAt
    <2> QED
      BY <2>1, <2>2 DEF Places
  <1>4. Jobs(graph') = Jobs(graph) /\ HasCycle' = HasCycle
    BY DEF Jobs, HasCycle, Sources
  <1>5. Reached' = Reached
    BY <1>3 DEF Reached
  <1>6. runs' = [k \in Nodes |-> IF k \in Busy' \cup finished' THEN 1 ELSE 0]
    <2>1. runs = [k \in Nodes |-> IF k \in Busy \cup finished THEN 1 ELSE 0]
      BY DEF Ledger
    <2>2. runs[n] = 0
      BY <1>3, <2>1
    <2>3. runs' = [runs EXCEPT ![n] = 1]
      BY <2>2
    <2> QED
      BY <1>3, <2>1, <2>3
  <1>7. active' = Cardinality(Busy' \cup Notifying')
    <2>1. Busy' \cup Notifying' = (Busy \cup Notifying) \cup {n}
      OBVIOUS
    <2>2. IsFiniteSet(Busy \cup Notifying) /\ n \notin Busy \cup Notifying
      BY <1>3, LedgerSets
    <2>3. Cardinality((Busy \cup Notifying) \cup {n}) = Cardinality(Busy \cup Notifying) + 1
      BY <2>2, CountUp
    <2> QED
      BY <2>1, <2>3 DEF Ledger
  <1> QED
    BY <1>2, <1>4, <1>5, <1>6, <1>7 DEF Ledger

LEMMA LedgerFinish ==
  ASSUME RestTyped, Places, Ledger, NEW n \in Busy, apc # "idle",
         UNCHANGED <<graph, pending, apc, jobs, runs, active>>,
         finished' = finished \cup {n},
         Busy' = Busy \ {n}, Notifying' = Notifying \cup {n}, Startable' = Startable,
         \A k \in Nodes : Left(Frames(stack'), k) = IF k = n THEN Successors(graph, n)
                                                    ELSE Left(Frames(stack), k)
  PROVE  Ledger'
  <1>1. /\ \A m \in Jobs(graph) : graph[m] \subseteq Nodes
        /\ n \in Nodes /\ n \in Jobs(graph) /\ n \in Reached /\ n \notin finished
    BY LedgerSets DEF Places, Reached
  <1>2. ASSUME NEW m \in Jobs(graph) PROVE Owing(m)' = Owing(m)
    BY <1>1 DEF Owing, Successors
  <1>3. Jobs(graph') = Jobs(graph) /\ HasCycle' = HasCycle
    BY DEF Jobs, HasCycle, Sources
  <1>4. Reached' = Reached
    BY DEF Reached
  <1>5. ~ HasCycle
    <2> SUFFICES ASSUME HasCycle PROVE FALSE
      OBVIOUS
    <2>1. Owing(n) = {} /\ finished = {}
      BY <1>1 DEF Ledger
    <2>2. graph[n] = {}
      BY <2>1 DEF Owing
    <2> QED
      BY <1>1, <2>2 DEF HasCycle, Sources
  <1>6. Busy' \cup finished' = Busy \cup finished
    OBVIOUS
  <1>7. Busy' \cup Notifying' = Busy \cup Notifying
    OBVIOUS
  <1>8. Jobs(graph) \ (finished' \ Notifying') = Jobs(graph) \ (finished \ Notifying)
    BY <1>1 DEF Places
  <1>9. runs' = [k \in Nodes |-> IF k \in Busy' \cup finished' THEN 1 ELSE 0]
    BY <1>6 DEF Ledger
  <1>10. active' = Cardinality(Busy' \cup Notifying')
    BY <1>7 DEF Ledger
  <1>11. jobs' = Cardinality(Jobs(graph') \ (finished' \ Notifying'))
    BY <1>3, <1>8 DEF Ledger
  <1>12. \A m \in Jobs(graph') : /\ pending'[m] = Cardinality(Owing(m)')
                                 /\ m \in Reached' <=> Owing(m)' = {}
    BY <1>2, <1>3, <1>4 DEF Ledger
  <1> QED
    BY <1>3, <1>5, <1>9, <1>10, <1>11, <1>12 DEF Ledger

LEMMA LedgerNotify ==
  ASSUME RestTyped, Places, Ledger, NEW n \in Notifying, apc # "idle",
         NEW m \in Left(Frames(stack), n), m \in Successors(graph, n),
         UNCHANGED <<graph, apc, jobs, runs, active, finished>>,
         pending' = [pending EXCEPT ![m] = @ - 1],
         Busy' = Busy, Notifying' = Notifying,
         Startable' = IF pending[m] = 1 THEN Startable \cup {m} ELSE Startable,
         \A k \in Nodes : Left(Frames(stack'), k) = IF k = n THEN Left(Frames(stack), k) \ {m}
                                                    ELSE Left(Frames(stack), k)
  PROVE  Ledger' /\ m \notin Reached
  <1>1. /\ \A j \in Jobs(graph) : graph[j] \subseteq Nodes
        /\ n \in Nodes /\ n \in finished /\ m \in Jobs(graph) /\ n \in graph[m]
    BY LedgerSets DEF Places, Successors
  <1>2. n \in Owing(m)
    BY <1>1 DEF Owing
  <1>3. ASSUME NEW j \in Jobs(graph), j # m PROVE Owing(j)' = Owing(j)
    BY <1>1, <1>3 DEF Owing
  <1>4. Owing(m)' = Owing(m) \ {n}
    BY <1>1 DEF Owing
  <1>5. IsFiniteSet(Owing(m)) /\ pending[m] = Cardinality(Owing(m)) /\ m \notin Reached
    BY <1>1, <1>2, LedgerSets DEF Ledger
  <1>6. /\ Cardinality(Owing(m)') = pending[m] - 1 /\ pending[m] \in Nat
    BY <1>2, <1>4, <1>5, CountDown
  <1>7. Owing(m)' = {} <=> pending[m] = 1
    <2>1. IsFiniteSet(Owing(m)')
      BY <1>4, <1>5, FS_RemoveElement
    <2>2. Owing(m)' = {} <=> Cardinality(Owing(m)') = 0
      BY <2>1, FS_EmptySet
    <2> QED
      BY <1>6, <2>2
  <1>8. Jobs(graph') = Jobs(graph) /\ HasCycle' = HasCycle
    BY DEF Jobs, HasCycle, Sources
  <1>9. Reached' = IF pending[m] = 1 THEN Reached \cup {m} ELSE Reached
    BY DEF Reached
  <1>10. ASSUME NEW j \in Jobs(graph')
         PROVE  pending'[j] = Cardinality(Owing(j)') /\ (j \in Reached' <=> Owing(j)' = {})
    <2>1. j \in Jobs(graph) /\ j \in Nodes /\ pending \in [Nodes -> Int]
      BY <1>8, LedgerSets DEF RestTyped
    <2>2. CASE j = m
      <3>1. pending'[m] = pending[m] - 1
        BY <2>1, <2>2
      <3> QED
        BY <1>5, <1>6, <1>7, <1>9, <2>2, <3>1
    <2>3. CASE j # m
      <3>1. pending'[j] = pending[j]
        BY <2>1, <2>3
      <3>2. pending[j] = Cardinality(Owing(j)) /\ (j \in Reached <=> Owing(j) = {})
        BY <2>1 DEF Ledger
      <3> QED
        BY <1>3, <1>9, <2>1, <2>3, <3>1, <3>2
    <2> QED
      BY <2>2, <2>3
  <1>11. /\ runs' = [k \in Nodes |-> IF k \in Busy' \cup finished' THEN 1 ELSE 0]
         /\ active' = Cardinality(Busy' \cup Notifying')
         /\ jobs' = Cardinality(Jobs(graph') \ (finished' \ Notifying'))
         /\ HasCycle' => finished' = {}
    BY <1>8 DEF Ledger
  <1> QED
    BY <1>5, <1>10, <1>11 DEF Ledger

LEMMA LedgerLeave ==
  ASSUME RestTyped, Places, Ledger, NEW n \in Notifying, apc # "idle",
         UNCHANGED <<graph, apc, runs, finished, pending>>,
         jobs' = jobs - 1, active' = active - 1,
         Busy' = Busy, Notifying' = Notifying \ {n}, Startable' = Startable,
         \A k \in Nodes : Left(Frames(stack'), k) = Left(Frames(stack), k)
  PROVE  Ledger'
  <1>1. /\ \A j \in Jobs(graph) : graph[j] \subseteq Nodes
        /\ n \in Nodes /\ n \in finished /\ n \in Jobs(graph) /\ n \notin Busy
    BY LedgerSets DEF Places, Reached
  <1>2. \A m \in Jobs(graph) : Owing(m)' = Owing(m)
    BY <1>1 DEF Owing
  <1>3. Jobs(graph') = Jobs(graph) /\ HasCycle' = HasCycle /\ Reached' = Reached
    BY DEF Jobs, HasCycle, Sources, Reached
  <1>4. active' = Cardinality(Busy' \cup Notifying')
    <2>1. Busy' \cup Notifying' = (Busy \cup Notifying) \ {n}
      BY <1>1
    <2>2. IsFiniteSet(Busy \cup Notifying) /\ n \in Busy \cup Notifying
      BY LedgerSets
    <2>3. Cardinality((Busy \cup Notifying) \ {n}) = Cardinality(Busy \cup Notifying) - 1
      BY <2>2, CountDown
    <2> QED
      BY <2>1, <2>3 DEF Ledger
  <1>5. jobs' = Cardinality(Jobs(graph') \ (finished' \ Notifying'))
    <2> DEFINE S == Jobs(graph) \ (finished \ Notifying)
    <2>1. Jobs(graph') \ (finished' \ Notifying') = S \ {n}
      BY <1>1, <1>3
    <2>2. IsFiniteSet(S) /\ n \in S
      BY <1>1, LedgerSets
    <2>3. Cardinality(S \ {n}) = Cardinality(S) - 1
      BY <2>2, CountDown
    <2> QED
      BY <2>1, <2>3 DEF Ledger
  <1> QED
    BY <1>2, <1>3, <1>4, <1>5 DEF Ledger

\* Nothing counted yet: a block is opened.
LEMMA LedgerOpened ==
  ASSUME RestTyped, RestTyped', NEW g \in setup.graphs, graph' = g,
         pending' = [n \in Nodes |-> IF n \in Jobs(g) THEN Cardinality(g[n]) ELSE -1],
         jobs' = Cardinality(Jobs(g)), active' = 0,
         runs' = [n \in Nodes |-> 0], finished' = {},
         Busy' = {}, Notifying' = {}, Startable' = Sources(g)
  PROVE  Ledger'
  <1>1. Jobs(g) \subseteq Nodes /\ \A m \in Jobs(g) : g[m] \subseteq Jobs(g)
    BY SetupFacts
  <1>2. \A m \in Jobs(g) : Owing(m)' = g[m]
    BY DEF Owing
  <1>3. Reached' = Sources(g)
    BY DEF Reached
  <1>4. \A m \in Jobs(g) : /\ pending'[m] = Cardinality(Owing(m)')
                           /\ m \in Reached' <=> Owing(m)' = {}
    BY <1>1, <1>2, <1>3 DEF Sources
  <1>5. runs' = [k \in Nodes |-> IF k \in Busy' \cup finished' THEN 1 ELSE 0]
    OBVIOUS
  <1>6. active' = Cardinality(Busy' \cup Notifying')
    <2>1. Busy' \cup Notifying' = {}
      OBVIOUS
    <2> QED
      BY <2>1, FS_EmptySet
  <1>7. jobs' = Cardinality(Jobs(graph') \ (finished' \ Notifying'))
    <2>1. Jobs(graph') \ (finished' \ Notifying') = Jobs(g)
      OBVIOUS
    <2> QED
      BY <2>1
  <1> QED
    BY <1>4, <1>5, <1>6, <1>7 DEF Ledger

-----------------------------------------------------------------------------
(* What the steps of the stacks do to the places *)

LEMMA SwapEffect ==
  ASSUME TInv, Layout, NextOnce(Frames(stack)), NEW t \in Threads, stack[t] # << >>,
         NEW e \in FrameSet, e.node = Top(t).node, FrameFits(e)',
         stack' = WithTop(t, e), UNCHANGED <<graph, apc>>
  PROVE  /\ Layout'
         /\ Grabbed' = IF Counted(e, {"load", "popped"}) THEN Grabbed \cup {e.node}
                       ELSE Grabbed \ {e.node}
         /\ Busy' = IF Counted(e, {"running"}) THEN Busy \cup {e.node} ELSE Busy \ {e.node}
         /\ Notifying' = IF Counted(e, InFanOut) THEN Notifying \cup {e.node}
                         ELSE Notifying \ {e.node}
         /\ \A n : Left(Frames(stack'), n) = IF n = e.node THEN e.left ELSE Left(Frames(stack), n)
         /\ Left(Frames(stack), e.node) = Top(t).left
         /\ e.next = Top(t).next => InHand' = InHand
         /\ e.next # NoNode /\ Top(t).next = NoNode => InHand' = InHand \cup {e.next}
         /\ Top(t).next # NoNode /\ e.next = NoNode =>
              InHand' = InHand \ {Top(t).next} /\ Top(t).next \in InHand
         /\ e.next \in {Top(t).next, NoNode} => NextOnce(Frames(stack'))
         /\ e.next \notin InHand => NextOnce(Frames(stack'))
  <1> DEFINE F == Frames(stack)
             F2 == Frames(stack')
             f == Top(t)
  <1>1. Layout' /\ F2 = Swapped(F, f, e)
    BY LayoutReplaced DEF Swapped
  <1>2. F \in SUBSET FrameSet /\ OneEach(F) /\ f \in F /\ NextOnce(F)
    BY LayoutFacts
  <1> HIDE DEF F, F2, f
  <1>3. e.node = f.node
    BY DEF f
  <1>4. /\ Taken(F2) = IF Counted(e, {"load", "popped"}) THEN Taken(F) \cup {e.node}
                       ELSE Taken(F) \ {e.node}
        /\ Running(F2) = IF Counted(e, {"running"}) THEN Running(F) \cup {e.node}
                         ELSE Running(F) \ {e.node}
        /\ Fanning(F2) = IF Counted(e, InFanOut) THEN Fanning(F) \cup {e.node}
                         ELSE Fanning(F) \ {e.node}
        /\ \A n : Left(F2, n) = IF n = e.node THEN e.left ELSE Left(F, n)
        /\ Left(F, e.node) = f.left
        /\ e.next = f.next => Carried(F2) = Carried(F)
        /\ e.next # NoNode /\ f.next = NoNode => Carried(F2) = Carried(F) \cup {e.next}
        /\ f.next # NoNode /\ e.next = NoNode =>
             Carried(F2) = Carried(F) \ {f.next} /\ f.next \in Carried(F)
        /\ e.next \in {f.next, NoNode} => NextOnce(F2)
        /\ e.next \notin Carried(F) => NextOnce(F2)
    BY <1>1, <1>2, <1>3, SwapSets
  <1> QED
    BY <1>1, <1>4 DEF F, F2, f, Grabbed, Busy, Notifying, InHand

LEMMA StartEffect ==
  ASSUME TInv, Layout, NextOnce(Frames(stack)), NEW t \in Threads, stack[t] = << >>,
         t = Audio => apc \notin {"idle", "publish"},
         NEW c \in FrameSet, c.node \in Nodes, c.next = NoNode, c.left = {},
         c.at \in {"load", "popped"}, \A f \in Frames(stack) : f.node # c.node,
         FrameFits(c)',
         stack' = [stack EXCEPT ![t] = <<c>>], UNCHANGED <<graph, apc>>
  PROVE  /\ Layout' /\ NextOnce(Frames(stack'))
         /\ Grabbed' = Grabbed \cup {c.node} /\ Busy' = Busy /\ Notifying' = Notifying
         /\ \A n : Left(Frames(stack'), n) = Left(Frames(stack), n)
         /\ InHand' = InHand
  <1> DEFINE F == Frames(stack)
             F2 == Frames(stack')
  <1>1. Layout' /\ F2 = With(F, c)
    <2>1. c.node # NoNode
      BY SchedulerAssumption
    <2> QED
      BY <2>1, LayoutStarted DEF With
  <1>2. F \in SUBSET FrameSet /\ NextOnce(F) /\ \A f \in F : f.node # c.node
    BY LayoutFacts
  <1> HIDE DEF F, F2
  <1>3. /\ Taken(F2) = Taken(F) \cup {c.node}
        /\ Running(F2) = Running(F) /\ Fanning(F2) = Fanning(F)
        /\ \A n : Left(F2, n) = Left(F, n)
        /\ Carried(F2) = Carried(F)
        /\ NextOnce(F) => NextOnce(F2)
    BY <1>1, <1>2, AddSets
  <1> QED
    BY <1>1, <1>2, <1>3 DEF F, F2, Grabbed, Busy, Notifying, InHand

LEMMA CallEffect ==
  ASSUME TInv, Layout, NextOnce(Frames(stack)), NEW t \in Threads, stack[t] # << >>,
         NEW e \in FrameSet, e.node = Top(t).node, e.left = Top(t).left,
         e.at \in InFanOut, Top(t).at \in InFanOut, FrameFits(e)',
         NEW c \in FrameSet, c.node \in Nodes, c.next = NoNode, c.left = {},
         c.at \in {"load", "popped"}, \A f \in Frames(stack) : f.node # c.node,
         FrameFits(c)',
         stack' = WithCall(t, e, c), UNCHANGED <<graph, apc>>
  PROVE  /\ Layout'
         /\ Grabbed' = Grabbed \cup {c.node} /\ Busy' = Busy /\ Notifying' = Notifying
         /\ \A n : Left(Frames(stack'), n) = Left(Frames(stack), n)
         /\ e.next = Top(t).next => InHand' = InHand /\ NextOnce(Frames(stack'))
         /\ Top(t).next # NoNode /\ e.next = NoNode =>
              /\ InHand' = InHand \ {Top(t).next} /\ Top(t).next \in InHand
              /\ NextOnce(Frames(stack'))
  <1> DEFINE F == Frames(stack)
             F2 == Frames(stack')
             f == Top(t)
             G == Swapped(F, f, e)
  <1>1. Layout' /\ F2 = With(G, c)
    <2>1. c.node # NoNode
      BY SchedulerAssumption
    <2> QED
      BY <2>1, LayoutCalled DEF With, Swapped
  <1>2. /\ F \in SUBSET FrameSet /\ OneEach(F) /\ f \in F /\ NextOnce(F)
        /\ \A g \in F : g.node # c.node
    BY LayoutFacts
  <1>3. e.node = f.node /\ e.left = f.left /\ f.at \in InFanOut
    BY DEF f
  <1>4. G \in SUBSET FrameSet /\ (\A g \in G : g.node # c.node) /\ G = Swapped(F, f, e)
    BY <1>2, <1>3 DEF Swapped
  <1> HIDE DEF F, F2, f, G
  <1>5. /\ Taken(G) = IF Counted(e, {"load", "popped"}) THEN Taken(F) \cup {e.node}
                      ELSE Taken(F) \ {e.node}
        /\ Running(G) = IF Counted(e, {"running"}) THEN Running(F) \cup {e.node}
                        ELSE Running(F) \ {e.node}
        /\ Fanning(G) = IF Counted(e, InFanOut) THEN Fanning(F) \cup {e.node}
                        ELSE Fanning(F) \ {e.node}
        /\ \A n : Left(G, n) = IF n = e.node THEN e.left ELSE Left(F, n)
        /\ Left(F, e.node) = f.left
        /\ e.next = f.next => Carried(G) = Carried(F)
        /\ f.next # NoNode /\ e.next = NoNode =>
             Carried(G) = Carried(F) \ {f.next} /\ f.next \in Carried(F)
        /\ e.next \in {f.next, NoNode} => NextOnce(G)
    BY <1>2, <1>3, <1>4, SwapSets
  <1>6. /\ Taken(F2) = Taken(G) \cup {c.node}
        /\ Running(F2) = Running(G) /\ Fanning(F2) = Fanning(G)
        /\ \A n : Left(F2, n) = Left(G, n)
        /\ Carried(F2) = Carried(G)
        /\ NextOnce(G) => NextOnce(F2)
    BY <1>1, <1>4, AddSets
  <1>7. Taken(G) = Taken(F) /\ Running(G) = Running(F) /\ Fanning(G) = Fanning(F)
    <2>1. \A g \in F : g.node = e.node => g = f
      BY <1>2, <1>3 DEF OneEach
    <2>2. f.at \notin {"load", "popped"} /\ f.at \notin {"running"}
      BY <1>3 DEF InFanOut
    <2>3. e.node \notin Taken(F) /\ e.node \notin Running(F)
      BY <2>1, <2>2 DEF NodesAt, Taken, Running
    <2>4. e.node \in Fanning(F) <=> e.node \in Nodes
      BY <1>2, <1>3 DEF NodesAt, Fanning
    <2>5. /\ ~ Counted(e, {"load", "popped"}) /\ ~ Counted(e, {"running"})
          /\ Counted(e, InFanOut) <=> e.node \in Nodes
      BY DEF Counted, InFanOut
    <2> QED
      BY <1>5, <2>3, <2>4, <2>5
  <1>8. \A n : Left(F2, n) = Left(F, n)
    BY <1>3, <1>5, <1>6
  <1>9. /\ e.next = f.next => Carried(F2) = Carried(F) /\ NextOnce(F2)
        /\ f.next # NoNode /\ e.next = NoNode =>
             Carried(F2) = Carried(F) \ {f.next} /\ f.next \in Carried(F) /\ NextOnce(F2)
    BY <1>5, <1>6
  <1> QED
    BY <1>1, <1>6, <1>7, <1>8, <1>9 DEF F, F2, f, Grabbed, Busy, Notifying, InHand

LEMMA LeaveEffect ==
  ASSUME TInv, Layout, NextOnce(Frames(stack)), NEW t \in Threads, stack[t] # << >>,
         Top(t).node # NoNode, Top(t).next = NoNode, Top(t).left = {}, Top(t).at \in InFanOut,
         stack' = [stack EXCEPT ![t] = Front(@)], UNCHANGED <<graph, apc>>
  PROVE  /\ Layout' /\ NextOnce(Frames(stack'))
         /\ Grabbed' = Grabbed /\ Busy' = Busy
         /\ Notifying' = Notifying \ {Top(t).node} /\ Top(t).node \in Notifying
         /\ \A n : Left(Frames(stack'), n) = Left(Frames(stack), n)
         /\ InHand' = InHand
  <1> DEFINE F == Frames(stack)
             F2 == Frames(stack')
             f == Top(t)
  <1>1. Layout' /\ F2 = Without(F, f)
    BY LayoutLeft DEF Without
  <1>2. F \in SUBSET FrameSet /\ OneEach(F) /\ f \in F /\ NextOnce(F)
    BY LayoutFacts
  <1>3. f.next = NoNode /\ f.left = {} /\ f.at \in InFanOut /\ f.node # NoNode
    BY DEF f
  <1> HIDE DEF F, F2, f
  <1>4. /\ Taken(F2) = Taken(F) /\ Running(F2) = Running(F)
        /\ Fanning(F2) = Fanning(F) \ {f.node} /\ f.node \in Fanning(F)
        /\ \A n : Left(F2, n) = Left(F, n)
        /\ Carried(F2) = Carried(F)
        /\ NextOnce(F2)
    BY <1>1, <1>2, <1>3, DropSets
  <1> QED
    BY <1>1, <1>4 DEF F, F2, f, Grabbed, Busy, Notifying, InHand

-----------------------------------------------------------------------------
(* The steps of a thread that runs a node *)

Held == TInv /\ Layout /\ HandedOnce /\ Places /\ Ledger

\* A node that is yet to be popped or handed over is in no frame.
LEMMA FreeNode ==
  ASSUME TInv, Layout, Places, NEW m \in InHand \cup Queued
  PROVE  /\ m \in Nodes /\ m # NoNode
         /\ \A f \in Frames(stack) : f.node # m
  <1>1. m \in Nodes /\ m # NoNode
    <2>1. Jobs(graph) \subseteq Nodes
      BY TypeParts, LedgerSets
    <2>2. m \in Jobs(graph)
      BY DEF Places, Reached, Startable
    <2> QED
      BY <2>1, <2>2, SchedulerAssumption
  <1>2. ASSUME NEW f \in Frames(stack), f.node = m PROVE FALSE
    <2>1. Frames(stack) \in SUBSET FrameSet /\ OneEach(Frames(stack))
      BY LayoutFacts
    <2>2. m \in Grabbed \cup Busy \cup Notifying
      BY <1>1, <1>2, <2>1, OnePlaceEach DEF Grabbed, Busy, Notifying
    <2> QED
      BY <2>2 DEF Places, Startable
  <1> QED
    BY <1>1, <1>2

\* What the invariant says of the innermost frame of a thread.
LEMMA TopFacts ==
  ASSUME Held, Quiet, NEW t \in Threads, stack[t] # << >>
  PROVE  /\ apc # "idle" /\ RestTyped
         /\ Top(t) \in NamedFrames /\ Top(t) \in FrameSet
         /\ Top(t) \in Frames(stack) /\ FrameFits(Top(t))
         /\ Grabbed \cap (Busy \cup Notifying) = {} /\ Busy \cap Notifying = {}
         /\ Top(t).at \in {"load", "popped"} => Top(t).node \in Grabbed
         /\ Top(t).at = "running" => Top(t).node \in Busy
         /\ Top(t).at \in InFanOut /\ Top(t).node # NoNode => Top(t).node \in Notifying
         /\ Top(t).next # NoNode => Top(t).next \in InHand
  <1>1. apc # "idle" /\ RestTyped
    BY TypeParts DEF Quiet, Held
  <1>2. Top(t) \in NamedFrames /\ Top(t) \in FrameSet
    BY TopIsNamed DEF Held
  <1>3. /\ Top(t) \in Frames(stack) /\ FrameFits(Top(t))
        /\ Frames(stack) \in SUBSET FrameSet /\ OneEach(Frames(stack))
    BY LayoutFacts DEF Held
  <1>4. Grabbed \cap (Busy \cup Notifying) = {} /\ Busy \cap Notifying = {}
    BY <1>3, OnePlaceEach DEF Grabbed, Busy, Notifying
  <1>5. Top(t).at \in {"load", "popped"} => Top(t).node \in Grabbed
    BY <1>2, <1>3 DEF Grabbed, Taken, NodesAt, NamedFrames
  <1>6. Top(t).at = "running" => Top(t).node \in Busy
    BY <1>2, <1>3 DEF Busy, Running, NodesAt, NamedFrames
  <1>7. Top(t).at \in InFanOut /\ Top(t).node # NoNode => Top(t).node \in Notifying
    <2>1. Top(t).node \in Nodes \cup {NoNode}
      BY <1>2 DEF FrameSet
    <2> QED
      BY <1>3, <2>1 DEF Notifying, Fanning, NodesAt
  <1>8. Top(t).next # NoNode => Top(t).next \in InHand
    <2>1. Top(t).next \in Nodes \cup {NoNode}
      BY <1>2 DEF FrameSet
    <2> QED
      BY <1>3, <2>1 DEF InHand, Carried
  <1> QED
    BY <1>1, <1>2, <1>3, <1>4, <1>5, <1>6, <1>7, <1>8

LEMMA BeginHolds ==
  ASSUME Held, Quiet, NEW t \in Threads, Begin(t)
  PROVE  Layout' /\ HandedOnce' /\ Places' /\ Ledger'
  <1> DEFINE F == Top(t)
             n == F.node
             nf == IF F.at = "load" THEN sessionFrames ELSE F.nf
             E == [F EXCEPT !.at = "running", !.nf = nf]
  <1>1. stack[t] # << >> /\ F.at \in {"load", "popped"}
    BY DEF Begin, Runs
  <1>2. /\ stack' = WithTop(t, E) /\ runs' = [runs EXCEPT ![n] = @ + 1] /\ active' = active + 1
        /\ UNCHANGED <<graph, finished, pending, apc, jobs, ready>>
    BY DEF Begin
  <1>3. /\ RestTyped /\ F \in FrameSet /\ FrameFits(F) /\ n \in Grabbed /\ n \in Nodes
        /\ Grabbed \cap (Busy \cup Notifying) = {} /\ F.nf \in Nat /\ F \in NamedFrames
    <2>1. F \in NamedFrames /\ F \in FrameSet
      BY <1>1, TopFacts
    <2>2. n \in Nodes /\ F.nf \in Nat
      BY <1>1, <2>1 DEF NamedFrames, FrameSet
    <2> QED
      BY <1>1, <2>1, <2>2, TopFacts
  <1>4. PICK e \in FrameSet : /\ e = E /\ e.node = n /\ e.left = F.left
                             /\ e.next = F.next /\ e.at = "running"
    <2>1. nf \in Nat
      <3>1. sessionFrames \in Nat
        BY <1>3, SetupFacts DEF RestTyped
      <3> QED
        BY <1>3, <3>1
    <2> HIDE DEF nf
    <2>2. /\ E \in FrameSet /\ E.node = n /\ E.left = F.left
          /\ E.next = F.next /\ E.at = "running"
      BY <1>3, <2>1 DEF FrameSet
    <2> HIDE DEF E
    <2> QED
      BY <2>2
  <1> HIDE DEF E
  <1>5. FrameFits(e)'
    <2>1. FrameFits(e)
      <3>1. /\ e.node # NoNode /\ F.next = NoNode /\ e.next = NoNode /\ e.at = "running"
            /\ e.left \subseteq Successors(graph, e.node)
        BY <1>1, <1>3, <1>4, SchedulerAssumption DEF FrameFits
      <3> QED
        BY <3>1 DEF FrameFits
    <2> QED
      BY <1>2, <2>1, FitsKept
  <1>6. /\ Layout' /\ NextOnce(Frames(stack'))
        /\ Grabbed' = Grabbed \ {n} /\ Busy' = Busy \cup {n} /\ Notifying' = Notifying \ {n}
        /\ \A k : Left(Frames(stack'), k) = IF k = n THEN e.left ELSE Left(Frames(stack), k)
        /\ Left(Frames(stack), n) = e.left /\ InHand' = InHand
    BY <1>1, <1>2, <1>3, <1>4, <1>5, SwapEffect DEF Counted, InFanOut, Held, HandedOnce
  <1>7. Notifying' = Notifying /\ \A k : Left(Frames(stack'), k) = Left(Frames(stack), k)
    BY <1>3, <1>6
  <1>8. Seeding' = Seeding /\ Queued' = Queued
    BY <1>2, <1>7 DEF Seeding, Queued
  <1>9. Startable' = Startable \ {n}
    BY <1>3, <1>6, <1>8 DEF Startable, Held, Places
  <1>10. Ledger'
    BY <1>2, <1>3, <1>6, <1>7, <1>9, LedgerBegin DEF Held
  <1>11. Places'
    <2>1. Jobs(graph)' = Jobs(graph) /\ finished' = finished
      BY <1>2 DEF Jobs
    <2> QED
      BY <1>3, <1>6, <1>7, <1>8, <1>9, <2>1 DEF Places, Held, Reached, Startable
  <1> QED
    BY <1>2, <1>6, <1>10, <1>11 DEF HandedOnce, Held

LEMMA FinishHolds ==
  ASSUME Held, Quiet, NEW t \in Threads, Finish(t)
  PROVE  Layout' /\ HandedOnce' /\ Places' /\ Ledger'
  <1> DEFINE F == Top(t)
             n == F.node
             L == Successors(graph, n)
             E == [F EXCEPT !.at = "fanout", !.left = L]
  <1>1. stack[t] # << >> /\ F.at = "running"
    BY DEF Finish, Runs
  <1>2. /\ stack' = WithTop(t, E) /\ finished' = finished \cup {n}
        /\ UNCHANGED <<graph, runs, active, pending, apc, jobs, ready>>
    BY DEF Finish
  <1>3. /\ RestTyped /\ F \in FrameSet /\ FrameFits(F) /\ n \in Busy /\ n \in Nodes
        /\ Busy \cap (Grabbed \cup Notifying) = {} /\ F \in NamedFrames /\ apc # "idle"
        /\ L \subseteq Nodes
    <2>1. F \in NamedFrames /\ F \in FrameSet /\ RestTyped
      BY <1>1, TopFacts
    <2>2. n \in Nodes
      BY <1>1, <2>1 DEF NamedFrames, FrameSet
    <2>3. L \subseteq Nodes
      BY <2>1, LedgerSets DEF Successors
    <2> QED
      BY <1>1, <2>1, <2>2, <2>3, TopFacts
  <1>4. PICK e \in FrameSet : /\ e = E /\ e.node = n /\ e.left = L
                             /\ e.next = F.next /\ e.at = "fanout"
    <2> HIDE DEF L
    <2>1. /\ E \in FrameSet /\ E.node = n /\ E.left = L
          /\ E.next = F.next /\ E.at = "fanout"
      BY <1>3 DEF FrameSet
    <2> HIDE DEF E
    <2> QED
      BY <2>1
  <1> HIDE DEF E
  <1>5. FrameFits(e)'
    <2>1. FrameFits(e)
      <3>1. /\ e.node # NoNode /\ F.next = NoNode /\ e.next = NoNode /\ e.at = "fanout"
            /\ e.left = Successors(graph, e.node)
        BY <1>1, <1>3, <1>4, SchedulerAssumption DEF FrameFits
      <3> QED
        BY <3>1 DEF FrameFits, InFanOut
    <2> QED
      BY <1>2, <2>1, FitsKept
  <1>6. /\ Layout' /\ NextOnce(Frames(stack'))
        /\ Grabbed' = Grabbed \ {n} /\ Busy' = Busy \ {n} /\ Notifying' = Notifying \cup {n}
        /\ \A k : Left(Frames(stack'), k) = IF k = n THEN e.left ELSE Left(Frames(stack), k)
        /\ InHand' = InHand
    BY <1>1, <1>2, <1>3, <1>4, <1>5, SwapEffect DEF Counted, InFanOut, Held, HandedOnce
  <1>7. Grabbed' = Grabbed
    BY <1>3, <1>6
  <1>8. Seeding' = Seeding /\ Queued' = Queued
    <2>1. n # NoNode
      BY <1>3, SchedulerAssumption
    <2> QED
      BY <1>2, <1>6, <2>1 DEF Seeding, Queued
  <1>9. Startable' = Startable
    BY <1>6, <1>7, <1>8 DEF Startable
  <1>10. Ledger'
    <2>1. \A k \in Nodes : Left(Frames(stack'), k) = IF k = n THEN Successors(graph, n)
                                                     ELSE Left(Frames(stack), k)
      BY <1>4, <1>6
    <2> HIDE DEF L
    <2> QED
      BY <1>2, <1>3, <1>6, <1>9, <2>1, LedgerFinish DEF Held
  <1>11. Places'
    <2>1. Jobs(graph)' = Jobs(graph)
      BY <1>2 DEF Jobs
    <2> QED
      BY <1>2, <1>3, <1>6, <1>7, <1>8, <1>9, <2>1 DEF Places, Held, Reached, Startable
  <1> QED
    BY <1>2, <1>6, <1>10, <1>11 DEF HandedOnce, Held

\* A frame stays in its fan-out, and may take up or hand over a node.
LEMMA FanOutEffect ==
  ASSUME Held, Quiet, NEW t \in Threads, stack[t] # << >>, Top(t).at \in InFanOut,
         NEW e \in FrameSet, e.node = Top(t).node, e.at \in InFanOut,
         e.left \subseteq Top(t).left,
         e.at \in {"push", "help", "retry"} <=> e.next # NoNode,
         stack' = WithTop(t, e), UNCHANGED <<graph, apc>>
  PROVE  /\ Layout' /\ Grabbed' = Grabbed /\ Busy' = Busy /\ Notifying' = Notifying
         /\ \A n : Left(Frames(stack'), n) = IF n = e.node THEN e.left ELSE Left(Frames(stack), n)
         /\ Left(Frames(stack), e.node) = Top(t).left
         /\ e.next = Top(t).next => InHand' = InHand /\ NextOnce(Frames(stack'))
         /\ e.next # NoNode /\ Top(t).next = NoNode =>
              /\ InHand' = InHand \cup {e.next}
              /\ e.next \notin InHand => NextOnce(Frames(stack'))
         /\ Top(t).next # NoNode /\ e.next = NoNode =>
              /\ InHand' = InHand \ {Top(t).next} /\ Top(t).next \in InHand
              /\ NextOnce(Frames(stack'))
  <1>1. /\ FrameFits(Top(t)) /\ Grabbed \cap (Busy \cup Notifying) = {} /\ Busy \cap Notifying = {}
        /\ e.node # NoNode => e.node \in Notifying
    BY TopFacts
  <1>2. FrameFits(e)'
    <2>1. FrameFits(e)
      BY <1>1 DEF FrameFits
    <2> QED
      BY <2>1, FitsKept
  <1>3. TInv /\ Layout /\ NextOnce(Frames(stack))
    BY DEF Held, HandedOnce
  <1>4. /\ Layout'
        /\ Grabbed' = Grabbed \ {e.node} /\ Busy' = Busy \ {e.node}
        /\ Notifying' = IF e.node \in Nodes THEN Notifying \cup {e.node} ELSE Notifying \ {e.node}
        /\ \A n : Left(Frames(stack'), n) = IF n = e.node THEN e.left ELSE Left(Frames(stack), n)
        /\ Left(Frames(stack), e.node) = Top(t).left
        /\ e.next = Top(t).next => InHand' = InHand
        /\ e.next # NoNode /\ Top(t).next = NoNode => InHand' = InHand \cup {e.next}
        /\ Top(t).next # NoNode /\ e.next = NoNode =>
             InHand' = InHand \ {Top(t).next} /\ Top(t).next \in InHand
        /\ e.next \in {Top(t).next, NoNode} => NextOnce(Frames(stack'))
        /\ e.next \notin InHand => NextOnce(Frames(stack'))
    BY <1>2, <1>3, SwapEffect DEF Counted, InFanOut
  <1>5. /\ NoNode \notin Grabbed \cup Busy \cup Notifying
        /\ e.node \in Nodes \cup {NoNode}
    BY SchedulerAssumption DEF Grabbed, Busy, Notifying, Taken, Running, Fanning, NodesAt, FrameSet
  <1>6. Grabbed' = Grabbed /\ Busy' = Busy /\ Notifying' = Notifying
    <2>1. e.node \notin Grabbed /\ e.node \notin Busy
      BY <1>1, <1>5
    <2>2. Grabbed \ {e.node} = Grabbed /\ Busy \ {e.node} = Busy
      BY <2>1
    <2>3. CASE e.node = NoNode
      <3>1. Notifying \ {e.node} = Notifying
        BY <1>5, <2>3
      <3> QED
        BY <1>4, <2>2, <2>3, <3>1, SchedulerAssumption
    <2>4. CASE e.node # NoNode
      <3>1. Notifying \cup {e.node} = Notifying /\ e.node \in Nodes
        BY <1>1, <1>5, <2>4
      <3> QED
        BY <1>4, <2>2, <3>1
    <2> QED
      BY <2>3, <2>4
  <1> QED
    BY <1>4, <1>6

LEMMA NotifyHolds ==
  ASSUME Held, Quiet, NEW t \in Threads, Notify(t)
  PROVE  Layout' /\ HandedOnce' /\ Places' /\ Ledger'
  <1> DEFINE F == Top(t)
             n == F.node
  <1>1. stack[t] # << >> /\ F.at = "fanout" /\ n # NoNode
    BY DEF Notify, Runs
  <1>2. PICK m \in F.left :
          /\ pending' = [pending EXCEPT ![m] = @ - 1]
          /\ stack' = WithTop(t, IF pending[m] = 1
                                 THEN [[F EXCEPT !.left = @ \ {m}] EXCEPT !.at = "push", !.next = m]
                                 ELSE [F EXCEPT !.left = @ \ {m}])
    BY DEF Notify
  <1>3. UNCHANGED <<graph, runs, active, apc, jobs, ready, finished>>
    BY DEF Notify
  <1>4. /\ RestTyped /\ F \in FrameSet /\ FrameFits(F) /\ n \in Notifying /\ apc # "idle"
    BY <1>1, TopFacts DEF InFanOut
  <1>5. m \in Nodes /\ m # NoNode /\ F.next = NoNode /\ m \in Successors(graph, n)
    BY <1>1, <1>2, <1>4, SchedulerAssumption DEF FrameFits, FrameSet
  <1>6. PICK e \in FrameSet :
          /\ stack' = WithTop(t, e) /\ e.node = n /\ e.left = F.left \ {m}
          /\ e.at = IF pending[m] = 1 THEN "push" ELSE "fanout"
          /\ e.next = IF pending[m] = 1 THEN m ELSE NoNode
    <2> DEFINE E1 == [[F EXCEPT !.left = @ \ {m}] EXCEPT !.at = "push", !.next = m]
               E2 == [F EXCEPT !.left = @ \ {m}]
               E == IF pending[m] = 1 THEN E1 ELSE E2
    <2>1. /\ E1 \in FrameSet /\ E1.node = n /\ E1.left = F.left \ {m} /\ E1.at = "push"
          /\ E1.next = m
      BY <1>4, <1>5 DEF FrameSet
    <2>2. /\ E2 \in FrameSet /\ E2.node = n /\ E2.left = F.left \ {m} /\ E2.at = "fanout"
          /\ E2.next = NoNode
      BY <1>1, <1>4, <1>5 DEF FrameSet
    <2>3. stack' = WithTop(t, E)
      BY <1>2
    <2> HIDE DEF E1, E2
    <2>4. /\ E \in FrameSet /\ E.node = n /\ E.left = F.left \ {m}
          /\ E.at = IF pending[m] = 1 THEN "push" ELSE "fanout"
          /\ E.next = IF pending[m] = 1 THEN m ELSE NoNode
      BY <2>1, <2>2
    <2> HIDE DEF E
    <2> QED
      BY <2>3, <2>4
  <1>7. /\ Layout' /\ Grabbed' = Grabbed /\ Busy' = Busy /\ Notifying' = Notifying
        /\ \A k : Left(Frames(stack'), k) = IF k = n THEN e.left ELSE Left(Frames(stack), k)
        /\ Left(Frames(stack), n) = F.left
        /\ e.next = NoNode => InHand' = InHand /\ NextOnce(Frames(stack'))
        /\ e.next # NoNode => /\ InHand' = InHand \cup {e.next}
                              /\ e.next \notin InHand => NextOnce(Frames(stack'))
    <2>1. F.at \in InFanOut /\ e.at \in InFanOut
      BY <1>1, <1>6 DEF InFanOut
    <2>2. e.left \subseteq F.left /\ (e.at \in {"push", "help", "retry"} <=> e.next # NoNode)
      BY <1>5, <1>6
    <2> QED
      BY <1>1, <1>3, <1>5, <1>6, <2>1, <2>2, FanOutEffect
  <1>8. Seeding' = Seeding /\ Queued' = Queued
    BY <1>1, <1>3, <1>7 DEF Seeding, Queued
  <1>9. /\ InHand' = IF pending[m] = 1 THEN InHand \cup {m} ELSE InHand
        /\ m \notin InHand => NextOnce(Frames(stack'))
    BY <1>5, <1>6, <1>7
  <1>10. Startable' = IF pending[m] = 1 THEN Startable \cup {m} ELSE Startable
    BY <1>7, <1>8, <1>9 DEF Startable
  <1>11. Ledger' /\ m \notin Reached
    <2>1. \A k \in Nodes : Left(Frames(stack'), k) = IF k = n THEN Left(Frames(stack), k) \ {m}
                                                     ELSE Left(Frames(stack), k)
      BY <1>6, <1>7
    <2>2. m \in Left(Frames(stack), n) /\ Places /\ Ledger
      BY <1>2, <1>7 DEF Held
    <2> QED
      BY <1>2, <1>3, <1>4, <1>5, <1>7, <1>10, <2>1, <2>2, LedgerNotify
  <1>12. Places'
    <2>1. Jobs(graph)' = Jobs(graph)
      BY <1>3 DEF Jobs
    <2>2. m \in Jobs(graph)
      BY <1>5 DEF Successors
    <2> QED
      BY <1>3, <1>7, <1>8, <1>9, <1>10, <1>11, <2>1, <2>2 DEF Places, Held, Reached, Startable
  <1>13. NextOnce(Frames(stack')) /\ Once(ready')
    BY <1>3, <1>9, <1>11 DEF HandedOnce, Held, Reached, Startable
  <1> QED
    BY <1>7, <1>11, <1>12, <1>13 DEF HandedOnce

LEMMA LeaveHolds ==
  ASSUME Held, Quiet, NEW t \in Threads, Leave(t)
  PROVE  Layout' /\ HandedOnce' /\ Places' /\ Ledger'
  <1> DEFINE F == Top(t)
             n == F.node
  <1>1. /\ stack[t] # << >> /\ F.at = "fanout" /\ n # NoNode /\ F.left = {}
        /\ stack' = [stack EXCEPT ![t] = Front(@)] /\ jobs' = jobs - 1 /\ active' = active - 1
        /\ UNCHANGED <<graph, runs, apc, ready, finished, pending>>
    BY DEF Leave, Runs
  <1>2. /\ RestTyped /\ FrameFits(F) /\ apc # "idle"
    BY <1>1, TopFacts
  <1>3. F.next = NoNode /\ F.at \in InFanOut
    BY <1>1, <1>2 DEF FrameFits, InFanOut
  <1>4. TInv /\ Layout /\ NextOnce(Frames(stack)) /\ Once(ready) /\ Places /\ Ledger
    BY DEF Held, HandedOnce
  <1>5. /\ Layout' /\ NextOnce(Frames(stack')) /\ Grabbed' = Grabbed /\ Busy' = Busy
        /\ Notifying' = Notifying \ {n} /\ n \in Notifying
        /\ \A k : Left(Frames(stack'), k) = Left(Frames(stack), k)
        /\ InHand' = InHand
    BY <1>1, <1>3, <1>4, LeaveEffect
  <1>6. Seeding' = Seeding /\ Queued' = Queued
    BY <1>1, <1>5 DEF Seeding, Queued
  <1>7. Startable' = Startable
    BY <1>5, <1>6 DEF Startable
  <1>8. Ledger'
    BY <1>1, <1>2, <1>4, <1>5, <1>7, LedgerLeave
  <1>9. Places'
    <2>1. Jobs(graph)' = Jobs(graph)
      BY <1>1 DEF Jobs
    <2> QED
      BY <1>1, <1>4, <1>5, <1>6, <1>7, <2>1 DEF Places, Reached
  <1> QED
    BY <1>1, <1>4, <1>5, <1>8, <1>9 DEF HandedOnce

\* A frame with the same contents at another place of schedule_ready_node.
LEMMA MoveHolds ==
  ASSUME Held, Quiet, NEW t \in Threads, stack[t] # << >>, Top(t).at \in {"push", "help", "retry"},
         NEW place \in {"push", "help", "retry"},
         stack' = WithTop(t, [Top(t) EXCEPT !.at = place]),
         UNCHANGED <<graph, runs, active, pending, apc, jobs, ready, finished>>
  PROVE  Layout' /\ HandedOnce' /\ Places' /\ Ledger'
  <1> DEFINE F == Top(t)
             E == [F EXCEPT !.at = place]
  <1>1. /\ RestTyped /\ F \in FrameSet /\ FrameFits(F)
    BY TopFacts
  <1>2. PICK e \in FrameSet : /\ stack' = WithTop(t, e) /\ e.node = F.node /\ e.left = F.left
                             /\ e.next = F.next /\ e.at = place
    <2>1. E \in FrameSet /\ E.node = F.node /\ E.left = F.left /\ E.next = F.next /\ E.at = place
      BY <1>1 DEF FrameSet
    <2>2. stack' = WithTop(t, E)
      OBVIOUS
    <2> HIDE DEF E
    <2> QED
      BY <2>1, <2>2
  <1>3. /\ Layout' /\ Grabbed' = Grabbed /\ Busy' = Busy /\ Notifying' = Notifying
        /\ \A k : Left(Frames(stack'), k) = Left(Frames(stack), k)
        /\ InHand' = InHand /\ NextOnce(Frames(stack'))
    <2>1. /\ F.at \in InFanOut /\ e.at \in InFanOut /\ e.left \subseteq F.left
          /\ e.at \in {"push", "help", "retry"} <=> e.next # NoNode
      BY <1>1, <1>2 DEF InFanOut, FrameFits
    <2> QED
      BY <1>2, <2>1, FanOutEffect
  <1>4. Seeding' = Seeding /\ Queued' = Queued
    BY <1>3 DEF Seeding, Queued
  <1>5. Startable' = Startable /\ Reached' = Reached
    BY <1>3, <1>4 DEF Startable, Reached
  <1>6. Ledger'
    <2>1. Ledger
      BY DEF Held
    <2> QED
      BY <1>1, <1>3, <1>5, <2>1, LedgerKept
  <1>7. Places'
    <2>1. Jobs(graph)' = Jobs(graph)
      BY DEF Jobs
    <2> QED
      BY <1>3, <1>4, <1>5, <2>1 DEF Places, Held
  <1> QED
    BY <1>3, <1>6, <1>7 DEF HandedOnce, Held

LEMMA PushFullHolds ==
  ASSUME Held, Quiet, NEW t \in Threads, PushFull(t)
  PROVE  Layout' /\ HandedOnce' /\ Places' /\ Ledger'
  <1>1. /\ stack[t] # << >> /\ Top(t).at \in {"push", "help", "retry"}
        /\ stack' = WithTop(t, [Top(t) EXCEPT !.at = "help"])
        /\ UNCHANGED <<graph, runs, active, pending, apc, jobs, ready, finished>>
    BY DEF PushFull, Runs
  <1> QED
    BY <1>1, MoveHolds

LEMMA HelpNothingHolds ==
  ASSUME Held, Quiet, NEW t \in Threads, HelpNothing(t)
  PROVE  Layout' /\ HandedOnce' /\ Places' /\ Ledger'
  <1>1. /\ stack[t] # << >> /\ Top(t).at \in {"push", "help", "retry"}
        /\ stack' = WithTop(t, [Top(t) EXCEPT !.at = "retry"])
        /\ UNCHANGED <<graph, runs, active, pending, apc, jobs, ready, finished>>
    BY DEF HelpNothing, Runs
  <1> QED
    BY <1>1, MoveHolds

\* What a frame is once its node is handed over.
LEMMA PushedFrame ==
  ASSUME NEW f \in FrameSet
  PROVE  \E e \in FrameSet : /\ e = Pushed(f) /\ e.node = f.node /\ e.left = f.left
                             /\ e.next = NoNode /\ e.at = "fanout"
  <1>1. /\ Pushed(f) \in FrameSet /\ Pushed(f).node = f.node /\ Pushed(f).left = f.left
        /\ Pushed(f).next = NoNode /\ Pushed(f).at = "fanout"
    BY DEF Pushed, FrameSet
  <1> QED
    BY <1>1

LEMMA PushHolds ==
  ASSUME Held, Quiet, NEW t \in Threads, Push(t)
  PROVE  Layout' /\ HandedOnce' /\ Places' /\ Ledger'
  <1> DEFINE F == Top(t)
             m == F.next
  <1>1. /\ stack[t] # << >> /\ F.at \in {"push", "help", "retry"}
        /\ stack' = WithTop(t, Pushed(F)) /\ ready' = Append(ready, m)
        /\ UNCHANGED <<graph, runs, active, pending, apc, jobs, finished>>
    BY DEF Push, Runs
  <1>2. /\ RestTyped /\ F \in FrameSet /\ FrameFits(F) /\ m # NoNode /\ m \in InHand
    <2>1. RestTyped /\ F \in FrameSet /\ FrameFits(F)
      BY <1>1, TopFacts
    <2>2. m # NoNode
      BY <1>1, <2>1 DEF FrameFits
    <2> QED
      BY <1>1, <2>1, <2>2, TopFacts
  <1>3. PICK e \in FrameSet : /\ stack' = WithTop(t, e) /\ e.node = F.node /\ e.left = F.left
                             /\ e.next = NoNode /\ e.at = "fanout"
    <2>1. PICK e \in FrameSet : /\ e = Pushed(F) /\ e.node = F.node /\ e.left = F.left
                                /\ e.next = NoNode /\ e.at = "fanout"
      BY <1>2, PushedFrame
    <2> QED
      BY <1>1, <2>1
  <1>4. /\ Layout' /\ Grabbed' = Grabbed /\ Busy' = Busy /\ Notifying' = Notifying
        /\ \A k : Left(Frames(stack'), k) = Left(Frames(stack), k)
        /\ InHand' = InHand \ {m} /\ NextOnce(Frames(stack'))
    <2>1. /\ F.at \in InFanOut /\ e.at \in InFanOut /\ e.left \subseteq F.left
          /\ e.at \in {"push", "help", "retry"} <=> e.next # NoNode
      BY <1>1, <1>3 DEF InFanOut
    <2> QED
      BY <1>1, <1>2, <1>3, <2>1, FanOutEffect
  <1>5. /\ m \in Nodes /\ m \notin Queued /\ ready \in Seq(Nodes) /\ Once(ready)
    <2>1. m \notin Queued
      BY <1>2 DEF Places, Held
    <2>2. TInv /\ Layout /\ Places
      BY DEF Held
    <2>3. m \in Nodes
      BY <1>2, <2>2, FreeNode
    <2> QED
      BY <1>2, <2>1, <2>3 DEF RestTyped, Held, HandedOnce
  <1>6. Once(ready') /\ Queued' = Queued \cup {m}
    BY <1>1, <1>5, QueuePushed DEF Queued
  <1>7. Seeding' = Seeding
    BY <1>4 DEF Seeding
  <1>8. Startable' = Startable /\ Reached' = Reached
    BY <1>1, <1>2, <1>4, <1>6, <1>7 DEF Startable, Reached
  <1>9. Ledger'
    <2>1. Ledger
      BY DEF Held
    <2> QED
      BY <1>1, <1>2, <1>4, <1>8, <2>1, LedgerKept
  <1>10. Places'
    <2>1. Jobs(graph)' = Jobs(graph)
      BY <1>1 DEF Jobs
    <2> QED
      BY <1>1, <1>2, <1>4, <1>6, <1>7, <1>8, <2>1 DEF Places, Held
  <1> QED
    BY <1>4, <1>6, <1>9, <1>10 DEF HandedOnce

\* A thread pops a node, or takes the one in its hands, to run it at once.
LEMMA PoppedFrame ==
  ASSUME NEW m \in Nodes, NEW nf \in Nat, NEW place \in {"load", "popped"}, graph' = graph
  PROVE  \E c \in FrameSet : /\ c = Popped(m, nf, place) /\ c.node = m /\ c.left = {}
                             /\ c.next = NoNode /\ c.at = place /\ FrameFits(c)'
  <1> DEFINE C == Popped(m, nf, place)
  <1>1. /\ C \in FrameSet /\ C.node = m /\ C.left = {} /\ C.next = NoNode /\ C.at = place
    BY DEF Popped, FrameSet
  <1>2. FrameFits(C)
    BY <1>1, SchedulerAssumption DEF FrameFits
  <1>3. FrameFits(C)'
    BY <1>2, FitsKept
  <1> QED
    BY <1>1, <1>3

LEMMA HelpOtherHolds ==
  ASSUME Held, Quiet, NEW t \in Threads, HelpOther(t)
  PROVE  Layout' /\ HandedOnce' /\ Places' /\ Ledger'
  <1> DEFINE F == Top(t)
             m == Head(ready)
             E == [F EXCEPT !.at = "push"]
  <1>1. /\ stack[t] # << >> /\ F.at = "help" /\ ready # << >> /\ ready' = Tail(ready)
        /\ stack' = WithCall(t, E, Popped(m, F.nf, "popped"))
        /\ UNCHANGED <<graph, runs, active, pending, apc, jobs, finished>>
    BY DEF HelpOther, Runs
  <1>2. RestTyped /\ F \in FrameSet /\ FrameFits(F) /\ F.nf \in Nat
    <2>1. RestTyped /\ F \in FrameSet /\ FrameFits(F)
      BY <1>1, TopFacts
    <2> QED
      BY <2>1 DEF FrameSet
  <1>3. TInv /\ Layout /\ NextOnce(Frames(stack)) /\ Once(ready) /\ Places /\ Ledger
    BY DEF Held, HandedOnce
  <1>4. /\ m \in Queued /\ Once(ready') /\ Queued' = Queued \ {m}
    <2>1. ready \in Seq(Nodes)
      BY <1>2 DEF RestTyped
    <2> QED
      BY <1>1, <1>3, <2>1, QueuePopped DEF Queued
  <1>5. m \in Nodes /\ m # NoNode /\ \A f \in Frames(stack) : f.node # m
    BY <1>3, <1>4, FreeNode
  <1>6. PICK e \in FrameSet : /\ e = E /\ e.node = F.node /\ e.left = F.left
                             /\ e.next = F.next /\ e.at = "push"
    <2>1. E \in FrameSet /\ E.node = F.node /\ E.left = F.left /\ E.next = F.next /\ E.at = "push"
      BY <1>2 DEF FrameSet
    <2> HIDE DEF E
    <2> QED
      BY <2>1
  <1>7. PICK c \in FrameSet : /\ c = Popped(m, F.nf, "popped") /\ c.node = m /\ c.left = {}
                             /\ c.next = NoNode /\ c.at = "popped" /\ FrameFits(c)'
    BY <1>1, <1>2, <1>5, PoppedFrame
  <1>8. FrameFits(e)'
    <2>1. FrameFits(e)
      BY <1>1, <1>2, <1>6 DEF FrameFits, InFanOut
    <2> QED
      BY <1>1, <2>1, FitsKept
  <1>9. /\ Layout' /\ NextOnce(Frames(stack'))
        /\ Grabbed' = Grabbed \cup {m} /\ Busy' = Busy /\ Notifying' = Notifying
        /\ \A n : Left(Frames(stack'), n) = Left(Frames(stack), n)
        /\ InHand' = InHand
    <2>1. F.at \in InFanOut /\ e.at \in InFanOut
      BY <1>1, <1>6 DEF InFanOut
    <2>2. stack' = WithCall(t, e, c)
      BY <1>1, <1>6, <1>7
    <2>3. \A f \in Frames(stack) : f.node # c.node
      BY <1>5, <1>7
    <2> HIDE DEF E, m
    <2> QED
      BY <1>1, <1>3, <1>5, <1>6, <1>7, <1>8, <2>1, <2>2, <2>3, CallEffect
  <1>10. Seeding' = Seeding
    BY <1>9 DEF Seeding
  <1>11. Startable' = Startable /\ Reached' = Reached
    BY <1>1, <1>4, <1>9, <1>10 DEF Startable, Reached
  <1>12. Ledger'
    BY <1>1, <1>2, <1>3, <1>9, <1>11, LedgerKept
  <1>13. Places'
    <2>1. Jobs(graph)' = Jobs(graph)
      BY <1>1 DEF Jobs
    <2> QED
      BY <1>1, <1>3, <1>4, <1>9, <1>10, <1>11, <2>1 DEF Places
  <1> QED
    BY <1>4, <1>9, <1>12, <1>13 DEF HandedOnce

LEMMA RunInlineHolds ==
  ASSUME Held, Quiet, NEW t \in Threads, RunInline(t)
  PROVE  Layout' /\ HandedOnce' /\ Places' /\ Ledger'
  <1> DEFINE F == Top(t)
             m == F.next
  <1>1. /\ stack[t] # << >> /\ F.at = "retry"
        /\ stack' = WithCall(t, Pushed(F), Popped(m, F.nf, "popped"))
        /\ UNCHANGED <<graph, runs, active, pending, apc, jobs, finished, ready>>
    BY DEF RunInline, Runs
  <1>2. RestTyped /\ F \in FrameSet /\ FrameFits(F) /\ F.nf \in Nat /\ m # NoNode /\ m \in InHand
    <2>1. RestTyped /\ F \in FrameSet /\ FrameFits(F)
      BY <1>1, TopFacts
    <2>2. m # NoNode
      BY <1>1, <2>1 DEF FrameFits
    <2>3. F.nf \in Nat
      BY <2>1 DEF FrameSet
    <2> QED
      BY <1>1, <2>1, <2>2, <2>3, TopFacts
  <1>3. TInv /\ Layout /\ NextOnce(Frames(stack)) /\ Once(ready) /\ Places /\ Ledger
    BY DEF Held, HandedOnce
  <1>5. m \in Nodes /\ \A f \in Frames(stack) : f.node # m
    BY <1>2, <1>3, FreeNode
  <1>6. PICK e \in FrameSet : /\ e = Pushed(F) /\ e.node = F.node /\ e.left = F.left
                             /\ e.next = NoNode /\ e.at = "fanout"
    BY <1>2, PushedFrame
  <1>7. PICK c \in FrameSet : /\ c = Popped(m, F.nf, "popped") /\ c.node = m /\ c.left = {}
                             /\ c.next = NoNode /\ c.at = "popped" /\ FrameFits(c)'
    BY <1>1, <1>2, <1>5, PoppedFrame
  <1>8. FrameFits(e)'
    <2>1. FrameFits(e)
      BY <1>1, <1>2, <1>6 DEF FrameFits, InFanOut
    <2> QED
      BY <1>1, <2>1, FitsKept
  <1>9. /\ Layout' /\ NextOnce(Frames(stack'))
        /\ Grabbed' = Grabbed \cup {m} /\ Busy' = Busy /\ Notifying' = Notifying
        /\ \A n : Left(Frames(stack'), n) = Left(Frames(stack), n)
        /\ InHand' = InHand \ {m}
    <2>1. F.at \in InFanOut /\ e.at \in InFanOut
      BY <1>1, <1>6 DEF InFanOut
    <2>2. stack' = WithCall(t, e, c)
      BY <1>1, <1>6, <1>7
    <2>3. \A f \in Frames(stack) : f.node # c.node
      BY <1>5, <1>7
    <2> QED
      BY <1>1, <1>2, <1>3, <1>5, <1>6, <1>7, <1>8, <2>1, <2>2, <2>3, CallEffect
  <1>10. Seeding' = Seeding /\ Queued' = Queued
    BY <1>1, <1>9 DEF Seeding, Queued
  <1>11. Startable' = Startable /\ Reached' = Reached
    BY <1>1, <1>2, <1>9, <1>10 DEF Startable, Reached
  <1>12. Ledger'
    BY <1>1, <1>2, <1>3, <1>9, <1>11, LedgerKept
  <1>13. Places'
    <2>1. Jobs(graph)' = Jobs(graph)
      BY <1>1 DEF Jobs
    <2> QED
      BY <1>1, <1>2, <1>3, <1>9, <1>10, <1>11, <2>1 DEF Places
  <1> QED
    BY <1>1, <1>3, <1>9, <1>12, <1>13 DEF HandedOnce

\* The audio thread or a worker pops a node.
LEMMA StartHolds ==
  ASSUME Held, NEW t \in Threads, stack[t] = << >>, t = Audio => apc \notin {"idle", "publish"},
         ready # << >>, ready' = Tail(ready), NEW nf \in Nat, NEW place \in {"load", "popped"},
         stack' = [stack EXCEPT ![t] = <<Popped(Head(ready), nf, place)>>],
         UNCHANGED <<graph, runs, active, pending, apc, jobs, finished>>
  PROVE  Layout' /\ HandedOnce' /\ Places' /\ Ledger'
  <1> DEFINE m == Head(ready)
  <1>1. TInv /\ Layout /\ NextOnce(Frames(stack)) /\ Once(ready) /\ Places /\ Ledger /\ RestTyped
    BY TypeParts DEF Held, HandedOnce
  <1>2. /\ m \in Queued /\ Once(ready') /\ Queued' = Queued \ {m}
    <2>1. ready \in Seq(Nodes)
      BY <1>1 DEF RestTyped
    <2> QED
      BY <1>1, <2>1, QueuePopped DEF Queued
  <1>3. m \in Nodes /\ m # NoNode /\ \A f \in Frames(stack) : f.node # m
    BY <1>1, <1>2, FreeNode
  <1>4. PICK c \in FrameSet : /\ c = Popped(m, nf, place) /\ c.node = m /\ c.left = {}
                             /\ c.next = NoNode /\ c.at = place /\ FrameFits(c)'
    BY <1>3, PoppedFrame
  <1>5. /\ Layout' /\ NextOnce(Frames(stack'))
        /\ Grabbed' = Grabbed \cup {m} /\ Busy' = Busy /\ Notifying' = Notifying
        /\ \A n : Left(Frames(stack'), n) = Left(Frames(stack), n)
        /\ InHand' = InHand
    <2>1. stack' = [stack EXCEPT ![t] = <<c>>]
      BY <1>4
    <2>2. \A f \in Frames(stack) : f.node # c.node
      BY <1>3, <1>4
    <2> HIDE DEF m
    <2> QED
      BY <1>1, <1>3, <1>4, <2>1, <2>2, StartEffect
  <1>6. Seeding' = Seeding
    BY <1>5 DEF Seeding
  <1>7. Startable' = Startable /\ Reached' = Reached
    BY <1>2, <1>5, <1>6 DEF Startable, Reached
  <1>8. Ledger'
    BY <1>1, <1>5, <1>7, LedgerKept
  <1>9. Places'
    <2>1. Jobs(graph)' = Jobs(graph)
      BY DEF Jobs
    <2> QED
      BY <1>1, <1>2, <1>5, <1>6, <1>7, <2>1 DEF Places
  <1> QED
    BY <1>2, <1>5, <1>8, <1>9 DEF HandedOnce

\* A step of a thread leaves the others' stacks and the session alone.
LEMMA OthersKept ==
  ASSUME TInv, NEW t \in Threads, Execute(t)
  PROVE  /\ stack[t] # << >>
         /\ \A u \in Threads : u # t => stack'[u] = stack[u]
         /\ UNCHANGED <<setup, wpc, session, apc>>
  <1>1. stack \in Stacks
    BY StackTyped
  <1>2. \E s : stack' = [stack EXCEPT ![t] = s]
    BY DEF Execute, Begin, Finish, Notify, Leave, Push, PushFull, HelpOther, HelpNothing,
           RunInline, WithTop, WithCall
  <1>3. \A u \in Threads : u # t => stack'[u] = stack[u]
    BY <1>1, <1>2 DEF Stacks
  <1>4. stack[t] # << >> /\ UNCHANGED <<setup, wpc, session, apc>>
    BY DEF Execute, Begin, Finish, Notify, Leave, Push, PushFull, HelpOther, HelpNothing,
           RunInline, Runs
  <1> QED
    BY <1>3, <1>4

LEMMA ExecuteKept ==
  ASSUME BInv, NEW t \in Threads, Execute(t)
  PROVE  Layout' /\ HandedOnce' /\ Places' /\ Ledger' /\ Quiet' /\ Alone'
  <1>1. Held /\ Quiet /\ Alone
    BY DEF BInv, Held
  <1>2. /\ stack[t] # << >> /\ \A u \in Threads : u # t => stack'[u] = stack[u]
        /\ UNCHANGED <<setup, wpc, session, apc>>
    BY <1>1, OthersKept DEF Held
  <1>3. apc # "idle"
    BY <1>1, <1>2 DEF Quiet
  <1>4. Quiet'
    BY <1>2, <1>3 DEF Quiet
  <1>5. Alone'
    BY <1>1, <1>2 DEF Alone, Threads
  <1>6. Layout' /\ HandedOnce' /\ Places' /\ Ledger'
    BY <1>1, BeginHolds, FinishHolds, NotifyHolds, LeaveHolds, PushHolds, PushFullHolds,
       HelpOtherHolds, HelpNothingHolds, RunInlineHolds DEF Execute
  <1> QED
    BY <1>4, <1>5, <1>6

-----------------------------------------------------------------------------
(* The steps of the audio thread *)

LEMMA SeedHolds ==
  ASSUME Held, Quiet, Seed
  PROVE  Layout' /\ HandedOnce' /\ Places' /\ Ledger'
  <1> DEFINE F == Top(Audio)
  <1>1. /\ stack[Audio] # << >> /\ F.at = "fanout" /\ F.node = NoNode /\ Audio \in Threads
        /\ UNCHANGED <<graph, runs, active, pending, apc, jobs, finished, ready>>
    BY DEF Seed, Runs, Threads
  <1>2. PICK m \in F.left :
          stack' = WithTop(Audio, [F EXCEPT !.left = @ \ {m}, !.at = "push", !.next = m])
    BY DEF Seed
  <1>3. RestTyped /\ F \in FrameSet /\ FrameFits(F) /\ F.next = NoNode
    <2>1. RestTyped /\ F \in FrameSet /\ FrameFits(F)
      BY <1>1, TopFacts
    <2> QED
      BY <1>1, <2>1 DEF FrameFits
  <1>4. m \in Nodes /\ m # NoNode
    BY <1>2, <1>3, SchedulerAssumption DEF FrameSet
  <1>5. PICK e \in FrameSet :
          /\ stack' = WithTop(Audio, e) /\ e.node = NoNode /\ e.left = F.left \ {m}
          /\ e.at = "push" /\ e.next = m
    <2> DEFINE E == [F EXCEPT !.left = @ \ {m}, !.at = "push", !.next = m]
    <2>1. /\ E \in FrameSet /\ E.node = NoNode /\ E.left = F.left \ {m}
          /\ E.at = "push" /\ E.next = m
      BY <1>1, <1>3, <1>4 DEF FrameSet
    <2>2. stack' = WithTop(Audio, E)
      BY <1>2
    <2> HIDE DEF E
    <2> QED
      BY <2>1, <2>2
  <1>6. /\ Layout' /\ Grabbed' = Grabbed /\ Busy' = Busy /\ Notifying' = Notifying
        /\ \A k : Left(Frames(stack'), k) = IF k = NoNode THEN e.left ELSE Left(Frames(stack), k)
        /\ Left(Frames(stack), NoNode) = F.left
        /\ InHand' = InHand \cup {m}
        /\ m \notin InHand => NextOnce(Frames(stack'))
    <2>1. /\ F.at \in InFanOut /\ e.at \in InFanOut /\ e.left \subseteq F.left
          /\ e.at \in {"push", "help", "retry"} <=> e.next # NoNode
      BY <1>1, <1>4, <1>5 DEF InFanOut
    <2> QED
      BY <1>1, <1>3, <1>4, <1>5, <2>1, FanOutEffect
  <1>7. Seeding' = Seeding \ {m} /\ m \in Seeding /\ Queued' = Queued
    BY <1>1, <1>5, <1>6 DEF Seeding, Queued
  <1>8. Startable' = Startable /\ Reached' = Reached /\ m \notin InHand
    <2>1. m \notin InHand
      BY <1>7 DEF Places, Held
    <2> QED
      BY <1>1, <1>6, <1>7, <2>1 DEF Startable, Reached
  <1>9. Ledger'
    <2>1. \A k \in Nodes : Left(Frames(stack'), k) = Left(Frames(stack), k)
      BY <1>6, SchedulerAssumption
    <2>2. Ledger
      BY DEF Held
    <2> QED
      BY <1>1, <1>3, <1>6, <1>8, <2>1, <2>2, LedgerKept
  <1>10. Places'
    <2>1. Jobs(graph)' = Jobs(graph)
      BY <1>1 DEF Jobs
    <2> QED
      BY <1>1, <1>6, <1>7, <1>8, <2>1 DEF Places, Held
  <1> QED
    BY <1>1, <1>6, <1>8, <1>9, <1>10 DEF HandedOnce, Held

\* The frame that seeds a block holds no node.
LEMMA DropSeeding ==
  ASSUME NEW F \in SUBSET FrameSet, OneEach(F), NextOnce(F), NEW f \in F,
         f.node = NoNode, f.left = {}, f.next = NoNode, NEW F2, F2 = Without(F, f)
  PROVE  /\ Taken(F2) = Taken(F) /\ Running(F2) = Running(F) /\ Fanning(F2) = Fanning(F)
         /\ \A n : Left(F2, n) = Left(F, n)
         /\ Carried(F2) = Carried(F) /\ NextOnce(F2)
  <1>1. \A g : g \in F2 <=> g \in F /\ g # f
    BY DEF Without
  <1>2. NoNode \notin Nodes
    BY SchedulerAssumption
  <1>3. \A places : NodesAt(F2, places) = NodesAt(F, places)
    BY <1>1, <1>2 DEF NodesAt
  <1>4. \A n : Left(F2, n) = Left(F, n)
    BY <1>1 DEF Left
  <1>5. Carried(F2) = Carried(F)
    BY <1>1, <1>2 DEF Carried
  <1>6. NextOnce(F2)
    BY <1>1 DEF NextOnce
  <1> QED
    BY <1>3, <1>4, <1>5, <1>6 DEF Taken, Running, Fanning

LEMMA SeededHolds ==
  ASSUME Held, Quiet, Seeded
  PROVE  Layout' /\ HandedOnce' /\ Places' /\ Ledger'
  <1> DEFINE F == Top(Audio)
  <1>1. /\ stack[Audio] # << >> /\ F.at = "fanout" /\ F.node = NoNode /\ F.left = {}
        /\ Audio \in Threads /\ apc = "seed" /\ apc' = "publish"
        /\ stack' = [stack EXCEPT ![Audio] = << >>]
        /\ UNCHANGED <<graph, runs, active, pending, jobs, finished, ready>>
    BY DEF Seeded, Runs, Threads
  <1>2. /\ RestTyped /\ F \in FrameSet /\ FrameFits(F) /\ F.next = NoNode /\ F \in Frames(stack)
    <2>1. RestTyped /\ F \in FrameSet /\ FrameFits(F) /\ F \in Frames(stack)
      BY <1>1, TopFacts
    <2> QED
      BY <1>1, <2>1 DEF FrameFits
  <1>3. TInv /\ Layout /\ NextOnce(Frames(stack)) /\ Once(ready) /\ Places /\ Ledger
    BY DEF Held, HandedOnce
  <1>4. /\ stack \in Stacks /\ Distinct(stack)
        /\ Frames(stack) \in SUBSET FrameSet /\ OneEach(Frames(stack))
    BY <1>3, LayoutFacts
  <1>5. Front(stack[Audio]) = << >>
    <2>1. stack[Audio] \in Seq(FrameSet)
      BY <1>1, <1>4 DEF Stacks
    <2>2. /\ Len(stack[Audio]) \in Nat \ {0} /\ F = stack[Audio][Len(stack[Audio])]
          /\ Front(stack[Audio]) \in Seq(FrameSet)
          /\ Len(Front(stack[Audio])) = Len(stack[Audio]) - 1
      BY <1>1, <2>1, FrontLast DEF Top
    <2>3. Len(stack[Audio]) = 1
      <3> DEFINE k == Len(stack[Audio])
      <3>1. k \in 1..k /\ stack[Audio][k].node = NoNode
        BY <1>1, <2>2
      <3>2. \A i \in 1..k : stack[Audio][i].node = NoNode => i = 1
        BY <1>1, <1>3 DEF Layout, SeedFrame
      <3> HIDE DEF k
      <3>3. k = 1
        BY <3>1, <3>2
      <3> QED
        BY <3>3 DEF k
    <2> QED
      BY <2>2, <2>3, EmptySeq
  <1>6. stack' = Dropped(stack, Audio)
    BY <1>1, <1>4, <1>5 DEF Dropped, Stacks
  <1>7. /\ stack' \in Stacks /\ Distinct(stack')
        /\ Frames(stack') = Frames(stack) \ {F}
        /\ \A u \in Threads : \A i \in 1..Len(stack'[u]) : /\ i \in 1..Len(stack[u])
                                                           /\ stack'[u][i] = stack[u][i]
    <2> DEFINE st2 == stack'
    <2>1. /\ Audio \in Threads /\ stack[Audio] # << >> /\ stack \in Stacks /\ Distinct(stack)
          /\ st2 = Dropped(stack, Audio)
      BY <1>1, <1>4, <1>6
    <2> HIDE DEF st2, F
    <2>2. /\ st2 \in Stacks /\ Distinct(st2)
          /\ Frames(st2) = Frames(stack) \ {Last(stack[Audio])}
          /\ \A u \in Threads : \A i \in 1..Len(st2[u]) : /\ i \in 1..Len(stack[u])
                                                          /\ st2[u][i] = stack[u][i]
      BY <2>1, DropFrame
    <2> QED
      BY <2>2 DEF Top, F, st2
  <1>8. /\ Grabbed' = Grabbed /\ Busy' = Busy /\ Notifying' = Notifying
        /\ \A k : Left(Frames(stack'), k) = Left(Frames(stack), k)
        /\ InHand' = InHand /\ NextOnce(Frames(stack'))
    <2> DEFINE A == Frames(stack)
               A2 == Frames(stack')
    <2>1. A2 = Without(A, F)
      BY <1>7 DEF Without
    <2> HIDE DEF A, A2, F
    <2>2. /\ Taken(A2) = Taken(A) /\ Running(A2) = Running(A) /\ Fanning(A2) = Fanning(A)
          /\ \A n : Left(A2, n) = Left(A, n)
          /\ Carried(A2) = Carried(A) /\ NextOnce(A2)
      BY <1>1, <1>2, <1>3, <1>4, <2>1, DropSeeding DEF A
    <2> QED
      BY <2>2 DEF A, A2, Grabbed, Busy, Notifying, InHand
  <1>9. Seeding' = Seeding /\ Queued' = Queued
    BY <1>1, <1>8 DEF Seeding, Queued
  <1>10. Startable' = Startable /\ Reached' = Reached
    BY <1>1, <1>8, <1>9 DEF Startable, Reached
  <1>11. Ledger'
    BY <1>1, <1>2, <1>3, <1>8, <1>10, LedgerKept
  <1>12. Places'
    <2>1. Jobs(graph)' = Jobs(graph)
      BY <1>1 DEF Jobs
    <2> QED
      BY <1>1, <1>3, <1>8, <1>9, <1>10, <2>1 DEF Places
  <1>13. SeedFrame'
    <2>1. stack'[Audio] = << >>
      BY <1>1, <1>4 DEF Stacks
    <2>2. \A u \in Threads : \A i \in 1..Len(stack'[u]) : stack'[u][i].node # NoNode
      <3>1. TAKE u \in Threads
      <3>2. TAKE i \in 1..Len(stack'[u])
      <3>3. CASE u = Audio
        BY <2>1, <3>3, EmptySeq
      <3>4. CASE u # Audio
        BY <1>3, <1>7, <3>4 DEF Layout, SeedFrame
      <3> QED
        BY <3>3, <3>4
    <2> QED
      BY <1>1, <2>1, <2>2 DEF SeedFrame
  <1>14. \A f \in Frames(stack') : FrameFits(f)'
    BY <1>1, <1>3, <1>7, FitsKept DEF Layout
  <1>15. Layout'
    BY <1>7, <1>13, <1>14 DEF Layout
  <1> QED
    BY <1>1, <1>3, <1>8, <1>11, <1>12, <1>15 DEF HandedOnce

\* Steps that change nothing of the block.
LEMMA StillHolds ==
  ASSUME Held, RestTyped,
         UNCHANGED <<stack, ready, graph, finished, runs, active, pending, apc, jobs>>
  PROVE  Layout' /\ HandedOnce' /\ Places' /\ Ledger'
  <1>1. Layout /\ HandedOnce /\ Places /\ Ledger
    BY DEF Held
  <1>2. Layout'
    BY <1>1, FitsKept DEF Layout, SeedFrame, Distinct
  <1>3. HandedOnce'
    BY <1>1 DEF HandedOnce
  <1>4. /\ Busy' = Busy /\ Notifying' = Notifying /\ Grabbed' = Grabbed /\ InHand' = InHand
        /\ Queued' = Queued /\ Seeding' = Seeding
        /\ \A n : Left(Frames(stack'), n) = Left(Frames(stack), n)
    BY DEF Busy, Notifying, Grabbed, InHand, Queued, Seeding
  <1>5. Startable' = Startable /\ Reached' = Reached
    BY <1>4 DEF Startable, Reached
  <1>6. Ledger'
    BY <1>1, <1>4, <1>5, LedgerKept
  <1>7. Places'
    <2>1. Jobs(graph)' = Jobs(graph)
      BY DEF Jobs
    <2> QED
      BY <1>1, <1>4, <1>5, <2>1 DEF Places
  <1> QED
    BY <1>2, <1>3, <1>6, <1>7

\* Steps that move no node: the audio thread goes on to another place.
LEMMA CalmHolds ==
  ASSUME Held, RestTyped, UNCHANGED <<stack, ready, graph, finished, runs, active, pending>>,
         apc # "seed", apc' # "seed",
         apc' \in {"idle", "publish"} => stack[Audio] = << >>,
         apc' # "idle" => apc # "idle" /\ jobs' = jobs
  PROVE  Layout' /\ HandedOnce' /\ Places' /\ Ledger'
  <1>1. TInv /\ Layout /\ HandedOnce /\ Places /\ Ledger
    BY DEF Held
  <1>2. SeedFrame'
    BY <1>1 DEF Layout, SeedFrame
  <1>3. Layout'
    BY <1>1, <1>2, FitsKept DEF Layout, Distinct
  <1>4. HandedOnce'
    BY <1>1 DEF HandedOnce
  <1>5. /\ Busy' = Busy /\ Notifying' = Notifying /\ Grabbed' = Grabbed /\ InHand' = InHand
        /\ Queued' = Queued /\ Seeding' = Seeding
        /\ \A n : Left(Frames(stack'), n) = Left(Frames(stack), n)
    BY DEF Busy, Notifying, Grabbed, InHand, Queued, Seeding
  <1>6. Startable' = Startable /\ Reached' = Reached
    BY <1>5 DEF Startable, Reached
  <1>7. Ledger'
    BY <1>1, <1>5, <1>6, LedgerKept
  <1>8. Places'
    <2>1. Jobs(graph)' = Jobs(graph)
      BY DEF Jobs
    <2> QED
      BY <1>1, <1>5, <1>6, <2>1 DEF Places
  <1> QED
    BY <1>3, <1>4, <1>7, <1>8

LEMMA TopIsLast ==
  ASSUME stack \in Stacks, NEW t \in Threads, stack[t] # << >>
  PROVE  Len(stack[t]) \in 1..Len(stack[t]) /\ Top(t) = stack[t][Len(stack[t])]
  <1>1. stack[t] \in Seq(FrameSet)
    BY DEF Stacks
  <1>2. Len(stack[t]) \in Nat \ {0} /\ Last(stack[t]) = stack[t][Len(stack[t])]
    BY <1>1, FrontLast
  <1> QED
    BY <1>2 DEF Top

\* Without nodes in the hands of a thread there are no frames.
LEMMA NoFrames ==
  ASSUME TInv, Layout, apc # "seed", Grabbed = {}, Busy = {}, Notifying = {}
  PROVE  \A t \in Threads : stack[t] = << >>
  <1> SUFFICES ASSUME NEW t \in Threads, stack[t] # << >> PROVE FALSE
    OBVIOUS
  <1>1. /\ Top(t) \in Frames(stack) /\ Frames(stack) \in SUBSET FrameSet
        /\ OneEach(Frames(stack)) /\ stack \in Stacks
    BY LayoutFacts
  <1>2. Top(t).node \in Nodes
    <2>2. Len(stack[t]) \in 1..Len(stack[t]) /\ Top(t) = stack[t][Len(stack[t])]
      BY <1>1, TopIsLast
    <2>3. Top(t).node # NoNode
      BY <2>2 DEF Layout, SeedFrame
    <2>4. Top(t).node \in Nodes \cup {NoNode}
      BY <1>1 DEF FrameSet
    <2> QED
      BY <2>3, <2>4
  <1>3. Top(t).node \in Grabbed \cup Busy \cup Notifying
    BY <1>1, <1>2, OnePlaceEach DEF Grabbed, Busy, Notifying
  <1> QED
    BY <1>3

\* No job in flight: every job has run, and nobody holds one.
LEMMA AllDone ==
  ASSUME Held, apc \notin {"idle", "seed"}, jobs <= 0
  PROVE  /\ finished = Jobs(graph) /\ ready = << >>
         /\ \A t \in Threads : stack[t] = << >>
  <1>1. TInv /\ Layout /\ Places /\ Ledger /\ RestTyped
    BY TypeParts DEF Held
  <1>2. Jobs(graph) \ (finished \ Notifying) = {}
    <2> DEFINE D == Jobs(graph) \ (finished \ Notifying)
    <2>1. IsFiniteSet(D)
      BY <1>1, LedgerSets
    <2>2. jobs = Cardinality(D)
      BY <1>1 DEF Ledger
    <2> HIDE DEF D
    <2>3. Cardinality(D) = 0
      BY <2>1, <2>2, FS_CardinalityType
    <2> QED
      BY <2>1, <2>3, FS_EmptySet DEF D
  <1>3. Reached \subseteq Jobs(graph) /\ Notifying \subseteq finished
    BY <1>1 DEF Places
  <1>4. finished = Jobs(graph) /\ Notifying = {}
    BY <1>2, <1>3 DEF Reached
  <1>5. Startable = {} /\ Busy = {}
    BY <1>1, <1>3, <1>4 DEF Places, Reached
  <1>6. Queued = {} /\ Grabbed = {}
    BY <1>5 DEF Startable
  <1>7. ready = << >>
    BY <1>1, <1>6, QueueEmpty DEF RestTyped, Queued
  <1>8. \A t \in Threads : stack[t] = << >>
    BY <1>1, <1>4, <1>5, <1>6, NoFrames
  <1> QED
    BY <1>4, <1>7, <1>8

\* A graph that no node can start: nobody has started one.
LEMMA CycleStuck ==
  ASSUME Held, apc \notin {"idle", "seed"}, HasCycle
  PROVE  /\ ready = << >> /\ \A t \in Threads : stack[t] = << >>
         /\ \A n \in Jobs(graph) : graph[n] \cap Jobs(graph) # {}
  <1>1. TInv /\ Layout /\ Places /\ Ledger /\ RestTyped
    BY TypeParts DEF Held
  <1>2. finished = {} /\ Jobs(graph) # {} /\ Sources(graph) = {}
    BY <1>1 DEF Ledger, HasCycle
  <1>3. \A m \in Jobs(graph) : graph[m] \subseteq Jobs(graph) /\ graph[m] # {}
    BY <1>1, <1>2, LedgerSets DEF Sources
  <1>4. \A m \in Jobs(graph) : m \notin Reached
    <2>1. \A m \in Jobs(graph) : Owing(m) = graph[m]
      BY <1>2 DEF Owing
    <2> QED
      BY <1>1, <1>3, <2>1 DEF Ledger
  <1>5. Reached = {}
    BY <1>1, <1>4 DEF Places
  <1>6. Queued = {} /\ Grabbed = {} /\ Busy = {} /\ Notifying = {}
    BY <1>1, <1>2, <1>5 DEF Reached, Startable, Places
  <1>7. ready = << >>
    BY <1>1, <1>6, QueueEmpty DEF RestTyped, Queued
  <1>8. \A t \in Threads : stack[t] = << >>
    BY <1>1, <1>6, NoFrames
  <1> QED
    BY <1>3, <1>7, <1>8

\* The queue is empty and nobody holds a node, but jobs are in flight: those
\* that have not run wait for each other.
LEMMA StuckJobs ==
  ASSUME Held, apc \notin {"idle", "seed"}, ready = << >>, \A t \in Threads : stack[t] = << >>
  PROVE  \A n \in Jobs(graph) \ finished : graph[n] \cap (Jobs(graph) \ finished) # {}
  <1>1. TInv /\ Layout /\ Places /\ Ledger /\ RestTyped
    BY TypeParts DEF Held
  <1>2. Frames(stack) = {}
    <2>1. \A f \in Frames(stack) : \E t \in Threads : \E i \in 1..Len(stack[t]) : f = stack[t][i]
      BY <1>1, StackTyped, FrameIsSomewhere
    <2>2. \A t \in Threads : Len(stack[t]) = 0
      BY EmptySeq
    <2> QED
      BY <2>1, <2>2
  <1>3. Queued = {}
    BY QueueEmpty DEF Queued
  <1>4. /\ Seeding = {} /\ InHand = {} /\ Grabbed = {} /\ Busy = {}
        /\ \A n : Left(Frames(stack), n) = {}
    BY <1>2 DEF Seeding, InHand, Grabbed, Busy, Left, Carried, Taken, Running, NodesAt
  <1>5. Reached = finished
    BY <1>3, <1>4 DEF Reached, Startable
  <1>6. ASSUME NEW n \in Jobs(graph) \ finished
        PROVE  graph[n] \cap (Jobs(graph) \ finished) # {}
    <2>1. Owing(n) # {}
      BY <1>1, <1>5, <1>6 DEF Ledger
    <2>2. PICK k \in graph[n] : k \notin finished
      BY <1>4, <2>1 DEF Owing
    <2>3. k \in Jobs(graph)
      BY <1>1, <1>6, LedgerSets
    <2> QED
      BY <2>2, <2>3
  <1> QED
    BY <1>6

\* Nobody is counted as running a node, and nobody is between a pop and its
\* count: nobody holds a node.
LEMMA StallIsQuiet ==
  ASSUME Held, StallRecovery, ~ LongPreemption
  PROVE  \A t \in Threads : stack[t] = << >>
  <1>1. TInv /\ Layout /\ Places /\ Ledger /\ RestTyped
    BY TypeParts DEF Held
  <1>2. apc = "help" /\ active = 0 /\ ~ Uncounted
    BY DEF StallRecovery
  <1>3. Busy = {} /\ Notifying = {}
    <2> DEFINE D == Busy \cup Notifying
    <2>1. IsFiniteSet(D)
      BY <1>1, LedgerSets
    <2>2. Cardinality(D) = 0
      BY <1>1, <1>2 DEF Ledger
    <2> HIDE DEF D
    <2>3. D = {}
      BY <2>1, <2>2, FS_EmptySet
    <2> QED
      BY <2>3 DEF D
  <1>4. SUFFICES ASSUME NEW t \in Threads, stack[t] # << >> PROVE FALSE
    OBVIOUS
  <1>5. Top(t).at \notin {"load", "popped"}
    BY <1>2, <1>4 DEF Uncounted, Runs
  <1>6. /\ Top(t) \in Frames(stack) /\ FrameFits(Top(t)) /\ Top(t) \in FrameSet
    BY <1>1, <1>4, LayoutFacts
  <1>7. Top(t).node \in Nodes
    <2>2. Len(stack[t]) \in 1..Len(stack[t]) /\ Top(t) = stack[t][Len(stack[t])]
      BY <1>1, <1>4, StackTyped, TopIsLast
    <2>3. Top(t).node # NoNode
      BY <1>1, <1>2, <2>2 DEF Layout, SeedFrame
    <2>4. Top(t).node \in Nodes \cup {NoNode}
      BY <1>6 DEF FrameSet
    <2> QED
      BY <2>3, <2>4
  <1>8. Top(t).at = "running" \/ Top(t).at \in InFanOut
    BY <1>5, <1>6 DEF FrameSet, InFanOut
  <1>9. Top(t).node \in Busy \/ Top(t).node \in Notifying
    BY <1>6, <1>7, <1>8 DEF Busy, Notifying, Running, Fanning, NodesAt
  <1> QED
    BY <1>3, <1>9

LEMMA ActiveWorkersOf ==
  ASSUME RestTyped
  PROVE  /\ Serial(setup) => ~ ActiveWorkers > 0
         /\ Parallel(setup) => ActiveWorkers > 0
  <1>1. graph \in setup.graphs
    BY DEF RestTyped
  <1>2. setup.jobsPerWorker \in Nat \ {0} /\ Cardinality(Jobs(graph)) \in Nat
    BY <1>1, SetupFacts
  <1>3. Cardinality(Sources(graph)) \in Nat
    <2>1. Sources(graph) \subseteq Nodes
      BY <1>1, SetupFacts
    <2>2. IsFiniteSet(Sources(graph))
      BY <2>1, LedgerSets
    <2> QED
      BY <2>2, FS_CardinalityType
  <1> DEFINE n == Cardinality(Jobs(graph))
             sources == Cardinality(Sources(graph))
             d == setup.jobsPerWorker
             wanted == n \div d
             capped == IF sources >= 2 /\ wanted > sources THEN sources ELSE wanted
  <1>4. ActiveWorkers = IF n < d THEN 0 ELSE IF capped > WorkerCount THEN WorkerCount ELSE capped
    BY DEF ActiveWorkers
  <1>5. n \in Nat /\ sources \in Nat /\ d \in Nat \ {0} /\ WorkerCount \in Nat
    BY <1>2, <1>3, SchedulerAssumption
  <1> HIDE DEF n, sources, d
  <1>6. wanted \in Nat /\ (n >= d => wanted > 0)
    <2>1. wanted \in Int /\ d * wanted <= n /\ n < d * wanted + d
      BY <1>5, Z3
    <2> QED
      BY <1>5, <2>1, Z3
  <1> HIDE DEF wanted
  <1>7. capped \in Nat /\ (n >= d => capped > 0)
    BY <1>5, <1>6
  <1> HIDE DEF capped
  <1>8. ASSUME Serial(setup) PROVE ~ ActiveWorkers > 0
    <2>1. WorkerCount = 0 \/ n < d
      BY <1>1, <1>8 DEF Serial, n, d
    <2> QED
      BY <1>4, <1>5, <1>7, <2>1
  <1>9. ASSUME Parallel(setup) PROVE ActiveWorkers > 0
    <2>1. WorkerCount > 0 /\ n >= d
      BY <1>1, <1>9 DEF Parallel, n, d
    <2> QED
      BY <1>4, <1>5, <1>7, <2>1
  <1> QED
    BY <1>8, <1>9

\* Every setup keeps to one of the two ways of running a block.
Steady == \A s \in Setups : Serial(s) \/ Parallel(s)

\* The block ends: there is nothing left in anyone's hands.
LEMMA EndsQuiet ==
  ASSUME BInv, ~ LongPreemption, Steady,
         CycleFound \/ NothingToDo \/ EndParallel \/ EndSerial \/ StallRecovery
  PROVE  /\ ready = << >> /\ \A t \in Threads : stack[t] = << >>
         /\ apc \notin {"idle", "seed"} /\ apc' = "idle"
         /\ finished = Jobs(graph) \/ HasCycle
              \/ \E S \in SUBSET DOMAIN graph :
                   S # {} /\ \A n \in S : graph[n] \cap S # {}
  <1>1. Held /\ RestTyped /\ Alone
    BY TypeParts DEF BInv, Held
  <1>2. DOMAIN graph = Jobs(graph) /\ finished \subseteq Jobs(graph)
    <2>1. Places
      BY <1>1 DEF Held
    <2> QED
      BY <2>1 DEF Jobs, Places, Reached
  <1>3. CASE CycleFound
    <2>1. apc \notin {"idle", "seed"} /\ apc' = "idle" /\ HasCycle
      BY <1>3 DEF CycleFound
    <2> QED
      BY <1>1, <2>1, CycleStuck
  <1>4. CASE NothingToDo
    <2>1. apc \notin {"idle", "seed"} /\ apc' = "idle" /\ jobs <= 0
      BY <1>4 DEF NothingToDo
    <2> QED
      BY <1>1, <2>1, AllDone
  <1>5. CASE EndParallel
    <2>1. apc \notin {"idle", "seed"} /\ apc' = "idle" /\ jobs <= 0
      BY <1>5 DEF EndParallel
    <2> QED
      BY <1>1, <2>1, AllDone
  <1>6. ASSUME apc \notin {"idle", "seed"}, ready = << >>, \A t \in Threads : stack[t] = << >>
        PROVE  finished = Jobs(graph)
                 \/ \E S \in SUBSET DOMAIN graph : S # {} /\ \A n \in S : graph[n] \cap S # {}
    <2> DEFINE S == Jobs(graph) \ finished
    <2>1. \A n \in S : graph[n] \cap S # {}
      BY <1>1, <1>6, StuckJobs
    <2>2. S = {} => finished = Jobs(graph)
      BY <1>2
    <2>3. S \in SUBSET DOMAIN graph
      BY <1>2
    <2> HIDE DEF S
    <2> QED
      BY <2>1, <2>2, <2>3
  <1>7. CASE EndSerial
    <2>1. apc = "drain" /\ apc' = "idle" /\ ready = << >> /\ stack[Audio] = << >>
      BY <1>7 DEF EndSerial
    <2>2. Serial(setup)
      BY <1>1, <2>1 DEF Alone, Steady, RestTyped
    <2>3. \A t \in Threads : stack[t] = << >>
      BY <1>1, <2>1, <2>2 DEF Alone, Threads
    <2> QED
      BY <1>6, <2>1, <2>3
  <1>8. CASE StallRecovery
    <2>1. apc = "help" /\ apc' = "idle" /\ ready = << >>
      BY <1>8 DEF StallRecovery
    <2>2. \A t \in Threads : stack[t] = << >>
      BY <1>1, <1>8, StallIsQuiet
    <2> QED
      BY <1>6, <2>1, <2>2
  <1> QED
    BY <1>3, <1>4, <1>5, <1>7, <1>8

LEMMA EndKept ==
  ASSUME BInv, ~ LongPreemption, Steady,
         CycleFound \/ NothingToDo \/ EndParallel \/ EndSerial \/ StallRecovery
  PROVE  Layout' /\ HandedOnce' /\ Places' /\ Ledger' /\ Quiet' /\ Alone'
  <1>1. /\ ready = << >> /\ \A t \in Threads : stack[t] = << >>
        /\ apc \notin {"idle", "seed"} /\ apc' = "idle"
    BY EndsQuiet
  <1>2. Held /\ RestTyped /\ Alone
    BY TypeParts DEF BInv, Held
  <1>3. UNCHANGED <<stack, ready, graph, finished, runs, active, pending, wpc, setup>>
    BY <1>1 DEF CycleFound, NothingToDo, EndParallel, EndSerial, StallRecovery
  <1>4. session' => session
    BY DEF CycleFound, NothingToDo, EndParallel, EndSerial, StallRecovery
  <1>5. Layout' /\ HandedOnce' /\ Places' /\ Ledger'
    <2>1. stack[Audio] = << >>
      BY <1>1 DEF Threads
    <2> QED
      BY <1>1, <1>2, <1>3, <2>1, CalmHolds
  <1>6. Quiet'
    BY <1>1, <1>3 DEF Quiet
  <1>7. Alone'
    <2>1. Serial(setup)' = Serial(setup) /\ wpc' = wpc /\ stack' = stack /\ apc' # "drain"
      BY <1>1, <1>3 DEF Serial
    <2> QED
      BY <1>2, <1>4, <2>1 DEF Alone
  <1> QED
    BY <1>5, <1>6, <1>7

LEMMA PublishKept ==
  ASSUME BInv, Publish
  PROVE  Layout' /\ HandedOnce' /\ Places' /\ Ledger' /\ Quiet' /\ Alone'
  <1>1. Held /\ RestTyped /\ Alone
    BY TypeParts DEF BInv, Held
  <1>2. /\ apc = "publish" /\ apc' \in {"help", "drain"}
        /\ UNCHANGED <<stack, ready, graph, finished, runs, active, pending, jobs, wpc, setup>>
    BY DEF Publish
  <1>3. Layout' /\ HandedOnce' /\ Places' /\ Ledger'
    BY <1>1, <1>2, CalmHolds
  <1>4. Quiet'
    BY <1>2 DEF Quiet
  <1>5. Alone'
    <2>1. /\ Serial(setup)' = Serial(setup) /\ Parallel(setup)' = Parallel(setup)
      BY <1>2
    <2>2. CASE ActiveWorkers > 0
      <3>1. apc' = "help" /\ ~ Serial(setup)
        BY <1>1, <2>2, ActiveWorkersOf DEF Publish
      <3> QED
        BY <2>1, <3>1 DEF Alone
    <2>3. CASE ~ ActiveWorkers > 0
      <3>1. session' = session /\ ~ Parallel(setup)
        BY <1>1, <2>3, ActiveWorkersOf DEF Publish
      <3> QED
        BY <1>1, <1>2, <2>1, <3>1 DEF Alone
    <2> QED
      BY <2>2, <2>3
  <1> QED
    BY <1>3, <1>4, <1>5

LEMMA SeedingKept ==
  ASSUME BInv, Seed \/ Seeded
  PROVE  Layout' /\ HandedOnce' /\ Places' /\ Ledger' /\ Quiet' /\ Alone'
  <1>1. Held /\ RestTyped /\ Alone /\ Quiet
    BY TypeParts DEF BInv, Held
  <1>2. Layout' /\ HandedOnce' /\ Places' /\ Ledger'
    BY <1>1, SeedHolds, SeededHolds
  <1>3. apc' \in {"seed", "publish"} /\ UNCHANGED <<wpc, setup, session>>
    BY DEF Seed, Seeded
  <1>4. Quiet'
    BY <1>3 DEF Quiet
  <1>5. \A w \in Workers : stack'[w] = stack[w]
    <2>1. stack \in Stacks
      BY <1>1, StackTyped DEF Held
    <2>2. \E x : stack' = [stack EXCEPT ![Audio] = x]
      BY DEF Seed, Seeded, WithTop
    <2>3. \A w \in Workers : w \in Threads /\ w # Audio
      BY SchedulerAssumption DEF Workers, Threads
    <2> QED
      BY <2>1, <2>2, <2>3 DEF Stacks
  <1>6. Alone'
    BY <1>1, <1>3, <1>5 DEF Alone
  <1> QED
    BY <1>2, <1>4, <1>6

LEMMA AudioPopKept ==
  ASSUME BInv, AudioPop
  PROVE  Layout' /\ HandedOnce' /\ Places' /\ Ledger' /\ Quiet' /\ Alone'
  <1>1. Held /\ RestTyped /\ Alone /\ Quiet
    BY TypeParts DEF BInv, Held
  <1>2. /\ apc \in {"help", "drain"} /\ stack[Audio] = << >> /\ ready # << >>
        /\ ready' = Tail(ready) /\ Audio \in Threads
        /\ stack' = [stack EXCEPT ![Audio] = <<Popped(Head(ready), frames, "popped")>>]
        /\ UNCHANGED <<graph, runs, active, pending, apc, jobs, finished, wpc, setup, session>>
    BY DEF AudioPop, Threads
  <1>3. frames \in Nat
    BY <1>1, SetupFacts DEF RestTyped
  <1>4. Layout' /\ HandedOnce' /\ Places' /\ Ledger'
    BY <1>1, <1>2, <1>3, StartHolds
  <1>5. Quiet'
    BY <1>2 DEF Quiet
  <1>6. \A w \in Workers : stack'[w] = stack[w]
    <2>1. stack \in Stacks
      BY <1>1, StackTyped DEF Held
    <2>2. \A w \in Workers : w \in Threads /\ w # Audio
      BY SchedulerAssumption DEF Workers, Threads
    <2> QED
      BY <1>2, <2>1, <2>2 DEF Stacks
  <1>7. Alone'
    BY <1>1, <1>2, <1>6 DEF Alone
  <1> QED
    BY <1>4, <1>5, <1>7

LEMMA WorkerKept ==
  ASSUME BInv, NEW w \in Workers, WorkerStep(w)
  PROVE  Layout' /\ HandedOnce' /\ Places' /\ Ledger' /\ Quiet' /\ Alone'
  <1>1. Held /\ RestTyped /\ Alone /\ Quiet /\ TInv
    BY TypeParts DEF BInv, Held
  <1>2. w \in Threads /\ w # Audio
    BY SchedulerAssumption DEF Workers, Threads
  <1>3. UNCHANGED <<graph, runs, active, pending, apc, jobs, finished, setup, session>>
    BY DEF WorkerStep, Wake, Enter, Unbench, Check, WorkerPop, WorkerUnchanged
  <1>4. ~ Serial(setup)
    <2> SUFFICES ASSUME Serial(setup) PROVE FALSE
      OBVIOUS
    <2>1. ~ session /\ wpc[w] = "parked"
      BY <1>1 DEF Alone
    <2> QED
      BY <2>1 DEF WorkerStep, Wake, Enter, Unbench, Check, WorkerPop
  <1>5. Alone'
    <2>1. ~ Serial(setup)' /\ Parallel(setup)' = Parallel(setup)
      BY <1>3, <1>4
    <2> QED
      BY <1>1, <1>3, <2>1 DEF Alone
  <1>6. CASE UNCHANGED <<stack, ready>>
    <2>1. Layout' /\ HandedOnce' /\ Places' /\ Ledger'
      BY <1>1, <1>3, <1>6, StillHolds
    <2>2. Quiet'
      BY <1>1, <1>3, <1>6 DEF Quiet
    <2> QED
      BY <1>5, <2>1, <2>2
  <1>7. CASE /\ ready # << >> /\ ready' = Tail(ready) /\ stack[w] = << >>
             /\ stack' = [stack EXCEPT ![w] = <<Popped(Head(ready), 0, "load")>>]
    <2>1. Layout' /\ HandedOnce' /\ Places' /\ Ledger'
      BY <1>1, <1>2, <1>3, <1>7, StartHolds
    <2>2. Quiet'
      BY <1>1, <1>3, <1>7 DEF Quiet
    <2> QED
      BY <1>5, <2>1, <2>2
  <1> QED
    BY <1>6, <1>7 DEF WorkerStep, Wake, Enter, Unbench, Check, WorkerPop

-----------------------------------------------------------------------------
(* A block opens *)

\* The only frame of the block that opens is the one that seeds it.
LEMMA OpenedFrames ==
  ASSUME TInv, NEW g \in setup.graphs, NEW f \in setup.frames, BeginBlock(g, f), Quiet
  PROVE  \E s \in FrameSet :
           /\ s.node = NoNode /\ s.at = "fanout" /\ s.left = Sources(g) /\ s.next = NoNode
           /\ s.nf = f
           /\ stack' \in Stacks /\ stack'[Audio] = <<s>>
           /\ \A w \in Workers : stack'[w] = << >> /\ stack[w] = << >>
           /\ Frames(stack') = {s}
  <1> DEFINE s == [Popped(NoNode, f, "fanout") EXCEPT !.left = Sources(g)]
             st2 == stack'
  <1>1. RestTyped /\ stack \in Stacks /\ \A t \in Threads : stack[t] = << >>
    BY TypeParts, StackTyped DEF Quiet, BeginBlock
  <1>2. f \in Nat /\ Sources(g) \subseteq Nodes
    BY <1>1, SetupFacts
  <1>3. /\ s \in FrameSet /\ s.node = NoNode /\ s.at = "fanout" /\ s.left = Sources(g)
        /\ s.next = NoNode /\ s.nf = f
    BY <1>2 DEF Popped, FrameSet
  <1>4. st2 = [stack EXCEPT ![Audio] = <<s>>]
    BY DEF BeginBlock
  <1> HIDE DEF s, st2
  <1>5. Audio \in Threads /\ \A w \in Workers : w \in Threads /\ w # Audio
    BY SchedulerAssumption DEF Workers, Threads
  <1>6. st2 \in Stacks /\ st2[Audio] = <<s>> /\ \A w \in Workers : st2[w] = << >>
    <2>1. <<s>> \in Seq(FrameSet)
      BY <1>3
    <2> QED
      BY <1>1, <1>4, <1>5, <2>1 DEF Stacks
  <1>7. Frames(st2) = {s}
    <2>1. Len(<<s>>) = 1 /\ <<s>>[1] = s
      BY <1>3
    <2>2. s \in Frames(st2)
      <3>1. 1 \in 1..Len(st2[Audio]) /\ st2[Audio][1] = s
        BY <1>6, <2>1
      <3> QED
        BY <1>5, <1>6, <3>1, FrameIsSomewhere
    <2>3. ASSUME NEW x \in Frames(st2) PROVE x = s
      <3>1. PICK t \in Threads : \E i \in 1..Len(st2[t]) : x = st2[t][i]
        BY <1>6, FrameIsSomewhere
      <3>2. CASE t = Audio
        <4>1. Len(st2[t]) = 1 /\ st2[t][1] = s
          BY <1>6, <2>1, <3>2
        <4> QED
          BY <3>1, <4>1
      <3>3. CASE t # Audio
        <4>1. Len(st2[t]) = 0
          BY <1>6, <3>3, EmptySeq DEF Threads
        <4> QED
          BY <3>1, <4>1
      <3> QED
        BY <3>2, <3>3
    <2> QED
      BY <2>2, <2>3
  <1> QED
    BY <1>1, <1>3, <1>5, <1>6, <1>7 DEF st2

LEMMA BeginBlockKept ==
  ASSUME BInv, TInv', NEW g \in setup.graphs, NEW f \in setup.frames, BeginBlock(g, f)
  PROVE  Layout' /\ HandedOnce' /\ Places' /\ Ledger' /\ Quiet' /\ Alone'
  <1>1. TInv /\ Quiet /\ RestTyped /\ RestTyped' /\ Ledger /\ Alone
    <2>1. TInv' => RestTyped'
      BY TypeParts, PTL
    <2> QED
      BY <2>1, TypeParts DEF BInv
  <1>2. /\ apc = "idle" /\ graph' = g /\ ready' = << >> /\ apc' = "seed"
        /\ pending' = [n \in Nodes |-> IF n \in Jobs(g) THEN Cardinality(g[n]) ELSE -1]
        /\ jobs' = Cardinality(Jobs(g)) /\ runs' = [n \in Nodes |-> 0] /\ finished' = {}
        /\ UNCHANGED <<active, wpc, session, setup>>
    BY DEF BeginBlock
  <1>3. PICK s \in FrameSet :
          /\ s.node = NoNode /\ s.at = "fanout" /\ s.left = Sources(g) /\ s.next = NoNode
          /\ stack' \in Stacks /\ stack'[Audio] = <<s>>
          /\ \A w \in Workers : stack'[w] = << >> /\ stack[w] = << >>
          /\ Frames(stack') = {s}
    BY <1>1, OpenedFrames
  <1>4. Len(<<s>>) = 1 /\ <<s>>[1] = s /\ <<s>> # << >>
    OBVIOUS
  <1>5. NoNode \notin Nodes /\ Sources(g) \subseteq Jobs(g) /\ Sources(g) \subseteq Nodes
    BY <1>1, SetupFacts, SchedulerAssumption
  <1>6. /\ Grabbed' = {} /\ Busy' = {} /\ Notifying' = {} /\ InHand' = {}
        /\ Seeding' = Sources(g)
    <2> DEFINE A == Frames(stack')
    <2>1. A = {s}
      BY <1>3
    <2> HIDE DEF A
    <2>2. Taken(A) = {} /\ Running(A) = {} /\ Fanning(A) = {} /\ Carried(A) = {}
      BY <1>3, <1>5, <2>1 DEF Taken, Running, Fanning, NodesAt, Carried
    <2>3. Left(A, NoNode) = Sources(g)
      BY <1>3, <1>5, <2>1 DEF Left
    <2> QED
      BY <2>2, <2>3 DEF A, Grabbed, Busy, Notifying, InHand, Seeding
  <1>7. Queued' = {} /\ Once(ready')
    <2>1. Elements(ready') = {} /\ Once(ready')
      BY <1>2, QueueEmpty
    <2> QED
      BY <2>1 DEF Queued
  <1>8. Startable' = Sources(g)
    BY <1>6, <1>7 DEF Startable
  <1>9. active' = 0
    <2>1. \A t \in Threads : stack[t] = << >>
      BY <1>1, <1>2 DEF Quiet
    <2>2. Frames(stack) = {}
      <3>1. \A x \in Frames(stack) : \E t \in Threads : \E i \in 1..Len(stack[t]) : x = stack[t][i]
        BY <1>1, StackTyped, FrameIsSomewhere
      <3>2. \A t \in Threads : Len(stack[t]) = 0
        BY <2>1, EmptySeq
      <3> QED
        BY <3>1, <3>2
    <2>3. Busy \cup Notifying = {}
      BY <2>2 DEF Busy, Notifying, Running, Fanning, NodesAt
    <2>4. active = 0
      BY <1>1, <2>3, FS_EmptySet DEF Ledger
    <2> QED
      BY <1>2, <2>4
  <1>10. Ledger'
    BY <1>1, <1>2, <1>6, <1>8, <1>9, LedgerOpened
  <1>11. Places'
    <2>1. Jobs(graph)' = Jobs(g)
      BY <1>2 DEF Jobs
    <2> QED
      BY <1>2, <1>5, <1>6, <1>7, <1>8, <2>1 DEF Places, Reached
  <1>12. Layout'
    <2>1. \A t \in Threads : \A i \in 1..Len(stack'[t]) :
            t = Audio /\ i = 1 /\ stack'[t][i] = s
      <3>1. TAKE t \in Threads
      <3>2. TAKE i \in 1..Len(stack'[t])
      <3>3. CASE t = Audio
        <4>1. Len(stack'[t]) = 1 /\ stack'[t][1] = s
          BY <1>3, <1>4, <3>3
        <4>2. i = 1
          BY <4>1
        <4> QED
          BY <3>3, <4>1, <4>2
      <3>4. CASE t # Audio
        <4>1. Len(stack'[t]) = 0
          BY <1>3, <3>4, EmptySeq DEF Threads
        <4> QED
          BY <4>1
      <3> QED
        BY <3>3, <3>4
    <2>2. Distinct(stack')
      BY <2>1 DEF Distinct
    <2>3. SeedFrame'
      BY <1>2, <1>3, <1>4, <2>1 DEF SeedFrame
    <2>4. FrameFits(s)'
      BY <1>2, <1>3, SchedulerAssumption DEF FrameFits, InFanOut
    <2> QED
      BY <1>3, <2>2, <2>3, <2>4 DEF Layout
  <1>13. HandedOnce'
    <2>1. NextOnce(Frames(stack'))
      BY <1>3 DEF NextOnce
    <2> QED
      BY <1>7, <2>1 DEF HandedOnce
  <1>14. Quiet' /\ Alone'
    <2>1. Quiet'
      BY <1>2 DEF Quiet
    <2>2. Alone'
      BY <1>1, <1>2, <1>3 DEF Alone
    <2> QED
      BY <2>1, <2>2
  <1> QED
    BY <1>10, <1>11, <1>12, <1>13, <1>14

LEMMA InitHolds == Init => BInv
  <1> SUFFICES ASSUME Init PROVE BInv
    OBVIOUS
  <1>1. TInv /\ stack \in Stacks /\ RestTyped
    BY InitTyped, StackTyped, TypeParts
  <1>2. /\ apc = "idle" /\ stack = [t \in Threads |-> << >>] /\ ready = << >> /\ active = 0
        /\ runs = [n \in Nodes |-> 0] /\ finished = {} /\ session = FALSE
        /\ wpc = [w \in Workers |-> "parked"]
    BY DEF Init
  <1>3. \A t \in Threads : stack[t] = << >> /\ Len(stack[t]) = 0
    BY <1>2
  <1>4. Frames(stack) = {}
    <2>1. \A x \in Frames(stack) : \E t \in Threads : \E i \in 1..Len(stack[t]) : x = stack[t][i]
      BY <1>1, FrameIsSomewhere
    <2> QED
      BY <1>3, <2>1
  <1>5. /\ Grabbed = {} /\ Busy = {} /\ Notifying = {} /\ InHand = {} /\ Seeding = {}
    BY <1>4 DEF Grabbed, Busy, Notifying, InHand, Seeding, Taken, Running, Fanning, NodesAt,
                Carried, Left
  <1>6. Queued = {} /\ Once(ready)
    BY <1>2, QueueEmpty DEF Queued
  <1>7. Layout
    <2>1. Distinct(stack)
      BY <1>3 DEF Distinct
    <2>2. SeedFrame
      BY <1>2, <1>3 DEF SeedFrame, Threads
    <2> QED
      BY <1>4, <2>1, <2>2 DEF Layout
  <1>8. HandedOnce
    BY <1>4, <1>6 DEF HandedOnce, NextOnce
  <1>9. Places
    BY <1>2, <1>5, <1>6 DEF Places, Startable, Reached
  <1>10. Ledger
    <2>1. Cardinality(Busy \cup Notifying) = 0
      BY <1>5, FS_EmptySet
    <2> QED
      BY <1>2, <1>5, <2>1 DEF Ledger
  <1>11. Quiet
    BY <1>2, <1>3 DEF Quiet
  <1>12. Alone
    BY <1>2, <1>3 DEF Alone, Threads
  <1> QED
    BY <1>1, <1>7, <1>8, <1>9, <1>10, <1>11, <1>12 DEF BInv

LEMMA InvariantKept ==
  ASSUME BInv, [Next]_vars, ~ LongPreemption, Steady
  PROVE  BInv'
  <1>1. TInv /\ Held /\ RestTyped
    BY TypeParts DEF BInv, Held
  <1>2. TInv'
    BY <1>1, TypesKept
  <1>3. ASSUME NEW g \in setup.graphs, NEW f \in setup.frames, BeginBlock(g, f)
        PROVE  Layout' /\ HandedOnce' /\ Places' /\ Ledger' /\ Quiet' /\ Alone'
    BY <1>2, <1>3, BeginBlockKept
  <1>4. ASSUME NEW t \in Threads, ThreadStep(t)
        PROVE  Layout' /\ HandedOnce' /\ Places' /\ Ledger' /\ Quiet' /\ Alone'
    <2>1. CASE Execute(t)
      BY <2>1, ExecuteKept
    <2>2. CASE t = Audio /\ AudioStep
      BY <2>2, SeedingKept, PublishKept, AudioPopKept, EndKept DEF AudioStep
    <2>3. CASE t \in Workers /\ WorkerStep(t)
      BY <2>3, WorkerKept
    <2> QED
      BY <1>4, <2>1, <2>2, <2>3 DEF ThreadStep
  <1>5. CASE UNCHANGED vars
    <2>1. Layout' /\ HandedOnce' /\ Places' /\ Ledger'
      BY <1>1, <1>5, StillHolds DEF vars
    <2>2. Quiet' /\ Alone'
      BY <1>5 DEF vars, Quiet, Alone, BInv
    <2> QED
      BY <1>2, <2>1, <2>2 DEF BInv
  <1> QED
    BY <1>2, <1>3, <1>4, <1>5 DEF Next, BInv

-----------------------------------------------------------------------------
(* The theorems *)

\* Every node is in one place, the counters count what they are for, and
\* between two blocks nobody holds a node (process_live_block_internal and
\* worker_main).
THEOREM BlockInvariant ==
  ASSUME ~ LongPreemption, Steady
  PROVE  Spec => []BInv
  <1>1. BInv /\ [Next]_vars => BInv'
    BY InvariantKept
  <1> QED
    BY <1>1, InitHolds, PTL DEF Spec

\* process_next_block returns only when every thread is out of the block: what
\* the caller copies, frees and edits next is in nobody's hands.
THEOREM NobodyIsLeftBehind ==
  ASSUME ~ LongPreemption, Steady
  PROVE  Spec => []NobodyRunsBetweenBlocks
  <1>1. BInv => NobodyRunsBetweenBlocks
    BY DEF BInv, Quiet, NobodyRunsBetweenBlocks
  <1> QED
    BY <1>1, BlockInvariant, PTL

\* A node starts once, with its inputs written.
LEMMA BeginStarts ==
  ASSUME BInv, NEW t \in Threads, Begin(t)
  PROVE  \E n \in Nodes : Dataflow!Start(n)
  <1> DEFINE n == Top(t).node
  <1>1. Held /\ Quiet
    BY DEF BInv, Held
  <1>2. stack[t] # << >> /\ Top(t).at \in {"load", "popped"}
    BY DEF Begin, Runs
  <1>3. apc # "idle" /\ RestTyped /\ n \in Grabbed /\ n \in Nodes
    <2>1. apc # "idle" /\ RestTyped /\ n \in Grabbed /\ Top(t) \in NamedFrames
      BY <1>1, <1>2, TopFacts
    <2> QED
      BY <1>2, <2>1 DEF NamedFrames
  <1>4. n \in Jobs(graph) /\ n \in Reached /\ n \notin Busy /\ n \notin finished
    BY <1>1, <1>3 DEF Held, Places, Reached, Startable
  <1>5. runs[n] = 0
    BY <1>1, <1>3, <1>4 DEF Held, Ledger
  <1>6. graph[n] \subseteq finished
    <2>1. Owing(n) = {}
      BY <1>1, <1>3, <1>4 DEF Held, Ledger
    <2> QED
      BY <2>1 DEF Owing
  <1>7. runs' = [runs EXCEPT ![n] = 1] /\ UNCHANGED <<apc, graph, finished>>
    BY <1>3, <1>5 DEF Begin, RestTyped
  <1> QED
    BY <1>3, <1>4, <1>5, <1>6, <1>7 DEF Dataflow!Start, Jobs

\* A node that is running finishes.
LEMMA FinishFinishes ==
  ASSUME BInv, NEW t \in Threads, Finish(t)
  PROVE  \E n \in Nodes : Dataflow!Finish(n)
  <1> DEFINE n == Top(t).node
  <1>1. Held /\ Quiet
    BY DEF BInv, Held
  <1>2. stack[t] # << >> /\ Top(t).at = "running"
    BY DEF Finish, Runs
  <1>3. apc # "idle" /\ n \in Busy /\ n \in Nodes
    <2>1. apc # "idle" /\ n \in Busy /\ Top(t) \in NamedFrames
      BY <1>1, <1>2, TopFacts
    <2> QED
      BY <1>2, <2>1 DEF NamedFrames
  <1>4. n \notin finished
    BY <1>1, <1>3 DEF Held, Places
  <1>5. runs[n] = 1
    BY <1>1, <1>3 DEF Held, Ledger
  <1>6. finished' = finished \cup {n} /\ UNCHANGED <<apc, graph, runs>>
    BY DEF Finish
  <1> QED
    BY <1>3, <1>4, <1>5, <1>6 DEF Dataflow!Finish

\* A step of the scheduler is a step of the promise, or keeps what it is about.
LEMMA StepImplements ==
  ASSUME BInv, ~ LongPreemption, Steady, [Next]_vars
  PROVE  [Dataflow!Next]_(Dataflow!vars)
  <1>1. RestTyped
    BY TypeParts DEF BInv
  <1>2. ASSUME NEW g \in setup.graphs, NEW f \in setup.frames, BeginBlock(g, f)
        PROVE  Dataflow!Next
    <2>1. Dataflow!Open(g)
      BY <1>2 DEF BeginBlock, Dataflow!Open
    <2>2. g \in UNION {s.graphs : s \in Setups}
      BY <1>1 DEF RestTyped
    <2> QED
      BY <2>1, <2>2 DEF Dataflow!Next
  <1>3. ASSUME NEW t \in Threads, Execute(t)
        PROVE  [Dataflow!Next]_(Dataflow!vars)
    <2>1. CASE Begin(t)
      BY <2>1, BeginStarts DEF Dataflow!Next
    <2>2. CASE Finish(t)
      BY <2>2, FinishFinishes DEF Dataflow!Next
    <2>3. CASE ~ Begin(t) /\ ~ Finish(t)
      BY <1>3, <2>3 DEF Execute, Notify, Leave, Push, PushFull, HelpOther, HelpNothing,
                        RunInline, Dataflow!vars
    <2> QED
      BY <2>1, <2>2, <2>3
  <1>4. ASSUME AudioStep PROVE [Dataflow!Next]_(Dataflow!vars)
    <2>1. CASE CycleFound \/ NothingToDo \/ EndParallel \/ EndSerial \/ StallRecovery
      <3>1. /\ apc \notin {"idle", "seed"} /\ apc' = "idle"
            /\ finished = Jobs(graph) \/ HasCycle
                 \/ \E S \in SUBSET DOMAIN graph : S # {} /\ \A n \in S : graph[n] \cap S # {}
        BY <2>1, EndsQuiet
      <3>2. UNCHANGED <<graph, runs, finished>>
        BY <2>1 DEF CycleFound, NothingToDo, EndParallel, EndSerial, StallRecovery
      <3>3. HasCycle => Dataflow!Cyclic
        <4> SUFFICES ASSUME HasCycle PROVE Dataflow!Cyclic
          OBVIOUS
        <4>1. Held /\ Jobs(graph) # {} /\ Jobs(graph) = DOMAIN graph
          BY DEF BInv, Held, HasCycle, Jobs
        <4>2. \A n \in Jobs(graph) : graph[n] \cap Jobs(graph) # {}
          BY <3>1, <4>1, CycleStuck
        <4> QED
          BY <4>1, <4>2 DEF Dataflow!Cyclic
      <3>4. Dataflow!Close
        BY <3>1, <3>2, <3>3 DEF Dataflow!Close, Dataflow!Cyclic, Jobs
      <3> QED
        BY <3>4 DEF Dataflow!Next
    <2>2. CASE Seed \/ Seeded \/ Publish \/ AudioPop
      BY <2>2 DEF Seed, Seeded, Publish, AudioPop, Dataflow!vars
    <2> QED
      BY <1>4, <2>1, <2>2 DEF AudioStep
  <1>5. ASSUME NEW w \in Workers, WorkerStep(w) PROVE UNCHANGED Dataflow!vars
    BY <1>5 DEF WorkerStep, Wake, Enter, Unbench, Check, WorkerPop, WorkerUnchanged,
                Dataflow!vars
  <1>6. ASSUME UNCHANGED vars PROVE UNCHANGED Dataflow!vars
    BY <1>6 DEF vars, Dataflow!vars
  <1> QED
    BY <1>2, <1>3, <1>4, <1>5, <1>6 DEF Next, ThreadStep

\* Block by block, the threads implement BlockDataflow: every job runs once and
\* after the jobs it reads from, however fan-outs, pops and helping interleave,
\* and process_next_block returns only when all of them have run, or when some
\* of them wait for each other.
THEOREM ImplementsDataflow ==
  ASSUME ~ LongPreemption, Steady
  PROVE  Spec => DataflowSpec
  <1>1. Init => Dataflow!Init
    BY DEF Init, Dataflow!Init
  <1>2. BInv /\ [Next]_vars => [Dataflow!Next]_(Dataflow!vars)
    BY StepImplements
  <1> QED
    BY <1>1, <1>2, BlockInvariant, PTL DEF Spec, DataflowSpec, Dataflow!Spec

-----------------------------------------------------------------------------
(* The frame counts *)

\* A frame carries the length of the block, or is a worker's that is yet to
\* read it.
LengthFits(f) == f.at # "load" => f.nf = frames
Right(q) == \A i \in 1..Len(q) : LengthFits(q[i])

\* Only a worker reads the count, at the bottom of its stack.
LoadsAlone(t, q) == \A i \in 1..Len(q) : q[i].at = "load" => Len(q) = 1 /\ t # Audio

Lengths == /\ Audio \notin early
           /\ \A t \in Threads : /\ LoadsAlone(t, stack[t])
                                 /\ t \notin early => Right(stack[t])
           /\ session => apc = "help" /\ sessionFrames = frames

\* The ways in which a stack changes: a frame moves on, calls another, returns.
LEMMA LengthsMoved ==
  ASSUME stack \in Stacks, NEW t \in Threads, LoadsAlone(t, stack[t]), stack[t] # << >>,
         NEW e \in FrameSet, e.at # "load"
  PROVE  /\ LoadsAlone(t, WithTop(t, e)[t])
         /\ LengthFits(e) /\ (Right(stack[t]) \/ Top(t).at = "load") => Right(WithTop(t, e)[t])
  <1> DEFINE s == stack[t]
             q == Append(Front(s), e)
  <1>1. s \in Seq(FrameSet) /\ s # << >>
    BY DEF Stacks
  <1>2. WithTop(t, e)[t] = q
    BY DEF WithTop, Stacks
  <1>3. /\ Len(q) = Len(s) /\ Len(s) \in Nat \ {0}
        /\ \A i \in 1..Len(s) : q[i] = IF i = Len(s) THEN e ELSE s[i]
    BY <1>1, ReplaceLast, FrontLast
  <1>4. Top(t) = s[Len(s)]
    BY <1>1, FrontLast DEF Top
  <1>5. LoadsAlone(t, s)
    OBVIOUS
  <1> HIDE DEF q, s
  <1>6. LoadsAlone(t, q)
    BY <1>3, <1>5 DEF LoadsAlone
  <1>7. Top(t).at = "load" => Len(s) = 1
    BY <1>3, <1>4, <1>5 DEF LoadsAlone
  <1>8. LengthFits(e) /\ (Right(s) \/ Top(t).at = "load") => Right(q)
    BY <1>3, <1>7 DEF Right
  <1> QED
    BY <1>2, <1>6, <1>8 DEF s

LEMMA LengthsCalled ==
  ASSUME stack \in Stacks, NEW t \in Threads, LoadsAlone(t, stack[t]), stack[t] # << >>,
         NEW e \in FrameSet, e.at # "load", NEW c \in FrameSet, c.at # "load"
  PROVE  /\ LoadsAlone(t, WithCall(t, e, c)[t])
         /\ LengthFits(e) /\ LengthFits(c) /\ Right(stack[t]) => Right(WithCall(t, e, c)[t])
  <1> DEFINE s == stack[t]
             r == Append(Front(s), e)
             q == Append(r, c)
  <1>1. s \in Seq(FrameSet) /\ s # << >>
    BY DEF Stacks
  <1>2. WithCall(t, e, c)[t] = q
    <2>1. WithCall(t, e, c)[t] = Front(s) \o <<e, c>>
      BY DEF WithCall, Stacks
    <2> QED
      BY <1>1, <2>1, ReplaceAndPush
  <1>3. /\ r \in Seq(FrameSet) /\ Len(r) = Len(s) /\ Len(s) \in Nat \ {0}
        /\ \A i \in 1..Len(s) : r[i] = IF i = Len(s) THEN e ELSE s[i]
    BY <1>1, ReplaceLast, FrontLast
  <1>4. LoadsAlone(t, s)
    OBVIOUS
  <1> HIDE DEF r, s
  <1>5. /\ Len(q) = Len(s) + 1 /\ q[Len(s) + 1] = c
        /\ \A i \in 1..Len(s) : q[i] = r[i]
    BY <1>3, AppendProperties
  <1> HIDE DEF q
  <1>6. \A i \in 1..Len(q) : \/ i \in 1..Len(s) /\ i # Len(s) /\ q[i] = s[i]
                             \/ q[i] = e \/ q[i] = c
    BY <1>3, <1>5
  <1>7. LoadsAlone(t, q)
    BY <1>3, <1>4, <1>6 DEF LoadsAlone
  <1>8. LengthFits(e) /\ LengthFits(c) /\ Right(s) => Right(q)
    BY <1>6 DEF Right
  <1> QED
    BY <1>2, <1>7, <1>8 DEF s

LEMMA LengthsReturned ==
  ASSUME stack \in Stacks, NEW t \in Threads, LoadsAlone(t, stack[t]), stack[t] # << >>
  PROVE  /\ LoadsAlone(t, [stack EXCEPT ![t] = Front(@)][t])
         /\ Right(stack[t]) => Right([stack EXCEPT ![t] = Front(@)][t])
  <1> DEFINE s == stack[t]
             q == Front(s)
  <1>1. s \in Seq(FrameSet) /\ s # << >>
    BY DEF Stacks
  <1>2. [stack EXCEPT ![t] = Front(@)][t] = q
    BY DEF Stacks
  <1>3. /\ Len(q) = Len(s) - 1 /\ Len(s) \in Nat \ {0}
        /\ \A i \in 1..Len(s) - 1 : q[i] = s[i]
    BY <1>1, FrontLast
  <1>4. LoadsAlone(t, s)
    OBVIOUS
  <1> HIDE DEF q, s
  <1>5. \A i \in 1..Len(q) : i \in 1..Len(s) /\ i < Len(s) /\ q[i] = s[i]
    BY <1>3
  <1>6. LoadsAlone(t, q)
    BY <1>3, <1>4, <1>5 DEF LoadsAlone
  <1>7. Right(s) => Right(q)
    BY <1>5 DEF Right
  <1> QED
    BY <1>2, <1>6, <1>7 DEF s

LEMMA LengthsOfOne ==
  ASSUME NEW t \in Threads, NEW c \in FrameSet
  PROVE  /\ LoadsAlone(t, << >>) /\ Right(<< >>)
         /\ (c.at = "load" => t # Audio) => LoadsAlone(t, <<c>>)
         /\ LengthFits(c) => Right(<<c>>)
  <1> DEFINE q == <<c>>
             z == << >>
  <1>1. Len(z) = 0 /\ Len(q) = 1 /\ q[1] = c
    BY EmptySeq
  <1> HIDE DEF q, z
  <1>2. (\A i \in 1..Len(z) : FALSE) /\ \A i \in 1..Len(q) : i = 1
    BY <1>1
  <1>3. LoadsAlone(t, z) /\ Right(z)
    BY <1>2 DEF LoadsAlone, Right
  <1>4. (c.at = "load" => t # Audio) => LoadsAlone(t, q)
    BY <1>1, <1>2 DEF LoadsAlone
  <1>5. LengthFits(c) => Right(q)
    BY <1>1, <1>2 DEF Right
  <1> QED
    BY <1>3, <1>4, <1>5 DEF q, z

LEMMA LengthsInit == Init => Lengths
  <1> SUFFICES ASSUME Init PROVE Lengths
    OBVIOUS
  <1>1. \A t \in Threads : stack[t] = << >>
    BY DEF Init
  <1>2. \A t \in Threads : Len(stack[t]) = 0
    BY <1>1, EmptySeq
  <1>3. \A t \in Threads : \A i \in 1..Len(stack[t]) : FALSE
    BY <1>2
  <1> QED
    BY <1>3 DEF Init, Lengths, LoadsAlone, Right

\* It is enough to look at the thread that moves.
LEMMA LengthsOthers ==
  ASSUME Lengths, NEW t \in Threads, UNCHANGED frames,
         \A u \in Threads : u # t => stack'[u] = stack[u] /\ (u \in early <=> u \in early'),
         Audio \notin early', LoadsAlone(t, stack'[t]), t \notin early' => Right(stack'[t]),
         session' => apc' = "help" /\ sessionFrames' = frames
  PROVE  Lengths'
  <1>1. \A q : Right(q)' <=> Right(q')
    BY DEF Right, LengthFits
  <1>2. ASSUME NEW u \in Threads PROVE LoadsAlone(u, stack'[u]) /\ (u \notin early' => Right(stack'[u]))
    BY DEF Lengths
  <1> QED
    BY <1>2 DEF Lengths, LoadsAlone, Right, LengthFits

\* A running thread passes its own count on, and a worker reads the session's.
LEMMA LengthsStep ==
  ASSUME BInv, Lengths, NEW t \in Threads, Execute(t)
  PROVE  Lengths'
  <1> DEFINE F == Top(t)
             Fit == /\ LoadsAlone(t, stack'[t])
                    /\ t \notin early' => Right(stack'[t])
  <1>1. Held /\ Quiet /\ RestTyped /\ TInv /\ stack \in Stacks
    BY TypeParts, StackTyped DEF BInv, Held
  <1>2. /\ stack[t] # << >> /\ \A u \in Threads : u # t => stack'[u] = stack[u]
        /\ UNCHANGED <<session, apc>>
    BY <1>1, OthersKept
  <1>3. UNCHANGED <<frames, sessionFrames>>
    BY DEF Execute, Begin, Finish, Notify, Leave, Push, PushFull, HelpOther, HelpNothing,
           RunInline
  <1>4. F \in FrameSet /\ F \in NamedFrames
    BY <1>1, <1>2, TopFacts
  <1>5. LoadsAlone(t, stack[t]) /\ Audio \notin early /\ (t \notin early => Right(stack[t]))
    BY DEF Lengths
  <1>6. (F.at = "load" => t # Audio) /\ (t \notin early => LengthFits(F))
    <2>1. F = stack[t][Len(stack[t])] /\ Len(stack[t]) \in 1..Len(stack[t])
      BY <1>1, <1>2, TopIsLast
    <2> QED
      BY <1>5, <2>1 DEF LoadsAlone, Right
  <1>7. SUFFICES /\ Fit /\ Audio \notin early'
                 /\ \A u \in Threads : u # t => (u \in early <=> u \in early')
    BY <1>2, <1>3, <1>7, LengthsOthers DEF Lengths
  <1>8. CASE Begin(t)
    <2> DEFINE nf == IF F.at = "load" THEN sessionFrames ELSE F.nf
               e == [F EXCEPT !.at = "running", !.nf = nf]
    <2>1. /\ stack' = WithTop(t, e)
          /\ early' = IF F.at # "load" THEN early
                      ELSE IF session THEN early \ {t} ELSE early \cup {t}
      BY <1>8 DEF Begin
    <2>2. /\ F.at # "load" => early' = early
          /\ F.at = "load" /\ session => early' = early \ {t}
          /\ F.at = "load" /\ ~ session => early' = early \cup {t}
      BY <2>1
    <2>3. nf \in Nat
      <3>1. sessionFrames \in Nat
        BY <1>1, SetupFacts DEF RestTyped
      <3> QED
        BY <1>4, <3>1 DEF FrameSet
    <2>4. t \notin early' => nf = frames /\ (Right(stack[t]) \/ F.at = "load")
      BY <1>5, <1>6, <2>2 DEF Lengths, LengthFits
    <2> HIDE DEF nf
    <2>5. e \in FrameSet /\ e.at = "running" /\ e.nf = nf
      BY <1>4, <2>3 DEF FrameSet
    <2> HIDE DEF e
    <2>6. Fit
      BY <1>1, <1>2, <1>5, <2>1, <2>4, <2>5, LengthsMoved DEF LengthFits
    <2> QED
      BY <1>5, <1>6, <2>2, <2>6
  <1>9. ASSUME ~ Begin(t) PROVE early' = early
    BY <1>9 DEF Execute, Finish, Notify, Leave, Push, PushFull, HelpOther, HelpNothing,
           RunInline
  <1>10. ASSUME NEW e \in FrameSet, e.at # "load", e.nf = F.nf, F.at # "load", early' = early,
                stack' = WithTop(t, e)
         PROVE  Fit
    <2>1. t \notin early => LengthFits(e)
      BY <1>6, <1>10 DEF LengthFits
    <2> QED
      BY <1>1, <1>2, <1>5, <1>10, <2>1, LengthsMoved
  <1>11. CASE Finish(t)
    <2> DEFINE L == Successors(graph, F.node)
               e == [F EXCEPT !.at = "fanout", !.left = L]
    <2>1. stack' = WithTop(t, e) /\ F.at = "running" /\ early' = early
      BY <1>11 DEF Finish, Runs
    <2>2. L \subseteq Nodes
      BY <1>1, LedgerSets DEF Successors
    <2> HIDE DEF L
    <2>3. e \in FrameSet /\ e.at = "fanout" /\ e.nf = F.nf
      BY <1>4, <2>2 DEF FrameSet
    <2> HIDE DEF e
    <2> QED
      BY <1>5, <1>10, <2>1, <2>3
  <1>12. CASE Notify(t)
    <2>1. F.at = "fanout" /\ early' = early
      BY <1>12 DEF Notify, Runs
    <2>2. PICK m \in F.left :
            stack' = WithTop(t, IF pending[m] = 1
                                THEN [[F EXCEPT !.left = @ \ {m}] EXCEPT !.at = "push", !.next = m]
                                ELSE [F EXCEPT !.left = @ \ {m}])
      BY <1>12 DEF Notify
    <2> DEFINE E1 == [[F EXCEPT !.left = @ \ {m}] EXCEPT !.at = "push", !.next = m]
               E2 == [F EXCEPT !.left = @ \ {m}]
               e == IF pending[m] = 1 THEN E1 ELSE E2
    <2>3. E1 \in FrameSet /\ E1.at = "push" /\ E1.nf = F.nf
      BY <1>4 DEF FrameSet
    <2>4. E2 \in FrameSet /\ E2.at = "fanout" /\ E2.nf = F.nf
      BY <1>4, <2>1 DEF FrameSet
    <2>5. stack' = WithTop(t, e)
      BY <2>2
    <2> HIDE DEF E1, E2
    <2>6. e \in FrameSet /\ e.at # "load" /\ e.nf = F.nf
      BY <2>3, <2>4
    <2> HIDE DEF e
    <2> QED
      BY <1>5, <1>10, <2>1, <2>5, <2>6
  <1>13. CASE Leave(t)
    <2>1. stack' = [stack EXCEPT ![t] = Front(@)] /\ early' = early
      BY <1>13 DEF Leave
    <2> QED
      BY <1>1, <1>2, <1>5, <2>1, LengthsReturned
  <1>14. F.at \in {"push", "help", "retry"} =>
           /\ Pushed(F) \in FrameSet /\ Pushed(F).at = "fanout" /\ Pushed(F).nf = F.nf
           /\ \A p \in {"push", "help", "retry"} :
                /\ [F EXCEPT !.at = p] \in FrameSet
                /\ [F EXCEPT !.at = p].at = p /\ [F EXCEPT !.at = p].nf = F.nf
    BY <1>4 DEF FrameSet, Pushed
  <1>15. CASE Push(t)
    <2>1. stack' = WithTop(t, Pushed(F)) /\ F.at \in {"push", "help", "retry"} /\ early' = early
      BY <1>15 DEF Push, Runs
    <2> QED
      BY <1>5, <1>10, <1>14, <2>1
  <1>16. CASE PushFull(t)
    <2>1. /\ stack' = WithTop(t, [F EXCEPT !.at = "help"])
          /\ F.at \in {"push", "help", "retry"} /\ early' = early
      BY <1>16 DEF PushFull, Runs
    <2> QED
      BY <1>5, <1>10, <1>14, <2>1
  <1>17. CASE HelpNothing(t)
    <2>1. /\ stack' = WithTop(t, [F EXCEPT !.at = "retry"])
          /\ F.at \in {"push", "help", "retry"} /\ early' = early
      BY <1>17 DEF HelpNothing, Runs
    <2> QED
      BY <1>5, <1>10, <1>14, <2>1
  <1>18. \A m \in Nodes : /\ Popped(m, F.nf, "popped") \in FrameSet
                          /\ Popped(m, F.nf, "popped").at = "popped"
                          /\ Popped(m, F.nf, "popped").nf = F.nf
    BY <1>4 DEF FrameSet, Popped
  <1>19. ASSUME NEW e \in FrameSet, e.at # "load", e.nf = F.nf, F.at # "load", early' = early,
                NEW m \in Nodes, stack' = WithCall(t, e, Popped(m, F.nf, "popped"))
         PROVE  Fit
    <2> DEFINE c == Popped(m, F.nf, "popped")
    <2>1. c \in FrameSet /\ c.at = "popped" /\ c.nf = F.nf
      BY <1>18
    <2> HIDE DEF c
    <2>2. t \notin early => LengthFits(e) /\ LengthFits(c)
      BY <1>6, <1>19, <2>1 DEF LengthFits
    <2>3. stack' = WithCall(t, e, c)
      BY <1>19 DEF c
    <2> QED
      BY <1>1, <1>2, <1>5, <1>19, <2>1, <2>2, <2>3, LengthsCalled
  <1>20. CASE HelpOther(t)
    <2>1. /\ stack' = WithCall(t, [F EXCEPT !.at = "push"], Popped(Head(ready), F.nf, "popped"))
          /\ F.at \in {"push", "help", "retry"} /\ ready # << >> /\ early' = early
      BY <1>20 DEF HelpOther, Runs
    <2>2. Head(ready) \in Nodes
      BY <1>1, <2>1, QueueTyped
    <2> QED
      BY <1>5, <1>14, <1>19, <2>1, <2>2
  <1>21. CASE RunInline(t)
    <2>1. /\ stack' = WithCall(t, Pushed(F), Popped(F.next, F.nf, "popped"))
          /\ F.at \in {"push", "help", "retry"} /\ early' = early
      BY <1>21 DEF RunInline, Runs
    <2>2. F.next \in Nodes
      BY <1>4, <2>1 DEF NamedFrames
    <2> QED
      BY <1>5, <1>14, <1>19, <2>1, <2>2
  <1> HIDE DEF Fit
  <1> QED
    BY <1>5, <1>8, <1>9, <1>11, <1>12, <1>13, <1>15, <1>16, <1>17, <1>20, <1>21 DEF Execute

LEMMA LengthsOpened ==
  ASSUME BInv, Lengths, NEW g \in setup.graphs, NEW f \in setup.frames, BeginBlock(g, f)
  PROVE  Lengths'
  <1>1. TInv /\ Quiet
    BY DEF BInv
  <1>2. PICK s \in FrameSet :
          /\ s.at = "fanout" /\ s.nf = f /\ stack'[Audio] = <<s>>
          /\ \A w \in Workers : stack'[w] = << >>
    BY <1>1, OpenedFrames
  <1>3. /\ frames' = f /\ UNCHANGED <<early, session, sessionFrames>> /\ apc = "idle"
        /\ Audio \in Threads
    BY DEF BeginBlock, Threads
  <1>4. ASSUME NEW t \in Threads, NEW i \in 1..Len(stack'[t])
        PROVE  stack'[t][i].at = "fanout" /\ stack'[t][i].nf = f
    <2> DEFINE q == <<s>>
               z == << >>
    <2>1. Len(q) = 1 /\ q[1] = s /\ Len(z) = 0
      BY EmptySeq
    <2>2. stack'[t] = q \/ stack'[t] = z
      BY <1>2 DEF Threads
    <2> HIDE DEF q, z
    <2> DEFINE n == Len(stack'[t])
    <2>3. i \in 1..n /\ (stack'[t] = q => n = 1) /\ (stack'[t] = z => n = 0)
      BY <2>1, Zenon
    <2> HIDE DEF n
    <2>4. stack'[t] = q /\ i = 1
      BY <2>2, <2>3
    <2>5. stack'[t][i] = s
      BY <2>1, <2>4
    <2> QED
      BY <1>2, <2>5
  <1>5. ~ session /\ Audio \notin early
    BY <1>3 DEF Lengths
  <1>6. ASSUME NEW t \in Threads PROVE LoadsAlone(t, stack[t])' /\ Right(stack[t])'
    BY <1>3, <1>4 DEF LoadsAlone, Right, LengthFits
  <1>7. Audio \notin early' /\ ~ session'
    BY <1>3, <1>5
  <1> QED
    BY <1>6, <1>7 DEF Lengths

LEMMA LengthsAudio ==
  ASSUME BInv, Lengths, AudioStep
  PROVE  Lengths'
  <1> DEFINE F == Top(Audio)
             Fit == LoadsAlone(Audio, stack'[Audio]) /\ Right(stack'[Audio])
  <1>1. Held /\ Quiet /\ RestTyped /\ TInv /\ stack \in Stacks /\ Audio \in Threads
    BY TypeParts, StackTyped DEF BInv, Held, Threads
  <1>2. UNCHANGED <<frames, early>>
    BY DEF AudioStep, Seed, Seeded, CycleFound, NothingToDo, Publish, AudioPop, EndParallel,
           EndSerial, StallRecovery
  <1>3. \A u \in Threads : u # Audio => stack'[u] = stack[u]
    <2>1. \E q : stack' = [stack EXCEPT ![Audio] = q] \/ stack' = stack
      BY DEF AudioStep, Seed, Seeded, CycleFound, NothingToDo, Publish, AudioPop, EndParallel,
             EndSerial, StallRecovery, WithTop
    <2> QED
      BY <1>1, <2>1 DEF Stacks
  <1>4. session' => apc' = "help" /\ sessionFrames' = frames
    BY DEF AudioStep, Seed, Seeded, CycleFound, NothingToDo, Publish, AudioPop, EndParallel,
           EndSerial, StallRecovery, Lengths
  <1>5. LoadsAlone(Audio, stack[Audio]) /\ Audio \notin early /\ Right(stack[Audio])
    BY <1>1 DEF Lengths
  <1>6. SUFFICES Fit
    <2>1. \A u \in Threads : u # Audio => stack'[u] = stack[u] /\ (u \in early <=> u \in early')
      BY <1>2, <1>3
    <2>2. Audio \notin early'
      BY <1>2, <1>5
    <2> QED
      BY <1>1, <1>2, <1>4, <1>6, <2>1, <2>2, LengthsOthers
  <1>7. CASE Seed
    <2>1. stack[Audio] # << >> /\ F.at = "fanout"
      BY <1>7 DEF Seed, Runs
    <2>2. F \in FrameSet
      BY <1>1, <2>1, TopFacts
    <2>3. LengthFits(F)
      <3>1. F = stack[Audio][Len(stack[Audio])] /\ Len(stack[Audio]) \in 1..Len(stack[Audio])
        BY <1>1, <2>1, TopIsLast
      <3> QED
        BY <1>5, <3>1 DEF Right
    <2>4. PICK m \in F.left :
            stack' = WithTop(Audio, [F EXCEPT !.left = @ \ {m}, !.at = "push", !.next = m])
      BY <1>7 DEF Seed
    <2> DEFINE e == [F EXCEPT !.left = @ \ {m}, !.at = "push", !.next = m]
    <2>5. e \in FrameSet /\ e.at = "push" /\ e.nf = F.nf
      BY <2>2 DEF FrameSet
    <2>6. stack' = WithTop(Audio, e)
      BY <2>4
    <2> HIDE DEF e
    <2>7. LengthFits(e)
      BY <2>1, <2>3, <2>5 DEF LengthFits
    <2> QED
      BY <1>1, <1>5, <2>1, <2>5, <2>6, <2>7, LengthsMoved
  <1>8. PICK c \in FrameSet : TRUE
    <2>1. [node |-> NoNode, nf |-> 0, left |-> {}, next |-> NoNode, at |-> "fanout"] \in FrameSet
      BY DEF FrameSet
    <2> QED
      BY <2>1
  <1>9. CASE Seeded
    <2>1. stack'[Audio] = << >>
      BY <1>1, <1>9 DEF Seeded, Stacks
    <2> QED
      BY <1>1, <1>8, <2>1, LengthsOfOne
  <1>10. CASE AudioPop
    <2> DEFINE d == Popped(Head(ready), frames, "popped")
    <2>1. ready # << >> /\ stack'[Audio] = <<d>>
      BY <1>1, <1>10 DEF AudioPop, Stacks
    <2>2. d \in FrameSet /\ d.at = "popped" /\ LengthFits(d)
      <3>1. Head(ready) \in Nodes /\ frames \in Nat
        BY <1>1, <2>1, QueueTyped, SetupFacts DEF RestTyped
      <3> QED
        BY <3>1 DEF FrameSet, LengthFits, Popped
    <2> HIDE DEF d
    <2> QED
      BY <1>1, <2>1, <2>2, LengthsOfOne
  <1>11. CASE CycleFound \/ NothingToDo \/ Publish \/ EndParallel \/ EndSerial \/ StallRecovery
    <2>1. stack' = stack
      BY <1>11 DEF CycleFound, NothingToDo, Publish, EndParallel, EndSerial, StallRecovery
    <2> QED
      BY <1>5, <2>1
  <1> QED
    BY <1>7, <1>9, <1>10, <1>11 DEF AudioStep

LEMMA LengthsWorker ==
  ASSUME BInv, Lengths, NEW w \in Workers, WorkerStep(w)
  PROVE  Lengths'
  <1>1. RestTyped /\ stack \in Stacks /\ w \in Threads /\ w # Audio
    BY TypeParts, StackTyped, SchedulerAssumption DEF BInv, Threads, Workers
  <1>2. UNCHANGED <<frames, early, session, apc, sessionFrames>>
    BY DEF WorkerStep, Wake, Enter, Unbench, Check, WorkerPop, WorkerUnchanged
  <1>3. CASE stack' = stack
    BY <1>2, <1>3 DEF Lengths, LoadsAlone, Right, LengthFits
  <1>4. CASE ready # << >> /\ stack' = [stack EXCEPT ![w] = <<Popped(Head(ready), 0, "load")>>]
    <2> DEFINE c == Popped(Head(ready), 0, "load")
    <2>1. c \in FrameSet /\ LengthFits(c)
      <3>1. Head(ready) \in Nodes
        BY <1>1, <1>4, QueueTyped
      <3> QED
        BY <3>1 DEF FrameSet, LengthFits, Popped
    <2>2. stack'[w] = <<c>> /\ \A u \in Threads : u # w => stack'[u] = stack[u]
      BY <1>1, <1>4 DEF Stacks
    <2> HIDE DEF c
    <2>3. LoadsAlone(w, stack'[w]) /\ Right(stack'[w])
      BY <1>1, <2>1, <2>2, LengthsOfOne
    <2> QED
      BY <1>1, <1>2, <2>2, <2>3, LengthsOthers DEF Lengths
  <1> QED
    BY <1>3, <1>4 DEF WorkerStep, Wake, Enter, Unbench, Check, WorkerPop

LEMMA LengthsNext ==
  ASSUME BInv, Lengths, [Next]_vars
  PROVE  Lengths'
  <1>1. CASE UNCHANGED vars
    BY <1>1 DEF vars, Lengths, LoadsAlone, Right, LengthFits
  <1>2. ASSUME NEW t \in Threads, ThreadStep(t) PROVE Lengths'
    BY <1>2, LengthsStep, LengthsAudio, LengthsWorker DEF ThreadStep
  <1> QED
    BY <1>1, <1>2, LengthsOpened DEF Next

\* With blocks of any lengths, a node is processed for the frame count of its
\* block on the audio thread, and on a worker that reads the count while the
\* block is published: a worker that came late out of the last block and takes a
\* node of this one between seeding and publication is the only exception.
THEOREM OneFrameCount ==
  ASSUME ~ LongPreemption, Steady
  PROVE  Spec => []FramesAgree
  <1>1. BInv /\ Lengths => FramesAgree
    <2> SUFFICES ASSUME BInv, Lengths, NEW t \in Threads, Runs(t, "running"),
                        t \notin early \ {Audio}
                 PROVE  Top(t).nf = frames
      BY DEF FramesAgree
    <2>1. stack[t] # << >> /\ Top(t).at = "running" /\ stack \in Stacks
      BY StackTyped DEF BInv, Runs
    <2>2. Top(t) = stack[t][Len(stack[t])] /\ Len(stack[t]) \in 1..Len(stack[t])
      BY <2>1, TopIsLast
    <2>3. Right(stack[t])
      BY DEF Lengths
    <2> QED
      BY <2>1, <2>2, <2>3 DEF Right, LengthFits
  <1>2. BInv /\ Lengths /\ [Next]_vars => Lengths'
    BY LengthsNext
  <1> QED
    BY <1>1, <1>2, LengthsInit, BlockInvariant, PTL DEF Spec
=============================================================================
