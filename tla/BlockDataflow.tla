---------------------------- MODULE BlockDataflow ----------------------------
(***************************************************************************)
(* What the engine promises about one block of audio: while a block is     *)
(* open, every job of its graph runs exactly once, and only after the jobs *)
(* it reads from; the block closes when all of them have run.  A graph     *)
(* with a cycle, which the edits should never build, may be given up.      *)
(*                                                                         *)
(* A graph is a function from its jobs (the nodes that take part in the    *)
(* block) to the jobs they read from.                                      *)
(***************************************************************************)
EXTENDS Naturals

CONSTANTS Nodes, Graphs

VARIABLES open,      \* a block is being processed
          graph,     \* the graph of the block
          runs,      \* how often each node was run in this block
          finished   \* the nodes whose outputs are written

vars == <<open, graph, runs, finished>>

Init == /\ open = FALSE
        /\ graph \in Graphs
        /\ runs = [n \in Nodes |-> 0]
        /\ finished = {}

Open(g) == /\ ~ open
           /\ open' = TRUE
           /\ graph' = g
           /\ runs' = [n \in Nodes |-> 0]
           /\ finished' = {}

Start(n) == /\ open
            /\ n \in DOMAIN graph
            /\ runs[n] = 0
            /\ graph[n] \subseteq finished
            /\ runs' = [runs EXCEPT ![n] = 1]
            /\ UNCHANGED <<open, graph, finished>>

Finish(n) == /\ open
             /\ runs[n] = 1
             /\ n \notin finished
             /\ finished' = finished \cup {n}
             /\ UNCHANGED <<open, graph, runs>>

\* Some jobs wait for each other.
Cyclic == \E S \in SUBSET DOMAIN graph : S # {} /\ \A n \in S : graph[n] \cap S # {}

Close == /\ open
         /\ finished = DOMAIN graph \/ Cyclic
         /\ open' = FALSE
         /\ UNCHANGED <<graph, runs, finished>>

Next == \/ \E g \in Graphs : Open(g)
        \/ \E n \in Nodes : Start(n) \/ Finish(n)
        \/ Close

Spec == Init /\ [][Next]_vars
=============================================================================
