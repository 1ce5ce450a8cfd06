------------------------------ MODULE PatchGraph ------------------------------
(***************************************************************************)
(* What the audio graph promises the code that edits it, which sees nodes, *)
(* ports and connections and nothing else: a connection that is asked for  *)
(* is made, once more if it is there already, unless it would close a      *)
(* cycle; one that is taken away is taken away once; a node takes its own  *)
(* connections with it and no other; and the block after a drain runs the  *)
(* nodes that are heard or watched and no others.  When buffers run out, a *)
(* refused command may still cost a connection.  GraphEdit implements this *)
(* with shared edge buffers, hidden summing nodes, counts of readers,      *)
(* lists of successors and a cached list of sources.                       *)
(***************************************************************************)
EXTENDS Integers, FiniteSets

CONSTANTS
    Nodes,
    Wires,      \* the connections <<source, port, destination, port>> that can be made
    Sink,       \* the node that is heard, the DAC
    Nothing     \* no command

VARIABLES
    there,      \* the nodes of the graph
    wires,      \* connection -> how often it is made
    watched,    \* nodes that run although nobody hears them
    running,    \* the nodes that the last block ran
    open,       \* a command has succeeded since that block
    spare,      \* buffers left
    asked,      \* the last command: <<what, node or connection, answer>>
    hurt        \* nodes that have lost a connection to a refused command, until one succeeds

patchVars == <<there, wires, watched, running, open, spare, asked, hurt>>

\* Every node that the nodes of X hear, themselves included.
UpstreamOf(X) ==
    LET made  == wires
        Feeds == {<<w[1], w[3]>> : w \in {v \in Wires : made[v] > 0}}
        grown[k \in 0..Cardinality(Nodes)] ==
            IF k = 0 THEN X
            ELSE LET Y == grown[k - 1] IN Y \cup {f[1] : f \in {h \in Feeds : h[2] \in Y}}
    IN  grown[Cardinality(Nodes)]

\* Every node that hears a node of X, the nodes of X included.
DownstreamOf(X) == {n \in Nodes : UpstreamOf({n}) \cap X # {}}

Wired(w)   == wires[w] > 0
CanWire(w) == {w[1], w[3]} \subseteq there /\ w[3] \notin UpstreamOf({w[1]})

\* A command that succeeds.
Told(what, x) == asked' = <<what, x, TRUE>> /\ open' = TRUE /\ UNCHANGED <<running, hurt>>

Add(n) == Told("add", <<n>>) /\ n \notin there /\ there' = there \cup {n} /\ UNCHANGED <<watched, wires>>

\* Deleting a node that is gone changes nothing and still succeeds.
Remove(n) ==
    /\ Told("remove", <<n>>)
    /\ there' = there \ {n}
    /\ LET now == wires
       IN  wires' = IF n \in there THEN [w \in Wires |-> IF n \in {w[1], w[3]} THEN 0 ELSE now[w]] ELSE now
    /\ watched' = IF n \in there THEN watched \ {n} ELSE watched

Wire(w) ==
    /\ Told("connect", w)
    /\ CanWire(w)
    /\ wires' = [wires EXCEPT ![w] = @ + 1]
    /\ UNCHANGED <<there, watched>>

Unwire(w) ==
    /\ Told("disconnect", w)
    /\ Wired(w)
    /\ wires' = [wires EXCEPT ![w] = @ - 1]
    /\ UNCHANGED <<there, watched>>

Watch(n)   == Told("watch", <<n>>) /\ watched' = watched \cup {n} /\ UNCHANGED <<there, wires>>
Unwatch(n) == Told("unwatch", <<n>>) /\ n \in watched /\ watched' = watched \ {n} /\ UNCHANGED <<there, wires>>

\* A connection is refused for want of buffers.  If its input had one connection, that one is lost.
CutShort(w) ==
    /\ asked' = <<"connect", w, FALSE>>
    /\ spare < 2 /\ CanWire(w)
    /\ LET now    == wires
           beside == {v \in Wires : <<v[3], v[4]>> = <<w[3], w[4]>> /\ now[v] > 0}
       IN  \/ \E v \in beside : /\ beside = {v} /\ now[v] = 1
                                /\ wires' = [now EXCEPT ![v] = 0]
                                /\ hurt' = hurt \cup {w[3]}
           \/ UNCHANGED <<wires, hurt>>
    /\ UNCHANGED <<there, watched, running, open>>

\* A connection is taken away, and the answer is that it was not.
CutLoose(w) ==
    /\ asked' = <<"disconnect", w, FALSE>>
    /\ spare = 0 /\ Wired(w)
    /\ wires' = [wires EXCEPT ![w] = @ - 1]
    /\ UNCHANGED <<there, watched, running, open, hurt>>

Heard     == UpstreamOf(watched \cup {Sink})
Connected == LET made == wires IN UNION {{w[1], w[3]} : w \in {v \in Wires : made[v] > 0}}

\* A block after commands that succeeded runs what is heard; a node without a connection may
\* be left out.
BlockAnew ==
    /\ open
    /\ Heard \cap Connected \subseteq running' /\ running' \subseteq Heard
    /\ hurt' = {}

\* A block after none leaves out no more than those that hear a node that is hurt, adds
\* nobody that is not heard, and runs nobody without the nodes it hears.
BlockAgain ==
    /\ ~open
    /\ (Heard \cap Connected) \ DownstreamOf(hurt) \subseteq running' /\ running' \subseteq running \cup Heard
    /\ LET now == wires  block == running'
       IN  \A w \in Wires : now[w] > 0 /\ w[3] \in block => w[1] \in block
    /\ UNCHANGED hurt

Block ==
    /\ open' = FALSE /\ asked' = Nothing
    /\ BlockAnew \/ BlockAgain
    /\ UNCHANGED <<there, watched, wires>>

PatchInit ==
    /\ Sink \in there
    /\ \A w \in Wires : {w[1], w[3]} \subseteq there \/ wires[w] = 0
    /\ \A w \in Wires : wires[w] > 0 => w[3] \notin UpstreamOf({w[1]})
    /\ Heard \cap Connected \subseteq running /\ running \subseteq Heard
    /\ ~open /\ asked = Nothing /\ hurt = {}

PatchNext ==
    \/ Block
    \/ \E n \in Nodes : Add(n) \/ Remove(n) \/ Watch(n) \/ Unwatch(n)
    \/ \E w \in Wires : Wire(w) \/ Unwire(w) \/ CutShort(w) \/ CutLoose(w)

PatchSpec == PatchInit /\ [][PatchNext]_patchVars
=============================================================================
