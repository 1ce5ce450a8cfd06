------------------------------ MODULE GraphEdit ------------------------------
(***************************************************************************)
(* How the audio engine edits its graph between two blocks                 *)
(* (src/audiograph/graph_edit.c).  A drain of the edit queue applies       *)
(* commands one after the other and then, if one of them succeeded,        *)
(* recomputes which nodes run.  A source port writes one edge buffer that  *)
(* all its readers share, with a count of readers; edges come from a pool  *)
(* with a free list.  The second connection to an input port puts a hidden *)
(* SUM node in front of it, further ones widen the SUM, and disconnecting  *)
(* shrinks it and takes it out again.  Beside the edges the code keeps,    *)
(* for the scheduler and for its check for cycles, the successors of every *)
(* node and the number of its predecessors.                                *)
(*                                                                         *)
(* The graph is one record g and every routine of the code an operator     *)
(* from g to g; a routine that may refuse yields [ok, g].  Ports count     *)
(* from 1, Silent and Nobody stand for the code's -1.  Memory never runs   *)
(* out except the pool of edges; the node array grows when it has to.      *)
(***************************************************************************)
EXTENDS Integers, FiniteSets, Sequences, SequencesExt, FiniteSetsExt

CONSTANTS
    Shape,      \* the caller's nodes -> how many ports they have: [ins, outs]
    Edges,      \* ids of the edge pool are 1..Edges
    Sums,       \* bound: ids for hidden SUM nodes
    Setups,     \* what a run starts from: [there, wired, pool], nodes, connections in order, edges
    MaxEdits    \* bound: commands that change something

Dac    == 0
Silent == 0
Nobody == -1
User   == DOMAIN Shape
Slot   == User \cup Sums
EdgeId == 1..Edges

ASSUME ShapeAssumption ==
    /\ IsFiniteSet(User) /\ Dac \in User /\ User \subseteq Nat
    /\ \A n \in User : Shape[n].ins \in Nat /\ Shape[n].outs \in Nat
ASSUME SumsAssumption  == IsFiniteSet(Sums) /\ Sums # {} /\ Sums \subseteq Nat /\ User \cap Sums = {}
ASSUME PoolAssumption  == Edges \in Nat /\ MaxEdits \in Nat
ASSUME SetupAssumption == \A setup \in Setups :
    /\ setup.there \subseteq User /\ setup.pool \in 0..Edges
    /\ setup.wired \in Seq(User \X Nat \X User \X Nat)

VARIABLES
    g,          \* the graph: [node, edge, free, next, born, watch, pool]
    orphan,     \* sched.is_orphaned
    changed,    \* needs_orphan_update of the drain under way
    plan,       \* [dirty, sources, jobs]: the scheduler's cache, and whether it is out of date
    ran,        \* the nodes that the last block ran
    edits,      \* commands so far
    asked,      \* history: <<command, node or ports, answer>>, what was last done, or NoCommand
    hurt        \* history: nodes with an input that a refused command has silenced

vars == <<g, orphan, changed, plan, ran, edits, asked, hurt>>

Command   == {"add", "remove", "connect", "disconnect", "watch", "unwatch", "none"}
NoCommand == <<"none", <<>>, TRUE>>

Blank   == [ins |-> <<>>, fan |-> <<>>, outs |-> <<>>, succ |-> {}, indeg |-> 0]
Times(n, x) == SubSeq([p \in 1..n |-> x], 1, n)
NewNode(ins, outs) == [Blank EXCEPT !.ins = Times(ins, Silent), !.fan = Times(ins, Nobody), !.outs = Times(outs, Silent)]
Unused  == [used |-> FALSE, ref |-> 0, src |-> Nobody, port |-> Nobody]

Live(G, n)     == G.node[n].ins # <<>> \/ G.node[n].outs # <<>>
Floor(i)       == IF i < 0 THEN 0 ELSE i
Done(G)        == [ok |-> TRUE, g |-> G]
Refused(G)     == [ok |-> FALSE, g |-> G]
SetIn(G, n, p, e)  == [G EXCEPT !.node[n].ins[p] = e]
SetOut(G, n, p, e) == [G EXCEPT !.node[n].outs[p] = e]

------------------------------------------------------------------------------
(* Edges.                                                                   *)

\* The edge that source port s.p writes, taken from the pool if it has none.
Claim(G, s, p) ==
    IF G.node[s].outs[p] # Silent THEN Done(G)
    ELSE IF G.free = <<>> THEN Refused(G)
    ELSE Done([SetOut(G, s, p, Head(G.free)) EXCEPT
                 !.free = Tail(@), !.edge[Head(G.free)] = [used |-> TRUE, ref |-> 0, src |-> s, port |-> p]])

Retire(G, e) == [G EXCEPT !.edge[e] = Unused, !.free = <<e>> \o @]

\* Input d.p reads edge e from now on.
Read(G, e, d, p) == [SetIn(G, d, p, e) EXCEPT !.edge[e].ref = @ + 1]

\* Mutant of Unread: the first reader to leave gives the edge back.
UnreadGivesBack(G, e, s, p) ==
    LET R == Retire(G, e)
    IN  IF p \in DOMAIN R.node[s].outs /\ R.node[s].outs[p] = e
        THEN SetOut(R, s, p, Silent) ELSE R

\* One reader of the edge e of s.p less; without readers the edge goes back to the pool.
Unread(G, e, s, p) ==
    LET left == Floor(G.edge[e].ref - 1)
    IN  IF left > 0 THEN [G EXCEPT !.edge[e].ref = left]
        ELSE LET R == Retire(G, e)
             IN  IF p \in DOMAIN R.node[s].outs /\ R.node[s].outs[p] = e THEN SetOut(R, s, p, Silent) ELSE R

------------------------------------------------------------------------------
(* The scheduler's links: a successor counts once, however many ports.      *)

StillConnected(G, s, d) == \E e \in ToSet(G.node[s].outs) \ {Silent} : e \in ToSet(G.node[d].ins)

Link(G, s, d) ==
    IF d \in G.node[s].succ THEN G
    ELSE [G EXCEPT !.node[s].succ = @ \cup {d}, !.node[d].indeg = @ + 1]

\* Mutant of Unlink: one less for every port that goes, with no floor.
UnlinkEachPort(G, s, d) == [G EXCEPT !.node[d].indeg = @ - 1, !.node[s].succ = @ \ {d}]

Unlink(G, s, d) ==
    IF StillConnected(G, s, d) THEN G
    ELSE [G EXCEPT !.node[d].indeg = Floor(@ - 1), !.node[s].succ = @ \ {d}]

\* The nodes that n feeds, directly or not, itself included, by the successor lists.
Downstream(G, n) ==
    LET grown[k \in 0..Cardinality(Slot)] ==
            IF k = 0 THEN {n} ELSE LET X == grown[k - 1] IN X \cup UNION {G.node[m].succ : m \in X}
    IN  grown[Cardinality(Slot)]

\* Mutant of WouldCreateCycle: it looks at the direct successors only.
WouldCreateShortCycle(G, s, d) == s \in {d} \cup G.node[d].succ

WouldCreateCycle(G, s, d) == s = d \/ s \in Downstream(G, d)

------------------------------------------------------------------------------
(* Connect.                                                                 *)

\* Input d.dp reads the edge e, which s writes.
Plug(G, e, s, d, dp) == Link(Read(G, e, d, dp), s, d)

\* A silent port, or the next input of a SUM, is fed by s.sp.
ConnectFirst(G, s, sp, d, dp) ==
    LET c == Claim(G, s, sp)
    IN  IF ~c.ok THEN c ELSE Done(Plug(c.g, c.g.node[s].outs[sp], s, d, dp))

\* The port has a producer: put a SUM between, in steps that may stop half way.
ConnectSecond(G, s, sp, d, dp) ==
    LET e     == G.node[d].ins[dp]
        old   == G.edge[e].src
        sum   == G.next
        G1    == [G EXCEPT !.node[sum] = NewNode(2, 1), !.next = @ + 1]
        G2    == Unlink([SetIn(G1, d, dp, Silent) EXCEPT !.edge[e].ref = Floor(@ - 1)], old, d)
        G3    == Plug(G2, e, old, sum, 1)
        out   == Claim(G3, sum, 1)
        fed   == ConnectFirst(out.g, s, sp, sum, 2)
        G4    == Plug(fed.g, fed.g.node[sum].outs[1], sum, d, dp)
    IN  IF ~out.ok THEN out
        ELSE IF ~fed.ok THEN fed
        ELSE Done([G4 EXCEPT !.node[d].fan[dp] = sum])

ConnectMore(G, s, sp, sum) ==
    ConnectFirst([G EXCEPT !.node[sum].ins = Append(@, Silent)], s, sp, sum, Len(G.node[sum].ins) + 1)

HasPorts(G, s, sp, d, dp) == sp \in DOMAIN G.node[s].outs /\ dp \in DOMAIN G.node[d].ins

Connect(G, s, sp, d, dp) ==
    IF ~HasPorts(G, s, sp, d, dp) \/ WouldCreateCycle(G, s, d) THEN Refused(G)
    ELSE IF G.node[d].ins[dp] = Silent THEN ConnectFirst(G, s, sp, d, dp)
    ELSE LET sum == G.node[d].fan[dp]
         IN  IF sum = Nobody THEN ConnectSecond(G, s, sp, d, dp)
             ELSE IF ~Live(G, sum) THEN Refused(G)
             ELSE ConnectMore(G, s, sp, sum)

------------------------------------------------------------------------------
(* Delete.                                                                  *)

\* Input d.dp no longer reads what s.sp writes.
Unplug(G, s, sp, d, dp) == Unread(Unlink(SetIn(G, d, dp, Silent), s, d), G.node[d].ins[dp], s, sp)

\* What input p of the node n that goes has read; if a SUM fed it, the SUM's
\* inputs are wiped as well, and its edges keep their counts.
ClearInput(G, n, p) ==
    LET e   == G.node[n].ins[p]
        sum == G.node[n].fan[p]
        src == G.edge[e].src
        Off(H) == Unplug(H, src, G.edge[e].port, n, p)
        G1  == Off([G EXCEPT !.node[n].fan[p] = Nobody])
    IN  IF e = Silent THEN G
        ELSE IF src = Nobody THEN G
        ELSE IF sum = Nobody THEN Off(G)
        ELSE [G1 EXCEPT !.node[sum].ins = [i \in DOMAIN @ |-> Silent]]

ReadersOf(G, e) == UNION {{<<d, p>> : p \in {q \in DOMAIN G.node[d].ins : G.node[d].ins[q] = e}} : d \in Slot}

\* Mutant of ClearOutput: the edge goes back whatever it counts, once per reader.
ClearOutputPerReader(G, n, p) ==
    LET e       == G.node[n].outs[p]
        readers == {r \in ReadersOf(G, e) : r[1] # n}
        Hush(r, H) == Retire(SetIn(H, r[1], r[2], Silent), e)
    IN  IF e = Silent THEN G ELSE SetOut(FoldSet(Hush, G, readers), n, p, Silent)

\* Output p of the node that goes: its readers fall silent.
ClearOutput(G, n, p) ==
    LET e       == G.node[n].outs[p]
        readers == {r \in ReadersOf(G, e) : r[1] # n}
        left    == Floor(G.edge[e].ref - Cardinality(readers))
        Hushed(d) == [G.node[d] EXCEPT !.ins = [i \in DOMAIN @ |->
                                                    IF <<d, i>> \in readers THEN Silent ELSE @[i]]]
        G1      == [G EXCEPT !.node = [d \in Slot |-> Hushed(d)], !.edge[e].ref = left]
        G2      == IF left = 0 THEN Retire(G1, e) ELSE G1
    IN  IF e = Silent THEN G ELSE SetOut(G2, n, p, Silent)

\* What the node that goes has read and has written, port by port.
InputsCleared(G, n) ==
    LET after[k \in 0..Len(G.node[n].ins)] == IF k = 0 THEN G ELSE ClearInput(after[k-1], n, k)
    IN  after[Len(G.node[n].ins)]

OutputsCleared(G, n) ==
    LET after[k \in 0..Len(G.node[n].outs)] == IF k = 0 THEN G ELSE ClearOutput(after[k-1], n, k)
    IN  after[Len(G.node[n].outs)]

DeleteNode(G, n) ==
    LET G1 == InputsCleared([G EXCEPT !.watch = @ \ {n}], n)
        G2 == OutputsCleared(G1, n)
        Lost == {d \in Slot : StillConnected(G1, n, d) /\ ~StillConnected(G2, n, d)}
        Gone == [Blank EXCEPT !.indeg = G2.node[n].indeg]
        Left(d) == [G2.node[d] EXCEPT !.indeg = Floor(@ - 1)]
    IN  IF ~Live(G, n) THEN G
        ELSE [G2 EXCEPT !.node = [d \in Slot |-> IF d = n THEN Gone ELSE IF d \in Lost THEN Left(d) ELSE @[d]]]

------------------------------------------------------------------------------
(* Disconnect.                                                              *)

DisconnectDirect(G, s, sp, d, dp) ==
    LET e == G.node[d].ins[dp]
    IN  IF e = Silent \/ e # G.node[s].outs[sp] THEN Refused(G)
        ELSE Done(Unplug(G, s, sp, d, dp))

\* The SUM before d.dp has nothing left that plays.
Dissolve(G, sum, d, dp) ==
    DeleteNode(Unlink([SetIn(G, d, dp, Silent) EXCEPT !.node[d].fan[dp] = Nobody], sum, d), sum)

\* Input d.dp, which read the SUM's output, reads the edge e of the source s.p itself.
Bypass(G, e, s, p, d, dp) ==
    LET Own   == [G EXCEPT !.edge[e].ref = @ + 1]
        Fresh == Read(Claim(G, s, p).g, e, d, dp)
    IN  [SetIn(IF G.node[s].outs[p] # Silent THEN Own ELSE Fresh, d, dp, e) EXCEPT !.node[d].fan[dp] = Nobody]

\* d has s before it in place of the SUM.
Rejoin(G, s, d) ==
    IF d \notin G.node[s].succ THEN [G EXCEPT !.node[s].succ = @ \cup {d}]
    ELSE [G EXCEPT !.node[d].indeg = Floor(@ - 1)]

\* The SUM goes, and what that did to the input and to its source is made good.
Restored(G, e, s, p, d, dp, sum) ==
    SetOut(SetIn(DeleteNode([G EXCEPT !.node[s].succ = @ \ {sum}], sum), d, dp, e), s, p, e)

\* The SUM before d.dp has one source left: it reads that source's edge itself.  An
\* edge of its own is taken from the pool first and given back if the source has one.
Collapse(G, sum, d, dp) ==
    LET r   == G.edge[G.node[sum].ins[1]]
        own == G.node[r.src].outs[r.port]
        e   == IF own # Silent THEN own ELSE Head(G.free)
        G1  == Rejoin(Bypass(G, e, r.src, r.port, d, dp), r.src, d)
    IN  IF G.free = <<>> THEN Refused(G) ELSE Done(Restored(G1, e, r.src, r.port, d, dp, sum))

\* The sources a SUM still has write the edges that it reads.
Repointed(G, sum) ==
    LET Fed(n, p) == {e \in ToSet(G.node[sum].ins) \ {Silent} :
                        G.edge[e].used /\ G.edge[e].src = n /\ G.edge[e].port = p}
        Outs(n) == [p \in DOMAIN G.node[n].outs |-> IF Fed(n, p) = {} \/ n = sum THEN G.node[n].outs[p]
                                                    ELSE CHOOSE e \in Fed(n, p) : TRUE]
    IN  [G EXCEPT !.node = [n \in Slot |-> [G.node[n] EXCEPT !.outs = Outs(n)]]]

DisconnectFromSum(G, s, sp, sum, d, dp) ==
    LET e    == G.node[s].outs[sp]
        ins  == G.node[sum].ins
        i    == SelectInSeq(ins, LAMBDA f : f = e)
        G1   == Unplug(G, s, sp, sum, i)
        G2   == [G1 EXCEPT !.node[sum].ins = RemoveAt(@, i)]
        left == G2.node[sum].ins
    IN  IF e = Silent THEN Refused(G)
        ELSE IF i = 0 THEN Refused(G)
        ELSE IF Len(left) >= 2 THEN Done(Repointed(G2, sum))
        ELSE IF Len(left) = 0 THEN Done(Dissolve(G2, sum, d, dp))
        ELSE IF left[1] = Silent \/ ~G2.edge[left[1]].used THEN Done(Dissolve(G2, sum, d, dp))
        ELSE Collapse(G2, sum, d, dp)

Disconnect(G, s, sp, d, dp) ==
    LET sum == G.node[d].fan[dp]
    IN  IF ~HasPorts(G, s, sp, d, dp) THEN Refused(G)
        ELSE IF sum = Nobody THEN DisconnectDirect(G, s, sp, d, dp)
        ELSE IF ~Live(G, sum) THEN Done(G)
        ELSE DisconnectFromSum(G, s, sp, sum, d, dp)

------------------------------------------------------------------------------
(* After the commands of a drain.                                           *)

Sources(G, d) == {G.edge[e].src : e \in ToSet(G.node[d].ins) \ {Silent}} \ {Nobody}

Upstream(G, X) ==
    LET grown[k \in 0..Cardinality(Slot)] ==
            IF k = 0 THEN X ELSE LET Y == grown[k - 1] IN Y \cup UNION {Sources(G, n) : n \in Y}
    IN  grown[Cardinality(Slot)]

DacHasInputs(G) == \E e \in ToSet(G.node[Dac].ins) : e # Silent

Orphans(G) ==
    [n \in Slot |-> n \notin Upstream(G, G.watch) \cup (IF DacHasInputs(G) THEN Upstream(G, {Dac}) ELSE {})]

\* Mutant of Rebuilt: predecessors are counted once per port.
RebuiltPerPort(G) ==
    LET Ports(d) == {p \in DOMAIN G.node[d].ins : G.node[d].ins[p] # Silent}
    IN  [G EXCEPT !.node = [n \in Slot |->
            [G.node[n] EXCEPT !.indeg = Cardinality(Ports(n)), !.succ = {d \in Slot : n \in Sources(G, d)}]]]

\* The scheduler's links, read off the edges again.
Rebuilt(G) ==
    LET Preds(d) == {s \in Sources(G, d) : s # d /\ Live(G, s)}
    IN  [G EXCEPT !.node = [n \in Slot |->
            [G.node[n] EXCEPT !.indeg = Cardinality(Preds(n)), !.succ = {d \in Slot : n \in Preds(d)}]]]

\* A graph whose DAC hears nothing is left before the links are rebuilt.
Updated(G) == IF DacHasInputs(G) THEN Rebuilt(G) ELSE G

------------------------------------------------------------------------------
(* The block.                                                               *)

Active(G, o) == {n \in Slot : Live(G, n) /\ ~o[n]}

\* What a block starts from: the active nodes that wait for nobody, and how many nodes it is
\* to run.  A node without a connection is none of them.
Planned(G, o) ==
    LET jobs == {n \in Active(G, o) : G.node[n].indeg > 0 \/ \E e \in ToSet(G.node[n].outs) : e # Silent}
    IN  [dirty |-> FALSE, jobs |-> Cardinality(jobs), sources |-> {n \in jobs : G.node[n].indeg = 0}]

\* The nodes that a block runs: a source, and whoever has heard from as many nodes as it waits for.
Reached(G, o, sources) ==
    LET Ready(X) == {n \in Active(G, o) : /\ G.node[n].indeg > 0
                                          /\ Cardinality({s \in X : n \in G.node[s].succ}) >= G.node[n].indeg}
        grown[k \in 0..Cardinality(Slot)] ==
            IF k = 0 THEN sources ELSE LET X == grown[k - 1] IN X \cup Ready(X)
    IN  {n \in Active(G, o) : n \in grown[Cardinality(Slot)]}

------------------------------------------------------------------------------
(* The drain.                                                               *)

Empty(pool) == [node |-> [n \in Slot |-> Blank], edge |-> [e \in EdgeId |-> Unused],
          free |-> [e \in 1..pool |-> e], next |-> Min(Sums), born |-> {}, watch |-> {}, pool |-> pool]

Start(setup) ==
    LET Built == [Empty(setup.pool) EXCEPT !.born = setup.there, !.node = [n \in Slot |-> IF n \in setup.there
                                            THEN NewNode(Shape[n].ins, Shape[n].outs) ELSE Blank]]
        wired == setup.wired
        Wire(G, w) == IF G.next \in Sums THEN Connect(G, w[1], w[2], w[3], w[4]).g ELSE G
        plugged[k \in 0..Len(wired)] == IF k = 0 THEN Built ELSE Wire(plugged[k-1], wired[k])
    IN  Updated(plugged[Len(wired)])

Init ==
    /\ \E setup \in Setups : g = Start(setup)
    /\ orphan = Orphans(g)
    /\ changed = FALSE
    /\ plan = Planned(g, orphan)
    /\ ran = Reached(g, orphan, plan.sources)
    /\ edits = 0
    /\ asked = NoCommand
    /\ hurt = {}

\* The nodes with an input that is silent in G and was not.
CutOff(G) == {d \in User : \E p \in DOMAIN g.node[d].ins : g.node[d].ins[p] # Silent /\ G.node[d].ins[p] = Silent}

\* One command has been applied; a refused one counts only if it changed something.  The
\* block that follows a drain runs before the next drain begins.
Applied(command, at, result) ==
    /\ edits < MaxEdits
    /\ ~plan.dirty
    /\ g' = result.g
    /\ changed' = (changed \/ result.ok)
    /\ IF result.ok \/ result.g # g THEN edits' = edits + 1 /\ asked' = <<command, at, result.ok>>
                                    ELSE UNCHANGED <<edits, asked>>
    /\ hurt' = IF result.ok THEN hurt ELSE hurt \cup CutOff(result.g)
    /\ UNCHANGED <<orphan, plan, ran>>

\* Ids are handed out once, and only the one who has the id names it in a command.
AddNode(n) ==
    /\ n \notin g.born
    /\ Applied("add", <<n>>, Done([g EXCEPT !.born = @ \cup {n}, !.node[n] = NewNode(Shape[n].ins, Shape[n].outs)]))

\* Deleting what is deleted is a success, too.  The DAC is never deleted.
RemoveNode(n) == n \in g.born \ {Dac} /\ Applied("remove", <<n>>, Done(DeleteNode(g, n)))

ConnectPorts(s, sp, d, dp) ==
    g.next \in Sums /\ Applied("connect", <<s, sp, d, dp>>, Connect(g, s, sp, d, dp))

DisconnectPorts(s, sp, d, dp) == Applied("disconnect", <<s, sp, d, dp>>, Disconnect(g, s, sp, d, dp))

AddWatch(n) == n \in g.born /\ Applied("watch", <<n>>, Done([g EXCEPT !.watch = @ \cup {n}]))

RemoveWatch(n) ==
    Applied("unwatch", <<n>>, IF n \in g.watch THEN Done([g EXCEPT !.watch = @ \ {n}]) ELSE Refused(g))

\* A drain in which no command succeeded ends without this: nothing is told that it changed.
EndDrain ==
    /\ changed
    /\ orphan' = Orphans(g)
    /\ g' = Updated(g)
    /\ changed' = FALSE
    /\ plan' = [plan EXCEPT !.dirty = TRUE]
    /\ UNCHANGED <<ran, edits, asked, hurt>>

\* Mutant of RunBlock: it starts from what it started from before.
RunBlockAsBefore ==
    /\ ~changed
    /\ plan' = [plan EXCEPT !.dirty = FALSE]
    /\ ran' = Reached(g, orphan, plan'.sources)
    /\ asked' = NoCommand
    /\ hurt' = IF plan.dirty THEN {} ELSE hurt
    /\ UNCHANGED <<g, orphan, changed, edits>>

\* A block after the drain, with the cache rebuilt if it is out of date.
RunBlock ==
    /\ ~changed
    /\ plan' = IF plan.dirty THEN Planned(g, orphan) ELSE plan
    /\ ran' = Reached(g, orphan, plan'.sources)
    /\ asked' = NoCommand
    /\ hurt' = IF plan.dirty THEN {} ELSE hurt
    /\ UNCHANGED <<g, orphan, changed, edits>>

Next ==
    \/ EndDrain \/ RunBlock
    \/ \E n \in User : AddNode(n) \/ RemoveNode(n) \/ AddWatch(n) \/ RemoveWatch(n)
    \/ \E s, d \in User : \E sp \in 1..Shape[s].outs, dp \in 1..Shape[d].ins :
            ConnectPorts(s, sp, d, dp) \/ DisconnectPorts(s, sp, d, dp)

Spec == Init /\ [][Next]_vars

------------------------------------------------------------------------------
(* Properties.                                                              *)

TypeOK ==
    /\ g.node \in [Slot -> [ins : Seq(EdgeId \cup {Silent}), fan : Seq(Sums \cup {Nobody}),
                            outs : Seq(EdgeId \cup {Silent}), succ : SUBSET Slot, indeg : Nat]]
    /\ g.edge \in [EdgeId -> [used : BOOLEAN, ref : Nat, src : Slot \cup {Nobody}, port : Nat \cup {Nobody}]]
    /\ g.free \in Seq(EdgeId)
    /\ g.watch \subseteq User
    /\ orphan \in [Slot -> BOOLEAN]
    /\ changed \in BOOLEAN
    /\ plan \in [dirty : BOOLEAN, jobs : Nat, sources : SUBSET Slot]
    /\ ran \subseteq Slot
    /\ asked \in Command \X Seq(Nat) \X BOOLEAN
    /\ hurt \subseteq User

\* An input never reads a buffer that was given back: every edge that an input reads is
\* in use, and the node and port it is noted under are there and write it.
InputsHaveProducers ==
    \A d \in Slot : \A e \in ToSet(g.node[d].ins) \ {Silent} :
        LET edge == g.edge[e]
        IN  /\ edge.used /\ Live(g, edge.src)
            /\ edge.port \in DOMAIN g.node[edge.src].outs
            /\ g.node[edge.src].outs[edge.port] = e

\* No edge is given back while an input reads it, and the free list holds the
\* unused edges once each, whatever was shared, summed, collapsed and deleted.
PoolIsSound ==
    /\ \A e \in EdgeId : g.edge[e].ref >= Cardinality(ReadersOf(g, e))
    /\ \A e \in ToSet(g.free) : ~g.edge[e].used
    /\ Len(g.free) = Cardinality(ToSet(g.free))
    /\ Len(g.free) + Cardinality({e \in EdgeId : g.edge[e].used}) = g.pool

\* The check for cycles sees every connection: a node is a successor of whatever feeds it,
\* in the middle of a drain, too.  And between drains no node that is not orphaned hears an
\* orphan, and it waits for each of its producers once.
LinksFollowEdges ==
    /\ \A d \in Slot : \A s \in Sources(g, d) : d \in g.node[s].succ
    /\ ~changed => \A d \in Slot : ~orphan[d] /\ Live(g, d) =>
            /\ g.node[d].indeg = Cardinality(Sources(g, d))
            /\ \A s \in Sources(g, d) : ~orphan[s]

\* No chain of edits closes a cycle, over SUM nodes or not: no node hears itself.  The block
\* that follows would wait for ever for the nodes of a cycle.
NoCycles == \A d \in Slot : d \notin Upstream(g, Sources(g, d))

ReadsOf(G, d, dp) == LET sum == G.node[d].fan[dp]
                     IN  IF sum = Nobody THEN <<G.node[d].ins[dp]>> ELSE G.node[sum].ins

Plugs == {w \in User \X (1..2) \X User \X (1..2) : w[2] <= Shape[w[1]].outs /\ w[4] <= Shape[w[3]].ins}

TimesMade(w) ==
    LET reads == ReadsOf(g, w[3], w[4])
    IN  Cardinality({i \in DOMAIN reads : reads[i] # Silent /\ g.edge[reads[i]].src = w[1]
                                                            /\ g.edge[reads[i]].port = w[2]})

Patch == INSTANCE PatchGraph WITH
    Nodes   <- User,
    Wires   <- Plugs,
    Sink    <- Dac,
    Nothing <- NoCommand,
    there   <- {n \in User : Live(g, n)},
    wires   <- [w \in Plugs |-> IF HasPorts(g, w[1], w[2], w[3], w[4]) THEN TimesMade(w) ELSE 0],
    watched <- g.watch,
    running <- ran \cap User,
    open    <- changed \/ plan.dirty,
    spare   <- Len(g.free)

\* While buffers are left, a connection is refused only if an end of it is missing or it
\* would close a cycle, and one is taken away exactly if it is there.
AnswersRightly ==
    ~plan.dirty => \A w \in Plugs :
        /\ Len(g.free) > 1 /\ g.next \in Sums => Connect(g, w[1], w[2], w[3], w[4]).ok = Patch!CanWire(w)
        /\ g.free # <<>> => Disconnect(g, w[1], w[2], w[3], w[4]).ok = Patch!Wired(w)

\* A block runs as many nodes as it counts down from, or it would wait for the stall recovery.
JobsAreRun == hurt = {} => Cardinality(ran) = plan.jobs

\* Each edit does to the caller's connections what was asked, SUM nodes or not, and answers
\* truly; the block after it runs exactly what is heard or watched, and as many nodes as it
\* counts.  A command that runs out of buffers costs one connection at most, and the blocks
\* until the next success run everything but those who hear the node that lost it.
KeepsThePatch == Patch!PatchSpec /\ [](AnswersRightly /\ JobsAreRun)

\* No edge of the pool is lost: one that is in use has a reader, once a drain is over.
EdgesRecycled == ~changed => \A e \in EdgeId : g.edge[e].used => ReadersOf(g, e) # {}
=============================================================================
