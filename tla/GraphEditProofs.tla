--------------------------- MODULE GraphEditProofs ---------------------------
(***************************************************************************)
(* Proofs about GraphEdit, for any nodes with any numbers of ports, any    *)
(* ids for SUM nodes, any pool of edges and any graph to start from that   *)
(* the commands themselves can build.                                      *)
(*                                                                         *)
(* The invariant is Sound(g), what graph_edit.c keeps true of the graph    *)
(* from command to command, and Settled, what update_orphaned_status makes *)
(* of it.  In the middle of a command less is true: while a node leaves,   *)
(* its links are cut before they agree with its edges, which Leaving       *)
(* allows for.  Each operator of the module has a lemma for what it does   *)
(* to the graph (..Is) and one for what it keeps (..Sound, ..Leaving,      *)
(* ..Wired).                                                               *)
(***************************************************************************)
EXTENDS GraphEdit, DataLemmas, FiniteSetTheorems, TLAPS

-----------------------------------------------------------------------------
(* The invariant.                                                           *)

Node  == [ins : Seq(EdgeId \cup {Silent}), fan : Seq(Sums \cup {Nobody}),
          outs : Seq(EdgeId \cup {Silent}), succ : SUBSET Slot, indeg : Nat]
Edge  == [used : BOOLEAN, ref : Nat, src : Slot \cup {Nobody}, port : Nat \cup {Nobody}]
Graph == [node : [Slot -> Node], edge : [EdgeId -> Edge], free : Seq(EdgeId), next : Nat,
          born : SUBSET User, watch : SUBSET User, pool : Nat]

\* Edge e is in use, and the port it is noted under writes it.
Written(G, e) ==
    /\ G.edge[e].used /\ G.edge[e].src \in Slot
    /\ G.edge[e].port \in DOMAIN G.node[G.edge[e].src].outs
    /\ G.node[G.edge[e].src].outs[G.edge[e].port] = e

\* Every edge that an input reads is written.
Fed(G) ==
    \A d \in Slot : \A p \in DOMAIN G.node[d].ins : \A e \in EdgeId : G.node[d].ins[p] = e => Written(G, e)

\* An edge that a port writes is in use and noted under that port.
Owned(G) ==
    \A n \in Slot : \A p \in DOMAIN G.node[n].outs : \A e \in EdgeId :
        G.node[n].outs[p] = e => G.edge[e].used /\ G.edge[e].src = n /\ G.edge[e].port = p

\* An edge counts each of its readers; a SUM that is wiped may leave the count too high.
Counted(G) == \A e \in EdgeId : G.edge[e].ref >= Cardinality(ReadersOf(G, e))

\* The pool and the edges in use are all the edges there are, each once.
UsedEdges(G) == {e \in EdgeId : G.edge[e].used}
Pooled(G) ==
    /\ \A i \in DOMAIN G.free : ~G.edge[G.free[i]].used
    /\ \A i, j \in DOMAIN G.free : G.free[i] = G.free[j] => i = j
    /\ Len(G.free) + Cardinality(UsedEdges(G)) = G.pool

Wired(G) == G \in Graph /\ Fed(G) /\ Owned(G) /\ Counted(G) /\ Pooled(G)

\* The ids given out so far; no other node has ports or links.
Given(G) == G.born \cup {n \in Sums : n < G.next}
Unborn(G) ==
    \A n \in Slot \ Given(G) :
        /\ G.node[n].ins = <<>> /\ G.node[n].outs = <<>> /\ G.node[n].succ = {} /\ G.node[n].indeg = 0
        /\ \A s \in Slot : n \notin G.node[s].succ

\* A caller's node has a SUM or none before every input; a SUM has no SUM before it.
Shapes(G) ==
    /\ \A n \in User : Len(G.node[n].fan) = Len(G.node[n].ins)
    /\ \A n \in Sums : /\ \A p \in DOMAIN G.node[n].fan : G.node[n].fan[p] = Nobody
                       /\ Len(G.node[n].outs) <= 1
                       /\ Live(G, n) => Len(G.node[n].fan) = 2 /\ Len(G.node[n].outs) = 1

\* A SUM in front of d.p feeds that input and has no input from d.
Hosted(G) ==
    \A d \in User : \A sum \in Sums : \A p \in DOMAIN G.node[d].fan : G.node[d].fan[p] = sum =>
        /\ sum < G.next /\ Live(G, sum)
        /\ G.node[d].ins[p] # Silent /\ G.node[d].ins[p] = G.node[sum].outs[1]
        /\ d \notin Sources(G, sum)

\* It is in front of one input only, and feeds no other.
OneHost(G) ==
    \A d1, d2 \in User : \A sum \in Sums : \A p1 \in DOMAIN G.node[d1].fan, p2 \in DOMAIN G.node[d2].fan :
        G.node[d1].fan[p1] = sum /\ G.node[d2].fan[p2] = sum => d1 = d2 /\ p1 = p2
ForHosts(G) ==
    \A d \in Slot : \A p \in DOMAIN G.node[d].ins : \A e \in EdgeId :
        G.node[d].ins[p] = e /\ G.edge[e].src \in Sums =>
            p \in DOMAIN G.node[d].fan /\ G.node[d].fan[p] = G.edge[e].src

\* The nodes whose links are kept: the caller's, and the SUMs in front of an input.
IsHosted(G, sum) == \E d \in User : \E p \in DOMAIN G.node[d].fan : G.node[d].fan[p] = sum
Kept(G) == User \cup {sum \in Sums : IsHosted(G, sum)}

\* Whatever nodes one picks, one of them hears none of the others.
Acyclic(G) == \A X \in SUBSET Slot : X # {} => \E n \in X : Sources(G, n) \cap X = {}

Preds(G, d) == {s \in Slot : d \in G.node[s].succ}

\* While n leaves the graph: every other node is a successor of what feeds it, and the
\* links of the nodes kept agree with the edges but for those from n.
Covered(G, n)  == \A d \in Slot \ {n} : \A s \in Sources(G, d) : d \in G.node[s].succ
Exact(G, n, d) == Preds(G, d) \ {n} = Sources(G, d) \ {n} /\ G.node[d].indeg = Cardinality(Sources(G, d))

Leaving(G, n) ==
    /\ Wired(G) /\ Unborn(G) /\ Shapes(G) /\ Hosted(G) /\ OneHost(G) /\ ForHosts(G) /\ Acyclic(G)
    /\ Covered(G, n) /\ \A d \in Kept(G) : Exact(G, n, d)

\* Between two commands nobody leaves.
Sound(G) == Leaving(G, Nobody)

\* Once a drain has ended, what runs is kept, hears only what runs, and was given an id.
Settled ==
    ~changed =>
        /\ \A d \in Slot : ~orphan[d] => d \in Kept(g) /\ \A s \in Sources(g, d) : ~orphan[s]
        /\ \A n \in Sums : n >= g.next => orphan[n]

\* What a command names, and what is noted beside the graph.
Named == Seq(Nat)

Noted ==
    /\ plan \in [dirty : BOOLEAN, jobs : Nat, sources : SUBSET Slot]
    /\ ran \subseteq Slot
    /\ asked \in Command \X Named \X BOOLEAN
    /\ hurt \subseteq User

-----------------------------------------------------------------------------
(* What a step changes and what it keeps, field by field.                   *)

KeepsIns(G, H)   == \A x \in Slot : H.node[x].ins = G.node[x].ins
KeepsFan(G, H)   == \A x \in Slot : H.node[x].fan = G.node[x].fan
KeepsOuts(G, H)  == \A x \in Slot : H.node[x].outs = G.node[x].outs
KeepsLinks(G, H) == \A x \in Slot : H.node[x].succ = G.node[x].succ /\ H.node[x].indeg = G.node[x].indeg
KeepsEdges(G, H) == H.edge = G.edge /\ H.free = G.free
KeepsRest(G, H)  == H.next = G.next /\ H.born = G.born /\ H.pool = G.pool
InsAre(G, H, d, p, e) ==
  \A x \in Slot : H.node[x].ins = IF x = d THEN [G.node[d].ins EXCEPT ![p] = e] ELSE G.node[x].ins
OutsAre(G, H, n, p, e) ==
  \A x \in Slot : H.node[x].outs = IF x = n THEN [G.node[n].outs EXCEPT ![p] = e] ELSE G.node[x].outs
EdgeIs(G, H, e, r) == \A f \in EdgeId : H.edge[f] = IF f = e THEN r ELSE G.edge[f]
RefIs(G, H, e, k) ==
  \A f \in EdgeId : /\ H.edge[f].used = G.edge[f].used /\ H.edge[f].src = G.edge[f].src
                    /\ H.edge[f].port = G.edge[f].port
                    /\ H.edge[f].ref = IF f = e THEN k ELSE G.edge[f].ref
Linked(G, H, s, d) ==
  \A x \in Slot : /\ H.node[x].succ = IF x = s THEN G.node[x].succ \cup {d} ELSE G.node[x].succ
                  /\ H.node[x].indeg = IF x = d /\ d \notin G.node[s].succ
                                       THEN G.node[x].indeg + 1 ELSE G.node[x].indeg
Unlinked(G, H, s, d) ==
  \A x \in Slot : /\ H.node[x].succ = IF x = s THEN G.node[x].succ \ {d} ELSE G.node[x].succ
                  /\ H.node[x].indeg = IF x = d THEN Floor(G.node[x].indeg - 1) ELSE G.node[x].indeg

LEMMA Constants0 ==
  /\ Silent \notin EdgeId /\ Silent = 0 /\ Nobody = -1 /\ Nobody \notin Slot
  /\ Slot \subseteq Nat /\ User \subseteq Slot /\ Sums \subseteq Slot /\ User \cap Sums = {}
  /\ IsFiniteSet(Slot) /\ Dac \in User /\ EdgeId \subseteq Nat /\ Edges \in Nat
  <1>1. IsFiniteSet(Slot)
    BY ShapeAssumption, SumsAssumption, FS_Union DEF Slot
  <1> QED
    BY <1>1, ShapeAssumption, SumsAssumption, PoolAssumption DEF Slot, EdgeId, Silent, Nobody, Dac

LEMMA NodeChanged ==
  ASSUME NEW G \in Graph, NEW n \in Slot, NEW r \in Node
  PROVE  LET H == [G EXCEPT !.node = [G.node EXCEPT ![n] = r]]
         IN  /\ H \in Graph
             /\ \A x \in Slot : H.node[x] = IF x = n THEN r ELSE G.node[x]
             /\ KeepsEdges(G, H) /\ KeepsRest(G, H) /\ H.watch = G.watch
  BY DEF Graph, KeepsEdges, KeepsRest

LEMMA EntryChanged ==
  ASSUME NEW S, NEW q \in Seq(S), NEW p \in DOMAIN q, NEW e \in S
  PROVE  /\ [q EXCEPT ![p] = e] \in Seq(S)
         /\ DOMAIN [q EXCEPT ![p] = e] = DOMAIN q /\ Len([q EXCEPT ![p] = e]) = Len(q)
         /\ \A i \in DOMAIN q : [q EXCEPT ![p] = e][i] = IF i = p THEN e ELSE q[i]
  OBVIOUS

LEMMA NodeWithIns ==
  ASSUME NEW N \in Node, NEW q \in Seq(EdgeId \cup {Silent})
  PROVE  LET r == [N EXCEPT !.ins = q]
         IN  r \in Node /\ r.ins = q /\ r.fan = N.fan /\ r.outs = N.outs /\ r.succ = N.succ /\ r.indeg = N.indeg
  BY DEF Node

LEMMA NodeWithFan ==
  ASSUME NEW N \in Node, NEW q \in Seq(Sums \cup {Nobody})
  PROVE  LET r == [N EXCEPT !.fan = q]
         IN  r \in Node /\ r.ins = N.ins /\ r.fan = q /\ r.outs = N.outs /\ r.succ = N.succ /\ r.indeg = N.indeg
  BY DEF Node

LEMMA NodeWithOuts ==
  ASSUME NEW N \in Node, NEW q \in Seq(EdgeId \cup {Silent})
  PROVE  LET r == [N EXCEPT !.outs = q]
         IN  r \in Node /\ r.ins = N.ins /\ r.fan = N.fan /\ r.outs = q /\ r.succ = N.succ /\ r.indeg = N.indeg
  BY DEF Node

LEMMA NodeWithSucc ==
  ASSUME NEW N \in Node, NEW q \in SUBSET Slot
  PROVE  LET r == [N EXCEPT !.succ = q]
         IN  r \in Node /\ r.ins = N.ins /\ r.fan = N.fan /\ r.outs = N.outs /\ r.succ = q /\ r.indeg = N.indeg
  BY DEF Node

LEMMA NodeWithIndeg ==
  ASSUME NEW N \in Node, NEW q \in Nat
  PROVE  LET r == [N EXCEPT !.indeg = q]
         IN  r \in Node /\ r.ins = N.ins /\ r.fan = N.fan /\ r.outs = N.outs /\ r.succ = N.succ /\ r.indeg = q
  BY DEF Node

LEMMA NodeOf ==
  ASSUME NEW G \in Graph, NEW n \in Slot
  PROVE  /\ G.node[n] \in Node /\ G.node[n].ins \in Seq(EdgeId \cup {Silent})
         /\ G.node[n].fan \in Seq(Sums \cup {Nobody}) /\ G.node[n].outs \in Seq(EdgeId \cup {Silent})
         /\ G.node[n].succ \in SUBSET Slot /\ G.node[n].indeg \in Nat
  BY DEF Graph, Node

LEMMA SetInIs ==
  ASSUME NEW G \in Graph, NEW n \in Slot, NEW p \in DOMAIN G.node[n].ins, NEW e \in EdgeId \cup {Silent}
  PROVE  LET H == SetIn(G, n, p, e)
         IN  /\ H \in Graph
             /\ InsAre(G, H, n, p, e)
             /\ KeepsFan(G, H) /\ KeepsOuts(G, H) /\ KeepsLinks(G, H) /\ KeepsEdges(G, H) /\ KeepsRest(G, H)
             /\ H.watch = G.watch
  <1> DEFINE q == [G.node[n].ins EXCEPT ![p] = e]
             r == [G.node[n] EXCEPT !.ins = q]
  <1>1. G.node[n] \in Node /\ G.node[n].ins \in Seq(EdgeId \cup {Silent})
    BY NodeOf
  <1>2. SetIn(G, n, p, e) = [G EXCEPT !.node = [G.node EXCEPT ![n] = r]]
    <2>1. SetIn(G, n, p, e)
            = [G EXCEPT !.node = [G.node EXCEPT ![n] = [G.node[n] EXCEPT !.ins = [G.node[n].ins EXCEPT ![p] = e]]]]
      BY DEF SetIn
    <2> QED
      BY <2>1, Zenon
  <1>3. q \in Seq(EdgeId \cup {Silent})
    BY <1>1, EntryChanged
  <1> HIDE DEF q
  <1>4. /\ r \in Node /\ r.ins = q /\ r.fan = G.node[n].fan /\ r.outs = G.node[n].outs
        /\ r.succ = G.node[n].succ /\ r.indeg = G.node[n].indeg
    BY <1>1, <1>3, NodeWithIns
  <1> HIDE DEF r
  <1> QED
    BY <1>2, <1>4, NodeChanged DEF InsAre, KeepsFan, KeepsOuts, KeepsLinks, q

LEMMA SetOutIs ==
  ASSUME NEW G \in Graph, NEW n \in Slot, NEW p \in DOMAIN G.node[n].outs, NEW e \in EdgeId \cup {Silent}
  PROVE  LET H == SetOut(G, n, p, e)
         IN  /\ H \in Graph
             /\ OutsAre(G, H, n, p, e)
             /\ KeepsFan(G, H) /\ KeepsIns(G, H) /\ KeepsLinks(G, H) /\ KeepsEdges(G, H) /\ KeepsRest(G, H)
             /\ H.watch = G.watch
  <1> DEFINE q == [G.node[n].outs EXCEPT ![p] = e]
             r == [G.node[n] EXCEPT !.outs = q]
  <1>1. G.node[n] \in Node /\ G.node[n].outs \in Seq(EdgeId \cup {Silent})
    BY NodeOf
  <1>2. SetOut(G, n, p, e) = [G EXCEPT !.node = [G.node EXCEPT ![n] = r]]
    <2>1. SetOut(G, n, p, e)
            = [G EXCEPT !.node = [G.node EXCEPT ![n] = [G.node[n] EXCEPT !.outs = [G.node[n].outs EXCEPT ![p] = e]]]]
      BY DEF SetOut
    <2> QED
      BY <2>1, Zenon
  <1>3. q \in Seq(EdgeId \cup {Silent})
    BY <1>1, EntryChanged
  <1> HIDE DEF q
  <1>4. /\ r \in Node /\ r.outs = q /\ r.fan = G.node[n].fan /\ r.ins = G.node[n].ins
        /\ r.succ = G.node[n].succ /\ r.indeg = G.node[n].indeg
    BY <1>1, <1>3, NodeWithOuts
  <1> HIDE DEF r
  <1> QED
    BY <1>2, <1>4, NodeChanged DEF OutsAre, KeepsFan, KeepsIns, KeepsLinks, q

LEMMA LinkIs ==
  ASSUME NEW G \in Graph, NEW s \in Slot, NEW d \in Slot
  PROVE  LET H == Link(G, s, d)
         IN  /\ H \in Graph /\ Linked(G, H, s, d)
             /\ KeepsIns(G, H) /\ KeepsFan(G, H) /\ KeepsOuts(G, H) /\ KeepsEdges(G, H) /\ KeepsRest(G, H)
             /\ H.watch = G.watch
  <1> DEFINE H == Link(G, s, d)
  <1>1. \A x \in Slot : G.node[x] \in Node /\ G.node[x].indeg \in Nat
    BY DEF Graph, Node
  <1>2. CASE d \in G.node[s].succ
    <2>1. H = G /\ G.node[s].succ \cup {d} = G.node[s].succ
      BY <1>2 DEF Link
    <2> HIDE DEF H
    <2>2. H \in Graph /\ Linked(G, H, s, d)
      BY <1>2, <2>1 DEF Linked
    <2>3. KeepsIns(G, H) /\ KeepsFan(G, H) /\ KeepsOuts(G, H) /\ KeepsEdges(G, H) /\ KeepsRest(G, H) /\ H.watch = G.watch
      BY <2>1 DEF KeepsFan, KeepsOuts, KeepsIns, KeepsEdges, KeepsRest
    <2> QED
      BY <2>2, <2>3 DEF H
  <1>3. CASE d \notin G.node[s].succ
    <2> DEFINE q == G.node[s].succ \cup {d}
               r == [G.node[s] EXCEPT !.succ = q]
               f == [G.node EXCEPT ![s] = r]
               i == f[d].indeg + 1
               t == [f[d] EXCEPT !.indeg = i]
               h == [f EXCEPT ![d] = t]
    <2>1. q \in SUBSET Slot
      BY NodeOf
    <2>2. H = [G EXCEPT !.node = h]
      BY <1>3 DEF Link
    <2>3. /\ r \in Node /\ r.ins = G.node[s].ins /\ r.fan = G.node[s].fan /\ r.outs = G.node[s].outs
          /\ r.succ = q /\ r.indeg = G.node[s].indeg
      <3> HIDE DEF q
      <3> QED
        BY <1>1, <2>1, NodeWithSucc
    <2> HIDE DEF r
    <2>4. f \in [Slot -> Node] /\ \A x \in Slot : f[x] = IF x = s THEN r ELSE G.node[x]
      BY <2>3 DEF Graph
    <2> HIDE DEF f
    <2>5. /\ t \in Node /\ t.ins = f[d].ins /\ t.fan = f[d].fan /\ t.outs = f[d].outs
          /\ t.succ = f[d].succ /\ t.indeg = i
      <3>1. f[d] \in Node /\ i \in Nat
        BY <2>4 DEF Node
      <3> HIDE DEF i
      <3> QED
        BY <3>1, NodeWithIndeg
    <2> HIDE DEF t
    <2>6. h \in [Slot -> Node] /\ \A x \in Slot : h[x] = IF x = d THEN t ELSE f[x]
      BY <2>4, <2>5
    <2> HIDE DEF h, H
    <2>7. H \in Graph /\ H.node = h /\ KeepsEdges(G, H) /\ KeepsRest(G, H) /\ H.watch = G.watch
      BY <2>2, <2>6 DEF Graph, KeepsEdges, KeepsRest
    <2>8. \A x \in Slot : H.node[x] = IF x = d THEN t ELSE f[x]
      BY <2>6, <2>7
    <2>9. KeepsIns(G, H) /\ KeepsFan(G, H) /\ KeepsOuts(G, H)
      BY <2>3, <2>4, <2>5, <2>8 DEF KeepsFan, KeepsOuts, KeepsIns
    <2>10. Linked(G, H, s, d)
      <3>1. \A x \in Slot : H.node[x].succ = IF x = s THEN q ELSE G.node[x].succ
        BY <2>3, <2>4, <2>5, <2>8
      <3>2. \A x \in Slot : H.node[x].indeg = IF x = d THEN G.node[x].indeg + 1 ELSE G.node[x].indeg
        BY <2>3, <2>4, <2>5, <2>8
      <3> QED
        BY <1>3, <3>1, <3>2 DEF Linked
    <2> QED
      BY <2>7, <2>9, <2>10 DEF H
  <1> QED
    BY <1>2, <1>3

LEMMA UnlinkIs ==
  ASSUME NEW G \in Graph, NEW s \in Slot, NEW d \in Slot
  PROVE  LET H == Unlink(G, s, d)
         IN  /\ H \in Graph
             /\ IF StillConnected(G, s, d) THEN KeepsLinks(G, H) ELSE Unlinked(G, H, s, d)
             /\ KeepsIns(G, H) /\ KeepsFan(G, H) /\ KeepsOuts(G, H) /\ KeepsEdges(G, H) /\ KeepsRest(G, H)
             /\ H.watch = G.watch
  <1> DEFINE H == Unlink(G, s, d)
  <1>1. \A x \in Slot : G.node[x] \in Node /\ G.node[x].indeg \in Nat
    BY DEF Graph, Node
  <1>2. CASE StillConnected(G, s, d)
    BY <1>1, <1>2 DEF Unlink, KeepsLinks, KeepsFan, KeepsOuts, KeepsIns, KeepsEdges, KeepsRest
  <1>3. CASE ~StillConnected(G, s, d)
    <2> DEFINE i == Floor(G.node[d].indeg - 1)
               r == [G.node[d] EXCEPT !.indeg = i]
               f == [G.node EXCEPT ![d] = r]
               q == f[s].succ \ {d}
               t == [f[s] EXCEPT !.succ = q]
               h == [f EXCEPT ![s] = t]
    <2>1. i \in Nat
      BY <1>1 DEF Floor
    <2>2. H = [G EXCEPT !.node = h]
      BY <1>3 DEF Unlink
    <2>3. /\ r \in Node /\ r.ins = G.node[d].ins /\ r.fan = G.node[d].fan /\ r.outs = G.node[d].outs
          /\ r.succ = G.node[d].succ /\ r.indeg = i
      <3> HIDE DEF i
      <3> QED
        BY <1>1, <2>1, NodeWithIndeg
    <2> HIDE DEF r
    <2>4. f \in [Slot -> Node] /\ \A x \in Slot : f[x] = IF x = d THEN r ELSE G.node[x]
      BY <2>3 DEF Graph
    <2> HIDE DEF f
    <2>5. /\ t \in Node /\ t.ins = f[s].ins /\ t.fan = f[s].fan /\ t.outs = f[s].outs
          /\ t.succ = q /\ t.indeg = f[s].indeg
      <3>1. f[s] \in Node /\ q \in SUBSET Slot
        BY <2>4 DEF Node
      <3> HIDE DEF q
      <3> QED
        BY <3>1, NodeWithSucc
    <2> HIDE DEF t
    <2>6. h \in [Slot -> Node] /\ \A x \in Slot : h[x] = IF x = s THEN t ELSE f[x]
      BY <2>4, <2>5
    <2> HIDE DEF h, H
    <2>7. H \in Graph /\ H.node = h /\ KeepsEdges(G, H) /\ KeepsRest(G, H) /\ H.watch = G.watch
      BY <2>2, <2>6 DEF Graph, KeepsEdges, KeepsRest
    <2>8. \A x \in Slot : H.node[x] = IF x = s THEN t ELSE f[x]
      BY <2>6, <2>7
    <2>9. KeepsIns(G, H) /\ KeepsFan(G, H) /\ KeepsOuts(G, H)
      BY <2>3, <2>4, <2>5, <2>8 DEF KeepsFan, KeepsOuts, KeepsIns
    <2>10. Unlinked(G, H, s, d)
      <3>1. \A x \in Slot : H.node[x].succ = IF x = s THEN G.node[s].succ \ {d} ELSE G.node[x].succ
        BY <2>3, <2>4, <2>5, <2>8
      <3>2. \A x \in Slot : H.node[x].indeg = IF x = d THEN i ELSE G.node[x].indeg
        BY <2>3, <2>4, <2>5, <2>8
      <3> QED
        BY <3>1, <3>2 DEF Unlinked
    <2> QED
      BY <1>3, <2>7, <2>9, <2>10 DEF H
  <1> QED
    BY <1>2, <1>3

LEMMA EdgeChanged ==
  ASSUME NEW G \in Graph, NEW e \in EdgeId, NEW r \in Edge
  PROVE  LET H == [G EXCEPT !.edge = [G.edge EXCEPT ![e] = r]]
         IN  /\ H \in Graph /\ H.node = G.node /\ H.free = G.free
             /\ EdgeIs(G, H, e, r) /\ KeepsRest(G, H) /\ H.watch = G.watch
  BY DEF Graph, KeepsRest, EdgeIs

LEMMA RefChanged ==
  ASSUME NEW G \in Graph, NEW e \in EdgeId, NEW k \in Nat
  PROVE  LET H == [G EXCEPT !.edge = [G.edge EXCEPT ![e] = [G.edge[e] EXCEPT !.ref = k]]]
         IN  /\ H \in Graph /\ H.node = G.node /\ H.free = G.free
             /\ RefIs(G, H, e, k) /\ KeepsRest(G, H) /\ H.watch = G.watch
  <1> DEFINE r == [G.edge[e] EXCEPT !.ref = k]
  <1>1. G.edge[e] \in Edge
    BY DEF Graph
  <1>2. r \in Edge /\ r.used = G.edge[e].used /\ r.ref = k /\ r.src = G.edge[e].src /\ r.port = G.edge[e].port
    BY <1>1 DEF Edge
  <1> HIDE DEF r
  <1>3. LET H == [G EXCEPT !.edge = [G.edge EXCEPT ![e] = r]]
        IN  /\ H \in Graph /\ H.node = G.node /\ H.free = G.free
            /\ RefIs(G, H, e, k) /\ KeepsRest(G, H) /\ H.watch = G.watch
    BY <1>2, EdgeChanged DEF EdgeIs, RefIs
  <1> QED
    BY <1>3 DEF r

-----------------------------------------------------------------------------
(* Ports: readers, and what goes on when inputs fall silent.                *)

LEMMA PortsOf ==
  ASSUME NEW G \in Graph, NEW n \in Slot
  PROVE  /\ Len(G.node[n].ins) \in Nat /\ DOMAIN G.node[n].ins = 1..Len(G.node[n].ins)
         /\ Len(G.node[n].fan) \in Nat /\ DOMAIN G.node[n].fan = 1..Len(G.node[n].fan)
         /\ Len(G.node[n].outs) \in Nat /\ DOMAIN G.node[n].outs = 1..Len(G.node[n].outs)
         /\ \A p \in DOMAIN G.node[n].ins : G.node[n].ins[p] \in EdgeId \cup {Silent}
         /\ \A p \in DOMAIN G.node[n].fan : G.node[n].fan[p] \in Sums \cup {Nobody}
         /\ \A p \in DOMAIN G.node[n].outs : G.node[n].outs[p] \in EdgeId \cup {Silent}
  <1>1. /\ G.node[n].ins \in Seq(EdgeId \cup {Silent}) /\ G.node[n].fan \in Seq(Sums \cup {Nobody})
        /\ G.node[n].outs \in Seq(EdgeId \cup {Silent})
    BY NodeOf
  <1>2. \A S : \A q \in Seq(S) : Len(q) \in Nat /\ DOMAIN q = 1..Len(q) /\ \A p \in DOMAIN q : q[p] \in S
    OBVIOUS
  <1> QED
    BY <1>1, <1>2

LEMMA InsAreAt ==
  ASSUME NEW G \in Graph, NEW H, NEW d \in Slot, NEW p \in DOMAIN G.node[d].ins, NEW e \in EdgeId \cup {Silent},
         InsAre(G, H, d, p, e)
  PROVE  \A x \in Slot :
            /\ DOMAIN H.node[x].ins = DOMAIN G.node[x].ins /\ Len(H.node[x].ins) = Len(G.node[x].ins)
            /\ \A q \in DOMAIN G.node[x].ins :
                  H.node[x].ins[q] = IF x = d /\ q = p THEN e ELSE G.node[x].ins[q]
  <1> DEFINE s == G.node[d].ins
             t == [s EXCEPT ![p] = e]
  <1>1. DOMAIN t = DOMAIN s /\ Len(t) = Len(s) /\ \A i \in DOMAIN s : t[i] = IF i = p THEN e ELSE s[i]
    BY NodeOf, EntryChanged
  <1>2. \A x \in Slot : H.node[x].ins = IF x = d THEN t ELSE G.node[x].ins
    BY DEF InsAre
  <1> HIDE DEF t
  <1> QED
    BY <1>1, <1>2

LEMMA OutsAreAt ==
  ASSUME NEW G \in Graph, NEW H, NEW d \in Slot, NEW p \in DOMAIN G.node[d].outs, NEW e \in EdgeId \cup {Silent},
         OutsAre(G, H, d, p, e)
  PROVE  \A x \in Slot :
            /\ DOMAIN H.node[x].outs = DOMAIN G.node[x].outs /\ Len(H.node[x].outs) = Len(G.node[x].outs)
            /\ \A q \in DOMAIN G.node[x].outs :
                  H.node[x].outs[q] = IF x = d /\ q = p THEN e ELSE G.node[x].outs[q]
  <1> DEFINE s == G.node[d].outs
             t == [s EXCEPT ![p] = e]
  <1>1. DOMAIN t = DOMAIN s /\ Len(t) = Len(s) /\ \A i \in DOMAIN s : t[i] = IF i = p THEN e ELSE s[i]
    BY NodeOf, EntryChanged
  <1>2. \A x \in Slot : H.node[x].outs = IF x = d THEN t ELSE G.node[x].outs
    BY DEF OutsAre
  <1> HIDE DEF t
  <1> QED
    BY <1>1, <1>2

LEMMA NoneCounted == Cardinality({}) = 0
  BY FS_EmptySet

LEMMA OneMore ==
  ASSUME NEW S, IsFiniteSet(S), NEW x
  PROVE  /\ IsFiniteSet(S \cup {x}) /\ Cardinality(S) \in Nat /\ Cardinality(S \cup {x}) \in Nat
         /\ Cardinality(S \cup {x}) <= Cardinality(S) + 1
  <1>1. /\ Cardinality(S) \in Nat /\ IsFiniteSet(S \cup {x})
        /\ Cardinality(S \cup {x}) = IF x \in S THEN Cardinality(S) ELSE Cardinality(S) + 1
    BY FS_CardinalityType, FS_AddElement
  <1> QED
    BY <1>1

LEMMA EdgeOf ==
  ASSUME NEW G \in Graph, NEW e \in EdgeId
  PROVE  /\ G.edge[e] \in Edge /\ G.edge[e].used \in BOOLEAN /\ G.edge[e].ref \in Nat
         /\ G.edge[e].src \in Slot \cup {Nobody} /\ G.edge[e].port \in Nat \cup {Nobody}
  BY DEF Graph, Edge

LEMMA ReadersAre ==
  ASSUME NEW G, NEW e
  PROVE  \A r : r \in ReadersOf(G, e) <=> /\ r = <<r[1], r[2]>> /\ r[1] \in Slot
                                          /\ r[2] \in DOMAIN G.node[r[1]].ins /\ G.node[r[1]].ins[r[2]] = e
  BY DEF ReadersOf

LEMMA ReadersFinite ==
  ASSUME NEW G \in Graph, NEW e
  PROVE  IsFiniteSet(ReadersOf(G, e)) /\ Cardinality(ReadersOf(G, e)) \in Nat
  <1> DEFINE f == [d \in Slot |-> {d} \X DOMAIN G.node[d].ins]
             S == {f[d] : d \in Slot}
  <1>1. IsFiniteSet(S)
    <2>1. f \in Surjection(Slot, S)
      BY DEF Surjection
    <2> QED
      BY <2>1, Constants0, FS_Surjection
  <1>2. \A T \in S : IsFiniteSet(T)
    <2> SUFFICES ASSUME NEW d \in Slot PROVE IsFiniteSet({d} \X DOMAIN G.node[d].ins)
      OBVIOUS
    <2>1. IsFiniteSet(DOMAIN G.node[d].ins)
      BY PortsOf, FS_Interval
    <2> QED
      BY <2>1, FS_Singleton, FS_Product
  <1>3. ReadersOf(G, e) \subseteq UNION S
    BY ReadersAre
  <1> HIDE DEF S
  <1>4. IsFiniteSet(UNION S)
    BY <1>1, <1>2, FS_UNION
  <1> QED
    BY <1>3, <1>4, FS_Subset, FS_CardinalityType

\* No input hears more than it did.
Quieter(G, H) ==
    \A x \in Slot : \A p \in DOMAIN H.node[x].ins :
        H.node[x].ins[p] = Silent \/ (p \in DOMAIN G.node[x].ins /\ H.node[x].ins[p] = G.node[x].ins[p])

\* The same ports write the same edges.
KeepsWriters(G, H) ==
    \A n \in Slot : \A e \in EdgeId : \A q :
        (q \in DOMAIN G.node[n].outs /\ G.node[n].outs[q] = e) <=> (q \in DOMAIN H.node[n].outs /\ H.node[n].outs[q] = e)

LEMMA OutsAreWriters ==
  ASSUME NEW G, NEW H, KeepsOuts(G, H)
  PROVE  KeepsWriters(G, H)
  BY DEF KeepsOuts, KeepsWriters

LEMMA InsAreQuieter ==
  ASSUME NEW G, NEW H, KeepsIns(G, H)
  PROVE  Quieter(G, H)
  BY DEF KeepsIns, Quieter

LEMMA QuieterReaders ==
  ASSUME NEW G, NEW H, Quieter(G, H), NEW e \in EdgeId
  PROVE  ReadersOf(H, e) \subseteq ReadersOf(G, e)
  <1>1. e # Silent
    BY Constants0
  <1> SUFFICES ASSUME NEW r \in ReadersOf(H, e) PROVE r \in ReadersOf(G, e)
    OBVIOUS
  <1>2. r = <<r[1], r[2]>> /\ r[1] \in Slot /\ r[2] \in DOMAIN H.node[r[1]].ins /\ H.node[r[1]].ins[r[2]] = e
    BY ReadersAre
  <1>3. r[2] \in DOMAIN G.node[r[1]].ins /\ G.node[r[1]].ins[r[2]] = e
    BY <1>1, <1>2 DEF Quieter
  <1> QED
    BY <1>2, <1>3, ReadersAre

LEMMA FewerReaders ==
  ASSUME NEW G \in Graph, NEW H \in Graph, NEW e, ReadersOf(H, e) \subseteq ReadersOf(G, e)
  PROVE  Cardinality(ReadersOf(H, e)) <= Cardinality(ReadersOf(G, e))
  BY ReadersFinite, FS_Subset

LEMMA KeptReaders ==
  ASSUME NEW G, NEW H, KeepsIns(G, H), NEW e
  PROVE  ReadersOf(H, e) = ReadersOf(G, e)
  BY DEF KeepsIns, ReadersOf

\* A step that only silences inputs and moves links keeps what is wired.
LEMMA WiredQuieter ==
  ASSUME NEW G, NEW H, Wired(G), H \in Graph, Quieter(G, H), KeepsWriters(G, H), KeepsEdges(G, H), H.pool = G.pool
  PROVE  Wired(H)
  <1>1. G \in Graph /\ Fed(G) /\ Owned(G) /\ Counted(G) /\ Pooled(G)
    BY DEF Wired
  <1>2. Fed(H)
    <2> SUFFICES ASSUME NEW d \in Slot, NEW p \in DOMAIN H.node[d].ins, NEW e \in EdgeId, H.node[d].ins[p] = e
                 PROVE  Written(H, e)
      BY DEF Fed
    <2>1. p \in DOMAIN G.node[d].ins /\ G.node[d].ins[p] = e
      BY Constants0 DEF Quieter
    <2>2. Written(G, e)
      BY <1>1, <2>1 DEF Fed
    <2> QED
      BY <2>2 DEF KeepsWriters, KeepsEdges, Written
  <1>3. Owned(H)
    BY <1>1 DEF Owned, KeepsWriters, KeepsEdges
  <1>4. Counted(H)
    <2> SUFFICES ASSUME NEW e \in EdgeId PROVE H.edge[e].ref >= Cardinality(ReadersOf(H, e))
      BY DEF Counted
    <2>1. Cardinality(ReadersOf(H, e)) <= Cardinality(ReadersOf(G, e))
      BY <1>1, QuieterReaders, FewerReaders
    <2>2. G.edge[e].ref >= Cardinality(ReadersOf(G, e)) /\ H.edge[e].ref = G.edge[e].ref
      BY <1>1 DEF Counted, KeepsEdges
    <2>3. G.edge[e].ref \in Nat /\ Cardinality(ReadersOf(G, e)) \in Nat /\ Cardinality(ReadersOf(H, e)) \in Nat
      BY <1>1, EdgeOf, ReadersFinite
    <2> QED
      BY <2>1, <2>2, <2>3
  <1>5. Pooled(H)
    BY <1>1 DEF Pooled, UsedEdges, KeepsEdges
  <1> QED
    BY <1>2, <1>3, <1>4, <1>5 DEF Wired

LEMMA SilencingIsQuieter ==
  ASSUME NEW G \in Graph, NEW H, NEW d \in Slot, NEW p \in DOMAIN G.node[d].ins, InsAre(G, H, d, p, Silent)
  PROVE  Quieter(G, H)
  <1>1. Silent \in EdgeId \cup {Silent}
    OBVIOUS
  <1>2. \A x \in Slot :
            /\ DOMAIN H.node[x].ins = DOMAIN G.node[x].ins /\ Len(H.node[x].ins) = Len(G.node[x].ins)
            /\ \A q \in DOMAIN G.node[x].ins :
                  H.node[x].ins[q] = IF x = d /\ q = p THEN Silent ELSE G.node[x].ins[q]
    BY <1>1, InsAreAt
  <1> QED
    BY <1>2 DEF Quieter

\* An edge stays written while its source, its port and that port keep what they say.
LEMMA StaysWritten ==
  ASSUME NEW G, NEW H, KeepsOuts(G, H), NEW f, Written(G, f),
         H.edge[f].used = G.edge[f].used, H.edge[f].src = G.edge[f].src, H.edge[f].port = G.edge[f].port
  PROVE  Written(H, f)
  <1> DEFINE n == G.edge[f].src
             p == G.edge[f].port
  <1>1. G.edge[f].used /\ n \in Slot /\ p \in DOMAIN G.node[n].outs /\ G.node[n].outs[p] = f
    BY DEF Written
  <1>2. H.edge[f].used /\ H.edge[f].src = n /\ H.edge[f].port = p
    BY <1>1
  <1> HIDE DEF n, p
  <1>3. H.node[n].outs = G.node[n].outs
    BY <1>1 DEF KeepsOuts
  <1>4. n \in Slot /\ p \in DOMAIN H.node[n].outs /\ H.node[n].outs[p] = f
    BY <1>1, <1>3
  <1> QED
    BY <1>2, <1>4, Zenon DEF Written

\* The count of an edge may be anything that covers its readers.
LEMMA WiredRecount ==
  ASSUME NEW G, NEW H, Wired(G), H \in Graph, KeepsIns(G, H), KeepsOuts(G, H), NEW e \in EdgeId, NEW k \in Nat,
         k >= Cardinality(ReadersOf(G, e)), RefIs(G, H, e, k), H.free = G.free, H.pool = G.pool
  PROVE  Wired(H)
  <1>1. G \in Graph /\ Fed(G) /\ Owned(G) /\ Counted(G) /\ Pooled(G)
    BY DEF Wired
  <1>2. Fed(H)
    <2> SUFFICES ASSUME NEW d \in Slot, NEW p \in DOMAIN G.node[d].ins, NEW f \in EdgeId, G.node[d].ins[p] = f
                 PROVE  Written(H, f)
      BY DEF Fed, KeepsIns
    <2>1. Written(G, f)
      BY <1>1 DEF Fed
    <2>2. H.edge[f].used = G.edge[f].used /\ H.edge[f].src = G.edge[f].src /\ H.edge[f].port = G.edge[f].port
      BY DEF RefIs
    <2> QED
      BY <2>1, <2>2, StaysWritten
  <1>3. Owned(H)
    <2> SUFFICES ASSUME NEW n \in Slot, NEW p \in DOMAIN G.node[n].outs, NEW f \in EdgeId, G.node[n].outs[p] = f
                 PROVE  H.edge[f].used /\ H.edge[f].src = n /\ H.edge[f].port = p
      BY DEF Owned, KeepsOuts
    <2>1. G.edge[f].used /\ G.edge[f].src = n /\ G.edge[f].port = p
      BY <1>1 DEF Owned
    <2> QED
      BY <2>1 DEF RefIs
  <1>4. Counted(H)
    BY <1>1, KeptReaders DEF Counted, RefIs
  <1>5. Pooled(H)
    <2>1. UsedEdges(H) = UsedEdges(G)
      BY DEF UsedEdges, RefIs
    <2>2. \A i \in DOMAIN G.free : G.free[i] \in EdgeId
      BY <1>1 DEF Graph
    <2> QED
      BY <1>1, <2>1, <2>2 DEF Pooled, RefIs
  <1> QED
    BY <1>2, <1>3, <1>4, <1>5 DEF Wired

\* One input more reads a written edge, and the edge counts it.
LEMMA WiredRead ==
  ASSUME NEW G, NEW H, Wired(G), H \in Graph, NEW d \in Slot, NEW p \in DOMAIN G.node[d].ins, NEW e \in EdgeId,
         Written(G, e), InsAre(G, H, d, p, e), KeepsOuts(G, H), RefIs(G, H, e, G.edge[e].ref + 1),
         H.free = G.free, H.pool = G.pool
  PROVE  Wired(H)
  <1>1. G \in Graph /\ Fed(G) /\ Owned(G) /\ Counted(G) /\ Pooled(G)
    BY DEF Wired
  <1>2. \A x \in Slot : \A q \in DOMAIN H.node[x].ins :
            /\ q \in DOMAIN G.node[x].ins
            /\ H.node[x].ins[q] = IF x = d /\ q = p THEN e ELSE G.node[x].ins[q]
    <2>1. e \in EdgeId \cup {Silent}
      OBVIOUS
    <2>2. \A x \in Slot :
            /\ DOMAIN H.node[x].ins = DOMAIN G.node[x].ins /\ Len(H.node[x].ins) = Len(G.node[x].ins)
            /\ \A q \in DOMAIN G.node[x].ins :
                  H.node[x].ins[q] = IF x = d /\ q = p THEN e ELSE G.node[x].ins[q]
      BY <1>1, <2>1, InsAreAt
    <2> QED
      BY <2>2
  <1>3. \A f \in EdgeId : Written(G, f) => Written(H, f)
    <2> SUFFICES ASSUME NEW f \in EdgeId, Written(G, f) PROVE Written(H, f)
      OBVIOUS
    <2>1. H.edge[f].used = G.edge[f].used /\ H.edge[f].src = G.edge[f].src /\ H.edge[f].port = G.edge[f].port
      BY DEF RefIs
    <2> QED
      BY <2>1, StaysWritten
  <1>4. Fed(H)
    BY <1>1, <1>2, <1>3 DEF Fed
  <1>5. Owned(H)
    <2> SUFFICES ASSUME NEW n \in Slot, NEW q \in DOMAIN G.node[n].outs, NEW f \in EdgeId, G.node[n].outs[q] = f
                 PROVE  H.edge[f].used /\ H.edge[f].src = n /\ H.edge[f].port = q
      BY DEF Owned, KeepsOuts
    <2>1. G.edge[f].used /\ G.edge[f].src = n /\ G.edge[f].port = q
      BY <1>1 DEF Owned
    <2> QED
      BY <2>1 DEF RefIs
  <1>6. Counted(H)
    <2> SUFFICES ASSUME NEW f \in EdgeId PROVE H.edge[f].ref >= Cardinality(ReadersOf(H, f))
      BY DEF Counted
    <2>1. /\ G.edge[f].ref \in Nat /\ G.edge[f].ref >= Cardinality(ReadersOf(G, f))
          /\ IsFiniteSet(ReadersOf(G, f)) /\ Cardinality(ReadersOf(G, f)) \in Nat
          /\ Cardinality(ReadersOf(H, f)) \in Nat
      BY <1>1, EdgeOf, ReadersFinite DEF Counted
    <2>2. \A r \in ReadersOf(H, f) : r \in ReadersOf(G, f) \/ (f = e /\ r = <<d, p>>)
      <3> SUFFICES ASSUME NEW r \in ReadersOf(H, f) PROVE r \in ReadersOf(G, f) \/ (f = e /\ r = <<d, p>>)
        OBVIOUS
      <3>1. r = <<r[1], r[2]>> /\ r[1] \in Slot /\ r[2] \in DOMAIN H.node[r[1]].ins /\ H.node[r[1]].ins[r[2]] = f
        BY ReadersAre
      <3>2. CASE r[1] = d /\ r[2] = p
        BY <1>2, <3>1, <3>2
      <3>3. CASE ~(r[1] = d /\ r[2] = p)
        BY <1>2, <3>1, <3>3, ReadersAre
      <3> QED
        BY <3>2, <3>3
    <2>3. CASE f = e
      <3>1. IsFiniteSet(ReadersOf(G, f) \cup {<<d, p>>})
            /\ Cardinality(ReadersOf(G, f) \cup {<<d, p>>}) <= Cardinality(ReadersOf(G, f)) + 1
        BY <2>1, OneMore
      <3>2. Cardinality(ReadersOf(H, f)) <= Cardinality(ReadersOf(G, f) \cup {<<d, p>>})
        BY <2>2, <3>1, FS_Subset
      <3>3. H.edge[f].ref = G.edge[f].ref + 1
        BY <2>3 DEF RefIs
      <3>4. Cardinality(ReadersOf(G, f) \cup {<<d, p>>}) \in Nat
        BY <3>1, FS_CardinalityType
      <3> QED
        BY <2>1, <3>1, <3>2, <3>3, <3>4
    <2>4. CASE f # e
      <3>1. ReadersOf(H, f) \subseteq ReadersOf(G, f) /\ H.edge[f].ref = G.edge[f].ref
        BY <2>2, <2>4 DEF RefIs
      <3>2. Cardinality(ReadersOf(H, f)) <= Cardinality(ReadersOf(G, f))
        BY <1>1, <3>1, FewerReaders
      <3> QED
        BY <2>1, <3>1, <3>2
    <2> QED
      BY <2>3, <2>4
  <1>7. Pooled(H)
    <2>1. UsedEdges(H) = UsedEdges(G)
      BY DEF UsedEdges, RefIs
    <2>2. \A i \in DOMAIN G.free : G.free[i] \in EdgeId
      BY <1>1 DEF Graph
    <2> QED
      BY <1>1, <2>1, <2>2 DEF Pooled, RefIs
  <1> QED
    BY <1>4, <1>5, <1>6, <1>7 DEF Wired

LEMMA UsedFinite ==
  ASSUME NEW G
  PROVE  IsFiniteSet(UsedEdges(G)) /\ Cardinality(UsedEdges(G)) \in Nat /\ UsedEdges(G) \subseteq EdgeId
  <1>1. IsFiniteSet(EdgeId)
    BY PoolAssumption, FS_Interval DEF EdgeId
  <1>2. UsedEdges(G) \subseteq EdgeId
    BY DEF UsedEdges
  <1> QED
    BY <1>1, <1>2, FS_Subset, FS_CardinalityType

LEMMA UnusedUnread ==
  ASSUME NEW G, Fed(G), NEW e \in EdgeId, ~G.edge[e].used
  PROVE  ReadersOf(G, e) = {}
  BY ReadersAre DEF Fed, Written

\* A silent source port takes an edge from the pool.
LEMMA WiredClaim ==
  ASSUME NEW G, NEW H, Wired(G), H \in Graph, NEW s \in Slot, NEW p \in DOMAIN G.node[s].outs,
         G.node[s].outs[p] = Silent, G.free # <<>>, KeepsIns(G, H), OutsAre(G, H, s, p, Head(G.free)),
         EdgeIs(G, H, Head(G.free), [used |-> TRUE, ref |-> 0, src |-> s, port |-> p]),
         H.free = Tail(G.free), H.pool = G.pool
  PROVE  Wired(H) /\ Head(G.free) \in EdgeId /\ Written(H, Head(G.free))
  <1> DEFINE e == Head(G.free)
  <1>1. G \in Graph /\ Fed(G) /\ Owned(G) /\ Counted(G) /\ Pooled(G)
    BY DEF Wired
  <1>2. G.free \in Seq(EdgeId)
    BY <1>1 DEF Graph
  <1>3. /\ e \in EdgeId /\ e = G.free[1] /\ 1 \in DOMAIN G.free
        /\ Len(G.free) \in Nat /\ Len(H.free) = Len(G.free) - 1 /\ DOMAIN G.free = 1..Len(G.free)
        /\ DOMAIN H.free = 1..Len(G.free) - 1
        /\ \A i \in DOMAIN H.free : i + 1 \in DOMAIN G.free /\ H.free[i] = G.free[i + 1]
    BY <1>2, HeadTailProperties
  <1> HIDE DEF e
  <1>4. /\ H.edge[e].used /\ H.edge[e].ref = 0 /\ H.edge[e].src = s /\ H.edge[e].port = p
        /\ \A f \in EdgeId : f # e => H.edge[f] = G.edge[f]
    BY <1>3 DEF EdgeIs, e
  <1>5. ~G.edge[e].used /\ ReadersOf(G, e) = {}
    BY <1>1, <1>3, UnusedUnread DEF Pooled
  <1>6. \A n \in Slot : /\ DOMAIN H.node[n].outs = DOMAIN G.node[n].outs
                        /\ \A q \in DOMAIN G.node[n].outs :
                              H.node[n].outs[q] = IF n = s /\ q = p THEN e ELSE G.node[n].outs[q]
    BY <1>1, <1>3, OutsAreAt DEF e
  <1>7. Written(H, e)
    BY <1>4, <1>6 DEF Written
  <1>8. Fed(H)
    <2> SUFFICES ASSUME NEW d \in Slot, NEW q \in DOMAIN G.node[d].ins, NEW f \in EdgeId, G.node[d].ins[q] = f
                 PROVE  Written(H, f)
      BY DEF Fed, KeepsIns
    <2>1. Written(G, f) /\ f # e
      <3>1. Written(G, f)
        BY <1>1 DEF Fed
      <3>2. G.edge[f].used
        BY <3>1 DEF Written
      <3> QED
        BY <1>5, <3>1, <3>2
    <2>2. ~(G.edge[f].src = s /\ G.edge[f].port = p)
      BY <2>1, Constants0 DEF Written
    <2>3. H.edge[f] = G.edge[f]
      BY <1>4, <2>1
    <2>4. /\ DOMAIN H.node[G.edge[f].src].outs = DOMAIN G.node[G.edge[f].src].outs
          /\ H.node[G.edge[f].src].outs[G.edge[f].port] = G.node[G.edge[f].src].outs[G.edge[f].port]
      BY <1>6, <2>1, <2>2, Zenon DEF Written
    <2> QED
      BY <2>1, <2>3, <2>4, Zenon DEF Written
  <1>9. Owned(H)
    <2> SUFFICES ASSUME NEW n \in Slot, NEW q \in DOMAIN G.node[n].outs, NEW f \in EdgeId, H.node[n].outs[q] = f
                 PROVE  H.edge[f].used /\ H.edge[f].src = n /\ H.edge[f].port = q
      BY <1>6 DEF Owned
    <2>1. CASE n = s /\ q = p
      BY <1>4, <1>6, <2>1
    <2>2. CASE ~(n = s /\ q = p)
      <3>1. G.edge[f].used /\ G.edge[f].src = n /\ G.edge[f].port = q
        BY <1>1, <1>6, <2>2 DEF Owned
      <3> QED
        BY <1>4, <1>5, <3>1
    <2> QED
      BY <2>1, <2>2
  <1>10. Counted(H)
    <2> SUFFICES ASSUME NEW f \in EdgeId PROVE H.edge[f].ref >= Cardinality(ReadersOf(H, f))
      BY DEF Counted
    <2>1. ReadersOf(H, f) = ReadersOf(G, f)
      BY KeptReaders
    <2>2. CASE f = e
      <3>1. Cardinality(ReadersOf(H, f)) = 0
        BY <1>5, <2>1, <2>2, NoneCounted
      <3>2. H.edge[f].ref = 0
        BY <1>4, <2>2
      <3> QED
        BY <3>1, <3>2
    <2>3. CASE f # e
      BY <1>1, <1>4, <2>1, <2>3 DEF Counted
    <2> QED
      BY <2>2, <2>3
  <1>11. Pooled(H)
    <2>1. UsedEdges(H) = UsedEdges(G) \cup {e} /\ e \notin UsedEdges(G)
      BY <1>3, <1>4, <1>5 DEF UsedEdges
    <2>2. Cardinality(UsedEdges(H)) = Cardinality(UsedEdges(G)) + 1
      BY <2>1, UsedFinite, FS_AddElement
    <2>3. \A i \in DOMAIN H.free : ~H.edge[H.free[i]].used
      <3> SUFFICES ASSUME NEW i \in DOMAIN H.free PROVE ~H.edge[H.free[i]].used
        OBVIOUS
      <3>1. i + 1 \in DOMAIN G.free /\ H.free[i] = G.free[i + 1] /\ i + 1 # 1
        BY <1>3
      <3>2. H.free[i] # e /\ H.free[i] \in EdgeId /\ ~G.edge[H.free[i]].used
        BY <1>1, <1>2, <1>3, <3>1 DEF Pooled
      <3> QED
        BY <1>4, <3>2
    <2>4. \A i, j \in DOMAIN H.free : H.free[i] = H.free[j] => i = j
      BY <1>1, <1>3 DEF Pooled
    <2>5. Len(H.free) + Cardinality(UsedEdges(H)) = H.pool
      <3>1. Len(G.free) + Cardinality(UsedEdges(G)) = G.pool
        BY <1>1 DEF Pooled
      <3>2. Cardinality(UsedEdges(G)) \in Nat
        BY UsedFinite
      <3> QED
        BY <1>3, <2>2, <3>1, <3>2
    <2> QED
      BY <2>3, <2>4, <2>5 DEF Pooled
  <1> QED
    BY <1>3, <1>7, <1>8, <1>9, <1>10, <1>11 DEF Wired, e

\* The ports that wrote e write nothing.
Muted(G, H, e) ==
    \A n \in Slot : \A f \in EdgeId : \A q :
        (q \in DOMAIN H.node[n].outs /\ H.node[n].outs[q] = f) <=>
        (f # e /\ q \in DOMAIN G.node[n].outs /\ G.node[n].outs[q] = f)

\* An edge that nothing reads loses its writer; it may go back to the pool.
LEMMA WiredDropped ==
  ASSUME NEW G, NEW H, Wired(G), H \in Graph, NEW e \in EdgeId, ReadersOf(G, e) = {}, KeepsIns(G, H),
         Muted(G, H, e), H.pool = G.pool,
         KeepsEdges(G, H) \/ (G.edge[e].used /\ EdgeIs(G, H, e, Unused) /\ H.free = <<e>> \o G.free)
  PROVE  Wired(H)
  <1>1. G \in Graph /\ Fed(G) /\ Owned(G) /\ Counted(G) /\ Pooled(G)
    BY DEF Wired
  <1>2. \A f \in EdgeId : f # e => H.edge[f] = G.edge[f]
    BY DEF KeepsEdges, EdgeIs
  <1>3. Fed(H)
    <2> SUFFICES ASSUME NEW d \in Slot, NEW q \in DOMAIN G.node[d].ins, NEW f \in EdgeId, G.node[d].ins[q] = f
                 PROVE  Written(H, f)
      BY DEF Fed, KeepsIns
    <2>1. <<d, q>> \in ReadersOf(G, f)
      BY ReadersAre
    <2>2. Written(G, f) /\ f # e
      BY <1>1, <2>1 DEF Fed
    <2> QED
      BY <1>2, <2>2, SMTT(60) DEF Written, Muted
  <1>4. Owned(H)
    BY <1>1, <1>2 DEF Owned, Muted
  <1>5. Counted(H)
    <2> SUFFICES ASSUME NEW f \in EdgeId PROVE H.edge[f].ref >= Cardinality(ReadersOf(H, f))
      BY DEF Counted
    <2>1. ReadersOf(H, f) = ReadersOf(G, f)
      BY KeptReaders
    <2>2. CASE f = e
      <3>1. Cardinality(ReadersOf(H, f)) = 0
        BY <2>1, <2>2, NoneCounted
      <3>2. H.edge[f].ref \in Nat
        BY EdgeOf
      <3> QED
        BY <3>1, <3>2
    <2>3. CASE f # e
      BY <1>1, <1>2, <2>1, <2>3 DEF Counted
    <2> QED
      BY <2>2, <2>3
  <1>6. Pooled(H)
    <2>1. CASE KeepsEdges(G, H)
      BY <1>1, <2>1 DEF Pooled, UsedEdges, KeepsEdges
    <2>2. CASE G.edge[e].used /\ EdgeIs(G, H, e, Unused) /\ H.free = <<e>> \o G.free
      <3>1. G.free \in Seq(EdgeId) /\ <<e>> \in Seq(EdgeId)
        BY <1>1 DEF Graph
      <3>2. /\ Len(G.free) \in Nat /\ DOMAIN G.free = 1..Len(G.free)
            /\ Len(H.free) = Len(G.free) + 1 /\ DOMAIN H.free = 1..Len(G.free) + 1
            /\ H.free[1] = e /\ \A i \in DOMAIN H.free : i # 1 => i - 1 \in DOMAIN G.free /\ H.free[i] = G.free[i - 1]
        BY <2>2, <3>1
      <3>3. ~H.edge[e].used
        BY <2>2 DEF EdgeIs, Unused
      <3>4. UsedEdges(H) = UsedEdges(G) \ {e} /\ e \in UsedEdges(G)
        BY <1>2, <2>2, <3>3 DEF UsedEdges
      <3>5. Cardinality(UsedEdges(H)) = Cardinality(UsedEdges(G)) - 1
        BY <3>4, UsedFinite, FS_RemoveElement
      <3>6. \A i \in DOMAIN G.free : G.free[i] \in EdgeId /\ G.free[i] # e /\ ~H.edge[G.free[i]].used
        BY <1>1, <1>2, <2>2, <3>1 DEF Pooled
      <3>7. \A i \in DOMAIN H.free : ~H.edge[H.free[i]].used
        BY <3>2, <3>3, <3>6
      <3>8. \A i, j \in DOMAIN H.free : H.free[i] = H.free[j] => i = j
        <4>1. \A i, j \in DOMAIN G.free : G.free[i] = G.free[j] => i = j
          BY <1>1 DEF Pooled
        <4>2. \A j \in DOMAIN H.free : j # 1 => H.free[j] # e
          BY <3>2, <3>6
        <4>3. \A i, j \in DOMAIN H.free : i # 1 /\ j # 1 /\ H.free[i] = H.free[j] => i - 1 = j - 1
          <5> SUFFICES ASSUME NEW i \in DOMAIN H.free, NEW j \in DOMAIN H.free, i # 1, j # 1, H.free[i] = H.free[j]
                       PROVE  i - 1 = j - 1
            OBVIOUS
          <5>1. i - 1 \in DOMAIN G.free /\ j - 1 \in DOMAIN G.free /\ G.free[i - 1] = G.free[j - 1]
            BY <3>2
          <5> QED
            BY <4>1, <5>1
        <4>4. \A i \in DOMAIN H.free : i \in Nat
          BY <3>2
        <4> QED
          <5> SUFFICES ASSUME NEW i \in DOMAIN H.free, NEW j \in DOMAIN H.free, H.free[i] = H.free[j] PROVE i = j
            OBVIOUS
          <5>1. CASE i = 1 \/ j = 1
            BY <3>2, <4>2, <5>1
          <5>2. CASE i # 1 /\ j # 1
            <6>1. i - 1 = j - 1 /\ i \in Nat /\ j \in Nat
              BY <4>3, <4>4, <5>2
            <6> QED
              BY <6>1
          <5> QED
            BY <5>1, <5>2
      <3>9. Len(H.free) + Cardinality(UsedEdges(H)) = H.pool
        BY <1>1, <3>2, <3>5, UsedFinite, SMTT(60) DEF Pooled
      <3> QED
        BY <3>7, <3>8, <3>9 DEF Pooled
    <2> QED
      BY <2>1, <2>2
  <1> QED
    BY <1>3, <1>4, <1>5, <1>6 DEF Wired

-----------------------------------------------------------------------------
(* Edges: the operations on one of them.                                    *)

LEMMA ReadIs ==
  ASSUME NEW G \in Graph, NEW e \in EdgeId, NEW d \in Slot, NEW p \in DOMAIN G.node[d].ins
  PROVE  LET H == Read(G, e, d, p)
         IN  /\ H \in Graph /\ InsAre(G, H, d, p, e) /\ RefIs(G, H, e, G.edge[e].ref + 1) /\ H.free = G.free
             /\ KeepsFan(G, H) /\ KeepsOuts(G, H) /\ KeepsLinks(G, H) /\ KeepsRest(G, H) /\ H.watch = G.watch
  <1> DEFINE F == SetIn(G, d, p, e)
             k == F.edge[e].ref + 1
             H == [F EXCEPT !.edge = [F.edge EXCEPT ![e] = [F.edge[e] EXCEPT !.ref = k]]]
  <1>1. Read(G, e, d, p) = H
    BY DEF Read
  <1>2. e \in EdgeId \cup {Silent}
    OBVIOUS
  <1>3. /\ F \in Graph /\ InsAre(G, F, d, p, e) /\ KeepsFan(G, F) /\ KeepsOuts(G, F) /\ KeepsLinks(G, F)
        /\ KeepsEdges(G, F) /\ KeepsRest(G, F) /\ F.watch = G.watch
    BY <1>2, SetInIs
  <1> HIDE DEF F
  <1>4. k \in Nat /\ k = G.edge[e].ref + 1
    BY <1>3, EdgeOf DEF KeepsEdges
  <1> HIDE DEF k
  <1>5. H \in Graph /\ H.node = F.node /\ H.free = F.free /\ RefIs(F, H, e, k) /\ KeepsRest(F, H) /\ H.watch = F.watch
    BY <1>3, <1>4, RefChanged
  <1> HIDE DEF H
  <1>6. InsAre(G, H, d, p, e) /\ KeepsFan(G, H) /\ KeepsOuts(G, H) /\ KeepsLinks(G, H)
    BY <1>3, <1>5 DEF InsAre, KeepsFan, KeepsOuts, KeepsLinks
  <1>7. RefIs(G, H, e, k) /\ H.free = G.free /\ KeepsRest(G, H) /\ H.watch = G.watch
    BY <1>3, <1>5 DEF RefIs, KeepsEdges, KeepsRest
  <1> QED
    BY <1>1, <1>4, <1>5, <1>6, <1>7

\* Port s.p has taken the first free edge.
Claimed(G, H, s, p) ==
    /\ OutsAre(G, H, s, p, Head(G.free)) /\ EdgeIs(G, H, Head(G.free), [used |-> TRUE, ref |-> 0, src |-> s, port |-> p])
    /\ H.free = Tail(G.free) /\ KeepsIns(G, H) /\ KeepsFan(G, H) /\ KeepsLinks(G, H)
    /\ KeepsRest(G, H) /\ H.watch = G.watch

LEMMA ClaimIs ==
  ASSUME NEW G \in Graph, NEW s \in Slot, NEW p \in DOMAIN G.node[s].outs
  PROVE  LET c == Claim(G, s, p)
         IN  /\ G.node[s].outs[p] # Silent => c.ok /\ c.g = G
             /\ G.node[s].outs[p] = Silent /\ G.free = <<>> => ~c.ok /\ c.g = G
             /\ G.node[s].outs[p] = Silent /\ G.free # <<>> =>
                  c.ok /\ c.g \in Graph /\ Claimed(G, c.g, s, p)
  <1>1. CASE G.node[s].outs[p] # Silent
    BY <1>1 DEF Claim, Done
  <1>2. CASE G.node[s].outs[p] = Silent /\ G.free = <<>>
    BY <1>2 DEF Claim, Refused
  <1>3. CASE G.node[s].outs[p] = Silent /\ G.free # <<>>
    <2> DEFINE e == Head(G.free)
               F == SetOut(G, s, p, e)
               r == [used |-> TRUE, ref |-> 0, src |-> s, port |-> p]
               t == Tail(G.free)
               K == [F EXCEPT !.edge = [F.edge EXCEPT ![e] = r]]
               H == [F EXCEPT !.free = t, !.edge[e] = r]
    <2>1. G.free \in Seq(EdgeId)
      BY DEF Graph
    <2>2. e \in EdgeId /\ t \in Seq(EdgeId)
      BY <1>3, <2>1
    <2>3. Claim(G, s, p) = [ok |-> TRUE, g |-> H]
      <3>1. Claim(G, s, p) = [ok |-> TRUE, g |-> [SetOut(G, s, p, Head(G.free)) EXCEPT
                 !.free = Tail(SetOut(G, s, p, Head(G.free)).free),
                 !.edge[Head(G.free)] = [used |-> TRUE, ref |-> 0, src |-> s, port |-> p]]]
        BY <1>3 DEF Claim, Done
      <3>2. SetOut(G, s, p, Head(G.free)).free = G.free
        BY DEF SetOut
      <3> QED
        BY <3>1, <3>2, Zenon
    <2>4. r \in Edge
      <3>1. p \in Nat
        BY PortsOf
      <3> QED
        BY <3>1 DEF Edge
    <2>5. /\ F \in Graph /\ OutsAre(G, F, s, p, e) /\ KeepsFan(G, F) /\ KeepsIns(G, F) /\ KeepsLinks(G, F)
          /\ KeepsEdges(G, F) /\ KeepsRest(G, F) /\ F.watch = G.watch
      <3>1. e \in EdgeId \cup {Silent}
        BY <2>2
      <3> QED
        BY <3>1, SetOutIs
    <2> HIDE DEF F, r, t, e
    <2>6. /\ K \in Graph /\ K.node = F.node /\ K.free = F.free /\ EdgeIs(F, K, e, r) /\ KeepsRest(F, K)
          /\ K.watch = F.watch
      BY <2>2, <2>4, <2>5, EdgeChanged
    <2>7. H = [K EXCEPT !.free = t]
      BY <2>5 DEF Graph
    <2> HIDE DEF K, H
    <2>8. /\ H \in Graph /\ H.node = K.node /\ H.edge = K.edge /\ H.free = t /\ H.next = K.next /\ H.born = K.born
          /\ H.pool = K.pool /\ H.watch = K.watch
      BY <2>2, <2>6, <2>7 DEF Graph
    <2>9. OutsAre(G, H, s, p, e) /\ KeepsFan(G, H) /\ KeepsIns(G, H) /\ KeepsLinks(G, H)
      BY <2>5, <2>6, <2>8 DEF OutsAre, KeepsFan, KeepsIns, KeepsLinks
    <2>10. EdgeIs(G, H, e, r) /\ KeepsRest(G, H) /\ H.watch = G.watch
      BY <2>5, <2>6, <2>8 DEF EdgeIs, KeepsEdges, KeepsRest
    <2> QED
      BY <1>3, <2>3, <2>8, <2>9, <2>10 DEF Claimed, e, r, t
  <1> QED
    BY <1>1, <1>2, <1>3

LEMMA RetireIs ==
  ASSUME NEW G \in Graph, NEW e \in EdgeId
  PROVE  LET H == Retire(G, e)
         IN  /\ H \in Graph /\ H.node = G.node /\ EdgeIs(G, H, e, Unused) /\ H.free = <<e>> \o G.free
             /\ KeepsRest(G, H) /\ H.watch = G.watch
  <1> DEFINE K == [G EXCEPT !.edge = [G.edge EXCEPT ![e] = Unused]]
             t == <<e>> \o G.free
             H == [K EXCEPT !.free = t]
  <1>1. Retire(G, e) = H
    BY DEF Retire, Graph
  <1>2. Unused \in Edge
    BY Constants0 DEF Unused, Edge
  <1>3. /\ K \in Graph /\ K.node = G.node /\ EdgeIs(G, K, e, Unused) /\ KeepsRest(G, K) /\ K.watch = G.watch
    BY <1>2, EdgeChanged
  <1>4. t \in Seq(EdgeId)
    BY DEF Graph
  <1> HIDE DEF K, t
  <1>5. /\ H \in Graph /\ H.node = K.node /\ H.edge = K.edge /\ H.free = t /\ H.next = K.next /\ H.born = K.born
        /\ H.pool = K.pool /\ H.watch = K.watch
    BY <1>3, <1>4 DEF Graph
  <1> HIDE DEF H
  <1>6. EdgeIs(G, H, e, Unused) /\ KeepsRest(G, H)
    BY <1>3, <1>5 DEF EdgeIs, KeepsRest
  <1> QED
    BY <1>1, <1>3, <1>5, <1>6 DEF t

\* One reader of e less: the count goes down or the edge goes back, its port silent.
LEMMA UnreadIs ==
  ASSUME NEW G \in Graph, NEW e \in EdgeId, NEW s \in Slot, NEW p \in DOMAIN G.node[s].outs, G.node[s].outs[p] = e
  PROVE  LET H == Unread(G, e, s, p)
         IN  /\ H \in Graph /\ KeepsIns(G, H) /\ KeepsFan(G, H) /\ KeepsLinks(G, H) /\ KeepsRest(G, H)
             /\ H.watch = G.watch
             /\ \/ G.edge[e].ref > 1 /\ RefIs(G, H, e, G.edge[e].ref - 1) /\ H.free = G.free /\ KeepsOuts(G, H)
                \/ G.edge[e].ref <= 1 /\ EdgeIs(G, H, e, Unused) /\ H.free = <<e>> \o G.free
                   /\ OutsAre(G, H, s, p, Silent)
  <1>1. G.edge[e].ref \in Nat
    BY EdgeOf
  <1> DEFINE k == G.edge[e].ref - 1
             H == Unread(G, e, s, p)
  <1>2. CASE G.edge[e].ref > 1
    <2>1. k \in Nat /\ k > 0 /\ Floor(G.edge[e].ref - 1) = k
      BY <1>1, <1>2 DEF Floor
    <2>2. H = [G EXCEPT !.edge = [G.edge EXCEPT ![e] = [G.edge[e] EXCEPT !.ref = k]]]
      <3>1. H = [G EXCEPT !.edge[e].ref = Floor(G.edge[e].ref - 1)]
        BY <2>1 DEF Unread
      <3> QED
        BY <2>1, <3>1
    <2> HIDE DEF k, H
    <2>3. H \in Graph /\ H.node = G.node /\ H.free = G.free /\ RefIs(G, H, e, k) /\ KeepsRest(G, H) /\ H.watch = G.watch
      BY <2>1, <2>2, RefChanged
    <2>4. KeepsIns(G, H) /\ KeepsFan(G, H) /\ KeepsLinks(G, H) /\ KeepsOuts(G, H)
      BY <2>3 DEF KeepsIns, KeepsFan, KeepsLinks, KeepsOuts
    <2> QED
      BY <1>2, <2>3, <2>4 DEF k, H
  <1>3. CASE G.edge[e].ref <= 1
    <2>1. Floor(G.edge[e].ref - 1) = 0
      BY <1>1, <1>3 DEF Floor
    <2> DEFINE R == Retire(G, e)
    <2>2. R \in Graph /\ R.node = G.node /\ EdgeIs(G, R, e, Unused) /\ R.free = <<e>> \o G.free
          /\ KeepsRest(G, R) /\ R.watch = G.watch
      BY RetireIs
    <2>3. H = SetOut(R, s, p, Silent)
      <3>1. p \in DOMAIN R.node[s].outs /\ R.node[s].outs[p] = e
        BY <2>2
      <3> QED
        BY <2>1, <3>1 DEF Unread
    <2> HIDE DEF R, H
    <2>4. p \in DOMAIN R.node[s].outs /\ Silent \in EdgeId \cup {Silent}
      BY <2>2
    <2>5. /\ H \in Graph /\ OutsAre(R, H, s, p, Silent) /\ KeepsFan(R, H) /\ KeepsIns(R, H) /\ KeepsLinks(R, H)
          /\ KeepsEdges(R, H) /\ KeepsRest(R, H) /\ H.watch = R.watch
      BY <2>2, <2>3, <2>4, SetOutIs
    <2>6. KeepsIns(G, H) /\ KeepsFan(G, H) /\ KeepsLinks(G, H) /\ OutsAre(G, H, s, p, Silent)
      BY <2>2, <2>5 DEF KeepsIns, KeepsFan, KeepsLinks, OutsAre
    <2>7. EdgeIs(G, H, e, Unused) /\ H.free = <<e>> \o G.free /\ KeepsRest(G, H) /\ H.watch = G.watch
      BY <2>2, <2>5 DEF EdgeIs, KeepsEdges, KeepsRest
    <2> QED
      BY <1>3, <2>5, <2>6, <2>7 DEF H
  <1> QED
    BY <1>1, <1>2, <1>3

-----------------------------------------------------------------------------
(* Links: the sources of a node, and the successor that each link names.    *)

LEMMA SourcesAre ==
  ASSUME NEW G \in Graph, NEW d \in Slot
  PROVE  \A s : s \in Sources(G, d) <=>
            /\ s # Nobody
            /\ \E p \in DOMAIN G.node[d].ins : \E e \in EdgeId : G.node[d].ins[p] = e /\ G.edge[e].src = s
  <1>1. \A p \in DOMAIN G.node[d].ins : G.node[d].ins[p] \in EdgeId \cup {Silent}
    BY PortsOf
  <1>2. Silent \notin EdgeId
    BY Constants0
  <1> QED
    BY <1>1, <1>2 DEF Sources, ToSet

LEMMA SourcesInSlot ==
  ASSUME NEW G \in Graph, NEW d \in Slot
  PROVE  /\ Sources(G, d) \subseteq Slot /\ IsFiniteSet(Sources(G, d)) /\ Cardinality(Sources(G, d)) \in Nat
         /\ Nobody \notin Sources(G, d)
  <1>1. \A s : s \in Sources(G, d) => s \in Slot /\ s # Nobody
    <2>1. \A e \in EdgeId : G.edge[e].src \in Slot \cup {Nobody}
      BY EdgeOf
    <2> QED
      BY <2>1, SourcesAre
  <1> QED
    BY <1>1, Constants0, FS_Subset, FS_CardinalityType

LEMMA FeederIs ==
  ASSUME NEW G, Wired(G), NEW d \in Slot, NEW p \in DOMAIN G.node[d].ins, NEW e \in EdgeId, G.node[d].ins[p] = e
  PROVE  Written(G, e) /\ G.edge[e].src \in Slot /\ G.edge[e].src \in Sources(G, d)
  <1>1. Written(G, e) /\ G.edge[e].src \in Slot
    BY DEF Wired, Fed, Written
  <1> QED
    BY <1>1, SourcesAre, Constants0 DEF Wired

LEMMA StillIs ==
  ASSUME NEW G, Wired(G), NEW s \in Slot, NEW d \in Slot
  PROVE  StillConnected(G, s, d) <=> s \in Sources(G, d)
  <1>0. G \in Graph /\ Owned(G)
    BY DEF Wired
  <1>1. \A e : e \in ToSet(G.node[s].outs) <=> \E q \in DOMAIN G.node[s].outs : G.node[s].outs[q] = e
    BY DEF ToSet
  <1>2. \A e : e \in ToSet(G.node[d].ins) <=> \E q \in DOMAIN G.node[d].ins : G.node[d].ins[q] = e
    BY DEF ToSet
  <1>3. ASSUME StillConnected(G, s, d) PROVE s \in Sources(G, d)
    <2>1. PICK e : e # Silent /\ e \in ToSet(G.node[s].outs) /\ e \in ToSet(G.node[d].ins)
      BY <1>3 DEF StillConnected
    <2>2. PICK q \in DOMAIN G.node[s].outs : G.node[s].outs[q] = e
      BY <1>1, <2>1
    <2>3. PICK p \in DOMAIN G.node[d].ins : G.node[d].ins[p] = e
      BY <1>2, <2>1
    <2>4. e \in EdgeId
      BY <1>0, <2>1, <2>2, PortsOf
    <2>5. G.edge[e].src = s
      BY <1>0, <2>2, <2>4 DEF Owned
    <2> QED
      BY <2>3, <2>4, <2>5, FeederIs
  <1>4. ASSUME s \in Sources(G, d) PROVE StillConnected(G, s, d)
    <2>1. PICK p \in DOMAIN G.node[d].ins, e \in EdgeId : G.node[d].ins[p] = e /\ G.edge[e].src = s
      BY <1>0, <1>4, SourcesAre
    <2>2. Written(G, e)
      BY <2>1, FeederIs
    <2>3. e \in ToSet(G.node[s].outs) /\ e \in ToSet(G.node[d].ins) /\ e # Silent
      BY <1>1, <1>2, <2>1, <2>2, Constants0 DEF Written
    <2> QED
      BY <2>3 DEF StillConnected
  <1> QED
    BY <1>3, <1>4

LEMMA GivenIs ==
  ASSUME NEW G \in Graph, Unborn(G), NEW n \in Slot, NEW p,
         p \in DOMAIN G.node[n].ins \/ p \in DOMAIN G.node[n].outs
  PROVE  n \in Given(G)
  <1>1. DOMAIN << >> = {}
    OBVIOUS
  <1> QED
    BY <1>1 DEF Unborn

KeepsSrc(G, H) ==
    \A e \in EdgeId : ReadersOf(G, e) # {} => H.edge[e].src = G.edge[e].src /\ H.edge[e].port = G.edge[e].port

LEMMA SourcesKept ==
  ASSUME NEW G \in Graph, NEW H \in Graph, KeepsIns(G, H), KeepsSrc(G, H), NEW d \in Slot
  PROVE  Sources(H, d) = Sources(G, d)
  <1>1. \A p \in DOMAIN G.node[d].ins : \A e \in EdgeId : G.node[d].ins[p] = e => H.edge[e].src = G.edge[e].src
    <2> SUFFICES ASSUME NEW p \in DOMAIN G.node[d].ins, NEW e \in EdgeId, G.node[d].ins[p] = e
                 PROVE  H.edge[e].src = G.edge[e].src
      OBVIOUS
    <2>1. <<d, p>> \in ReadersOf(G, e)
      BY ReadersAre
    <2> QED
      BY <2>1 DEF KeepsSrc
  <1>2. H.node[d].ins = G.node[d].ins
    BY DEF KeepsIns
  <1>3. \A s : s \in Sources(H, d) <=> s \in Sources(G, d)
    BY <1>1, <1>2, SourcesAre
  <1> QED
    BY <1>3

LEMMA SourcesPlugged ==
  ASSUME NEW G \in Graph, NEW H \in Graph, NEW d \in Slot, NEW p \in DOMAIN G.node[d].ins, NEW e \in EdgeId,
         NEW s \in Slot, G.node[d].ins[p] = Silent, G.edge[e].src = s, InsAre(G, H, d, p, e),
         \A f \in EdgeId : H.edge[f].src = G.edge[f].src
  PROVE  \A x \in Slot : Sources(H, x) = IF x = d THEN Sources(G, d) \cup {s} ELSE Sources(G, x)
  <1>0. e \in EdgeId \cup {Silent} /\ s # Nobody /\ Silent \notin EdgeId
    BY Constants0
  <1>1. \A x \in Slot : /\ DOMAIN H.node[x].ins = DOMAIN G.node[x].ins
                        /\ \A q \in DOMAIN G.node[x].ins :
                              H.node[x].ins[q] = IF x = d /\ q = p THEN e ELSE G.node[x].ins[q]
    BY <1>0, InsAreAt
  <1> SUFFICES ASSUME NEW x \in Slot, NEW t
               PROVE  t \in Sources(H, x) <=> t \in Sources(G, x) \/ (x = d /\ t = s)
    <2>1. \A x \in Slot : Sources(H, x) = IF x = d THEN Sources(G, x) \cup {s} ELSE Sources(G, x)
      OBVIOUS
    <2> QED
      BY <2>1
  <1>2. t \in Sources(H, x) <=> /\ t # Nobody
          /\ \E q \in DOMAIN H.node[x].ins : \E f \in EdgeId : H.node[x].ins[q] = f /\ H.edge[f].src = t
    BY SourcesAre
  <1>3. t \in Sources(G, x) <=> /\ t # Nobody
          /\ \E q \in DOMAIN G.node[x].ins : \E f \in EdgeId : G.node[x].ins[q] = f /\ G.edge[f].src = t
    BY SourcesAre
  <1>4. ASSUME t \in Sources(H, x) PROVE t \in Sources(G, x) \/ (x = d /\ t = s)
    BY <1>1, <1>2, <1>3, <1>4
  <1>5. ASSUME t \in Sources(G, x) PROVE t \in Sources(H, x)
    <2>1. PICK q \in DOMAIN G.node[x].ins, f \in EdgeId : G.node[x].ins[q] = f /\ G.edge[f].src = t
      BY <1>3, <1>5
    <2>2. ~(x = d /\ q = p)
      BY <1>0, <2>1
    <2> QED
      BY <1>1, <1>2, <1>3, <1>5, <2>1, <2>2
  <1>6. ASSUME x = d /\ t = s PROVE t \in Sources(H, x)
    BY <1>0, <1>1, <1>2, <1>6
  <1> QED
    BY <1>4, <1>5, <1>6

LEMMA SourcesSilenced ==
  ASSUME NEW G \in Graph, NEW H \in Graph, NEW d \in Slot, NEW p \in DOMAIN G.node[d].ins, NEW e \in EdgeId,
         NEW s \in Slot, G.node[d].ins[p] = e, G.edge[e].src = s, InsAre(G, H, d, p, Silent),
         \A f \in EdgeId : H.edge[f].src = G.edge[f].src
  PROVE  \A x \in Slot : IF x = d THEN Sources(H, d) \cup {s} = Sources(G, d) ELSE Sources(H, x) = Sources(G, x)
  <1>0. Silent \in EdgeId \cup {Silent} /\ s # Nobody /\ Silent \notin EdgeId
    BY Constants0
  <1>1. \A x \in Slot : /\ DOMAIN H.node[x].ins = DOMAIN G.node[x].ins
                        /\ \A q \in DOMAIN G.node[x].ins :
                              H.node[x].ins[q] = IF x = d /\ q = p THEN Silent ELSE G.node[x].ins[q]
    BY <1>0, InsAreAt
  <1> SUFFICES ASSUME NEW x \in Slot, NEW t
               PROVE  t \in Sources(G, x) <=> t \in Sources(H, x) \/ (x = d /\ t = s)
    <2>1. \A x \in Slot : IF x = d THEN Sources(H, x) \cup {s} = Sources(G, x) ELSE Sources(H, x) = Sources(G, x)
      OBVIOUS
    <2> QED
      BY <2>1
  <1>2. t \in Sources(H, x) <=> /\ t # Nobody
          /\ \E q \in DOMAIN H.node[x].ins : \E f \in EdgeId : H.node[x].ins[q] = f /\ H.edge[f].src = t
    BY SourcesAre
  <1>3. t \in Sources(G, x) <=> /\ t # Nobody
          /\ \E q \in DOMAIN G.node[x].ins : \E f \in EdgeId : G.node[x].ins[q] = f /\ G.edge[f].src = t
    BY SourcesAre
  <1>4. ASSUME t \in Sources(H, x) PROVE t \in Sources(G, x)
    BY <1>0, <1>1, <1>2, <1>3, <1>4
  <1>5. ASSUME t \in Sources(G, x) PROVE t \in Sources(H, x) \/ (x = d /\ t = s)
    <2>1. PICK q \in DOMAIN G.node[x].ins, f \in EdgeId : G.node[x].ins[q] = f /\ G.edge[f].src = t
      BY <1>3, <1>5
    <2>2. CASE x = d /\ q = p
      BY <2>1, <2>2
    <2>3. CASE ~(x = d /\ q = p)
      BY <1>1, <1>2, <1>3, <1>5, <2>1, <2>3
    <2> QED
      BY <2>2, <2>3
  <1>6. ASSUME x = d /\ t = s PROVE t \in Sources(G, x)
    BY <1>0, <1>3, <1>6
  <1> QED
    BY <1>4, <1>5, <1>6

-----------------------------------------------------------------------------
(* The links of one node agree with the edges, before and after a link.     *)

LEMMA ExactLinked ==
  ASSUME NEW G \in Graph, NEW H \in Graph, NEW s \in Slot, NEW d \in Slot, NEW n, n # s, Linked(G, H, s, d),
         \A x \in Slot : Sources(H, x) = IF x = d THEN Sources(G, d) \cup {s} ELSE Sources(G, x),
         NEW x \in Slot, Exact(G, n, x)
  PROVE  Exact(H, n, x)
  <1>1. /\ Preds(G, x) \ {n} = Sources(G, x) \ {n} /\ G.node[x].indeg = Cardinality(Sources(G, x))
        /\ G.node[x].indeg \in Nat
    BY NodeOf DEF Exact
  <1>2. CASE x # d
    <2>1. Preds(H, x) = Preds(G, x)
      BY <1>2 DEF Preds, Linked
    <2>2. H.node[x].indeg = G.node[x].indeg /\ Sources(H, x) = Sources(G, x)
      BY <1>2 DEF Linked
    <2> QED
      BY <1>1, <2>1, <2>2 DEF Exact
  <1>3. CASE x = d
    <2>1. Preds(H, d) = Preds(G, d) \cup {s}
      BY DEF Preds, Linked
    <2>2. Sources(H, d) = Sources(G, d) \cup {s}
      OBVIOUS
    <2>3. Preds(H, d) \ {n} = Sources(H, d) \ {n}
      BY <1>1, <1>3, <2>1, <2>2
    <2>4. d \in G.node[s].succ <=> s \in Sources(G, d)
      BY <1>1, <1>3 DEF Preds
    <2>5. H.node[d].indeg = IF d \notin G.node[s].succ THEN G.node[d].indeg + 1 ELSE G.node[d].indeg
      BY DEF Linked
    <2>6. Cardinality(Sources(G, d) \cup {s}) =
            IF s \in Sources(G, d) THEN Cardinality(Sources(G, d)) ELSE Cardinality(Sources(G, d)) + 1
      BY SourcesInSlot, FS_AddElement
    <2>7. H.node[d].indeg = Cardinality(Sources(H, d))
      BY <1>1, <1>3, <2>2, <2>4, <2>5, <2>6
    <2> QED
      BY <1>3, <2>3, <2>7 DEF Exact
  <1> QED
    BY <1>2, <1>3

UnlinkedIfGone(G, H, s, d) == IF s \in Sources(H, d) THEN KeepsLinks(G, H) ELSE Unlinked(G, H, s, d)

LEMMA ExactUnlinked ==
  ASSUME NEW G \in Graph, NEW H \in Graph, NEW s \in Slot, NEW d \in Slot, NEW n, n # s, UnlinkedIfGone(G, H, s, d),
         \A x \in Slot : IF x = d THEN Sources(H, d) \cup {s} = Sources(G, d) ELSE Sources(H, x) = Sources(G, x),
         NEW x \in Slot, Exact(G, n, x)
  PROVE  Exact(H, n, x)
  <1>1. /\ Preds(G, x) \ {n} = Sources(G, x) \ {n} /\ G.node[x].indeg = Cardinality(Sources(G, x))
        /\ G.node[x].indeg \in Nat
    BY NodeOf DEF Exact
  <1>2. CASE s \in Sources(H, d)
    <2>1. Preds(H, x) = Preds(G, x) /\ H.node[x].indeg = G.node[x].indeg
      BY <1>2 DEF Preds, UnlinkedIfGone, KeepsLinks
    <2>2. Sources(H, x) = Sources(G, x)
      BY <1>2
    <2> QED
      BY <1>1, <2>1, <2>2 DEF Exact
  <1>3. CASE s \notin Sources(H, d) /\ x # d
    <2>1. Preds(H, x) = Preds(G, x) /\ H.node[x].indeg = G.node[x].indeg
      BY <1>3 DEF Preds, UnlinkedIfGone, Unlinked
    <2>2. Sources(H, x) = Sources(G, x)
      BY <1>3
    <2> QED
      BY <1>1, <2>1, <2>2 DEF Exact
  <1>4. CASE s \notin Sources(H, d) /\ x = d
    <2>1. Sources(H, d) = Sources(G, d) \ {s} /\ s \in Sources(G, d)
      BY <1>4
    <2>2. Preds(H, d) = Preds(G, d) \ {s}
      BY <1>4 DEF Preds, UnlinkedIfGone, Unlinked
    <2>3. H.node[d].indeg = Floor(G.node[d].indeg - 1)
      BY <1>4 DEF UnlinkedIfGone, Unlinked
    <2>4. /\ Cardinality(Sources(H, d)) = Cardinality(Sources(G, d)) - 1
          /\ Cardinality(Sources(H, d)) \in Nat
      <3>1. IsFiniteSet(Sources(G, d)) /\ Cardinality(Sources(H, d)) \in Nat
        BY SourcesInSlot
      <3>2. Cardinality(Sources(G, d) \ {s}) =
              IF s \in Sources(G, d) THEN Cardinality(Sources(G, d)) - 1 ELSE Cardinality(Sources(G, d))
        BY <3>1, FS_RemoveElement
      <3> QED
        BY <2>1, <3>1, <3>2
    <2>5. H.node[d].indeg = Cardinality(Sources(H, d))
      BY <1>1, <1>4, <2>3, <2>4 DEF Floor
    <2>6. Preds(H, d) \ {n} = Sources(H, d) \ {n}
      BY <1>1, <1>4, <2>1, <2>2
    <2> QED
      BY <1>4, <2>5, <2>6 DEF Exact
  <1> QED
    BY <1>2, <1>3, <1>4

LEMMA ExactKept ==
  ASSUME NEW G, NEW H, KeepsLinks(G, H), NEW n, NEW x \in Slot, Sources(H, x) = Sources(G, x), Exact(G, n, x)
  PROVE  Exact(H, n, x)
  <1>1. Preds(H, x) = Preds(G, x) /\ H.node[x].indeg = G.node[x].indeg
    BY DEF Preds, KeepsLinks
  <1> QED
    BY <1>1 DEF Exact

LEMMA CoveredLinked ==
  ASSUME NEW G, NEW H, NEW s \in Slot, NEW d \in Slot, Linked(G, H, s, d), NEW n, Covered(G, n),
         G \in Graph, H \in Graph,
         \A x \in Slot : Sources(H, x) = IF x = d THEN Sources(G, d) \cup {s} ELSE Sources(G, x)
  PROVE  Covered(H, n)
  <1> SUFFICES ASSUME NEW x \in Slot \ {n}, NEW t \in Sources(H, x) PROVE x \in H.node[t].succ
    BY DEF Covered
  <1>1. t \in Slot
    BY SourcesInSlot
  <1>2. CASE t \in Sources(G, x)
    BY <1>1, <1>2 DEF Covered, Linked
  <1>3. CASE t \notin Sources(G, x)
    <2>1. x = d /\ t = s
      BY <1>3
    <2> QED
      BY <2>1 DEF Linked
  <1> QED
    BY <1>2, <1>3

LEMMA CoveredUnlinked ==
  ASSUME NEW G, NEW H, NEW s \in Slot, NEW d \in Slot, UnlinkedIfGone(G, H, s, d), NEW n, Covered(G, n),
         G \in Graph, H \in Graph,
         \A x \in Slot : IF x = d THEN Sources(H, d) \cup {s} = Sources(G, d) ELSE Sources(H, x) = Sources(G, x)
  PROVE  Covered(H, n)
  <1> SUFFICES ASSUME NEW x \in Slot \ {n}, NEW t \in Sources(H, x) PROVE x \in H.node[t].succ
    BY DEF Covered
  <1>1. t \in Slot
    BY SourcesInSlot
  <1>2. t \in Sources(G, x)
    BY SourcesInSlot
  <1>3. x \in G.node[t].succ
    BY <1>2 DEF Covered
  <1>4. CASE s \in Sources(H, d)
    BY <1>1, <1>3, <1>4 DEF UnlinkedIfGone, KeepsLinks
  <1>5. CASE s \notin Sources(H, d)
    <2>1. ~(x = d /\ t = s)
      BY <1>5
    <2> QED
      BY <1>1, <1>3, <1>5, <2>1 DEF UnlinkedIfGone, Unlinked
  <1> QED
    BY <1>4, <1>5

-----------------------------------------------------------------------------
(* Cycles: what the check has walked is closed under the successor lists.   *)

\* Sets that grow step by step along some arrows of the graph, until they are closed.
ClosedUnder(E, Y) == \A n \in Y : E[n] \subseteq Y
Grows(E, X, f) ==
    f = [k \in 0..Cardinality(Slot) |-> IF k = 0 THEN X ELSE f[k - 1] \cup UNION {E[n] : n \in f[k - 1]}]

GrowsBy(E, X, f) ==
    /\ f[0] = X
    /\ \A k \in 1..Cardinality(Slot) :
          f[k - 1] \in SUBSET Slot => f[k] = f[k - 1] \cup UNION {E[n] : n \in f[k - 1]}

LEMMA GrowthExists ==
  ASSUME NEW E \in [Slot -> SUBSET Slot], NEW X \in SUBSET Slot
  PROVE  \E f \in [0..Cardinality(Slot) -> SUBSET Slot] : Grows(E, X, f)
  <1> DEFINE N == Cardinality(Slot)
             D == SUBSET Slot
             Step(Y) == Y \cup UNION {E[n] : n \in Y}
             F == [k \in 1..N |-> [Y \in D |-> Step(Y)]]
  <1>1. N \in Nat /\ X \in D
    BY Constants0, FS_CardinalityType
  <1> HIDE DEF N
  <1>2. \A Y \in D : Step(Y) \in D
    OBVIOUS
  <1> HIDE DEF Step
  <1>3. StaysWithin(F, N, D)
    BY <1>2 DEF StaysWithin
  <1> HIDE DEF D
  <1>4. \A k \in 1..N : \A Y \in D : F[k][Y] = Step(Y)
    OBVIOUS
  <1> HIDE DEF F
  <1>5. PICK f : Iterates(f, F, X, N, D)
    BY <1>1, <1>3, RecursionExists
  <1>6. \A k \in 0..N : k # 0 => k \in 1..N /\ k - 1 \in 0..N /\ f[k - 1] \in D
    BY <1>1, <1>5 DEF Iterates
  <1>7. \A k \in 0..N : f[k] = IF k = 0 THEN X ELSE Step(f[k - 1])
    BY <1>4, <1>5, <1>6 DEF Iterates
  <1> DEFINE b == [k \in 0..N |-> IF k = 0 THEN X ELSE Step(f[k - 1])]
  <1>8. f = [k \in 0..N |-> f[k]] /\ b = [k \in 0..N |-> b[k]] /\ f \in [0..N -> D]
    BY <1>5 DEF Iterates
  <1>9. \A k \in 0..N : f[k] = b[k]
    BY <1>7
  <1> HIDE DEF b
  <1>10. f = b
    BY <1>8, <1>9
  <1>11. Grows(E, X, f)
    BY <1>10 DEF b, Grows, Step, N
  <1> QED
    BY <1>8, <1>11 DEF D, N

\* After as many steps as there are nodes nothing is left to add.
LEMMA GrowthCloses ==
  ASSUME NEW E \in [Slot -> SUBSET Slot], NEW K \in SUBSET Slot, ClosedUnder(E, K), NEW X \in SUBSET K,
         NEW f, GrowsBy(E, X, f)
  PROVE  LET U == f[Cardinality(Slot)] IN U \subseteq K /\ X \subseteq U /\ ClosedUnder(E, U)
  <1> DEFINE N == Cardinality(Slot)
             Step(Y) == Y \cup UNION {E[n] : n \in Y}
             D == {Y \in SUBSET K : X \subseteq Y}
             T == {k \in 0..N : f[k] \in D /\ (ClosedUnder(E, f[k]) \/ Cardinality(f[k]) >= k)}
  <1>1. f[0] = X /\ \A k \in 1..N : f[k - 1] \in SUBSET Slot => f[k] = Step(f[k - 1])
    BY DEF GrowsBy
  <1>2. N \in Nat /\ IsFiniteSet(Slot)
    BY Constants0, FS_CardinalityType
  <1> HIDE DEF N
  <1>3. ASSUME NEW Y \in D PROVE Step(Y) \in D
    BY DEF ClosedUnder
  <1>4. X \in D
    OBVIOUS
  <1>5. ASSUME NEW Y \in D, ClosedUnder(E, Y) PROVE Step(Y) = Y
    BY <1>5 DEF ClosedUnder
  <1>6. ASSUME NEW Y \in D, ~ClosedUnder(E, Y)
        PROVE  Cardinality(Step(Y)) >= Cardinality(Y) + 1 /\ Cardinality(Y) \in Nat
    <2>1. PICK s : s \in Step(Y) /\ s \notin Y
      BY <1>6 DEF ClosedUnder
    <2>2. Y \subseteq Slot /\ Step(Y) \subseteq Slot
      BY <1>3
    <2>3. IsFiniteSet(Y) /\ IsFiniteSet(Step(Y))
      BY <1>2, <2>2, FS_Subset
    <2>4. Y \cup {s} \subseteq Step(Y)
      BY <2>1
    <2> HIDE DEF Step, D
    <2>5. Cardinality(Y) \in Nat /\ IsFiniteSet(Y \cup {s}) /\ Cardinality(Y \cup {s}) = Cardinality(Y) + 1
      BY <2>1, <2>3, FS_AddElement, FS_CardinalityType
    <2>6. Cardinality(Y \cup {s}) <= Cardinality(Step(Y)) /\ Cardinality(Step(Y)) \in Nat
      BY <2>3, <2>4, FS_Subset, FS_CardinalityType
    <2> QED
      BY <2>5, <2>6
  <1> HIDE DEF Step, D
  <1>7. f[0] = X /\ \A k \in 1..N : f[k - 1] \in D => f[k] = Step(f[k - 1])
    BY <1>1 DEF D
  <1>8. 0 \in T
    <2>1. X \in SUBSET Slot
      OBVIOUS
    <2>2. Cardinality(X) \in Nat
      BY <1>2, <2>1, FS_Subset, FS_CardinalityType
    <2> QED
      BY <1>2, <1>4, <1>7, <2>2
  <1>9. ASSUME NEW k \in 1..N, k - 1 \in T PROVE k \in T
    <2> DEFINE Y == f[k - 1]
    <2>1. k \in 0..N /\ Y \in D /\ (ClosedUnder(E, Y) \/ Cardinality(Y) >= k - 1)
      BY <1>2, <1>9
    <2>2. f[k] = Step(Y)
      BY <1>7, <2>1
    <2> HIDE DEF Y
    <2>3. f[k] \in D
      BY <1>3, <2>1, <2>2
    <2>4. CASE ClosedUnder(E, Y)
      <3>1. f[k] = Y
        BY <1>5, <2>1, <2>2, <2>4
      <3> QED
        BY <2>1, <2>4, <3>1
    <2>5. CASE ~ClosedUnder(E, Y)
      <3>1. Cardinality(Step(Y)) >= Cardinality(Y) + 1 /\ Cardinality(Y) \in Nat
        BY <1>6, <2>1, <2>5
      <3>2. Cardinality(Step(Y)) \in Nat
        <4>1. Step(Y) \in SUBSET Slot
          BY <2>2, <2>3 DEF D
        <4> QED
          BY <1>2, <4>1, FS_Subset, FS_CardinalityType
      <3>3. Cardinality(Step(Y)) >= k
        BY <2>1, <2>5, <3>1, <3>2
      <3> QED
        BY <2>1, <2>2, <2>3, <3>3
    <2> QED
      BY <2>4, <2>5
  <1>10. T = 0..N
    <2>1. T \in SUBSET (0..N)
      OBVIOUS
    <2> HIDE DEF T
    <2> QED
      BY <1>2, <1>8, <1>9, <2>1, IndexInduction
  <1> DEFINE U == f[N]
  <1>11. U \in D /\ (ClosedUnder(E, U) \/ Cardinality(U) >= N)
    BY <1>2, <1>10
  <1> HIDE DEF U
  <1>12. U \subseteq K /\ X \subseteq U
    BY <1>11 DEF D
  <1>13. ClosedUnder(E, U)
    <2> SUFFICES ASSUME Cardinality(U) >= N PROVE ClosedUnder(E, U)
      BY <1>11
    <2>1. U \subseteq Slot /\ Cardinality(U) <= N /\ Cardinality(U) \in Nat
      BY <1>2, <1>12, FS_Subset, FS_CardinalityType DEF N
    <2>2. U = Slot
      <3>1. Cardinality(U) = Cardinality(Slot)
        BY <1>2, <2>1 DEF N
      <3> QED
        BY <1>2, <2>1, <3>1, FS_Subset
    <2> QED
      BY <2>2 DEF ClosedUnder
  <1> QED
    BY <1>12, <1>13 DEF U, N

\* The check for cycles visits n and, with a node, all its successors.
LEMMA DownstreamIs ==
  ASSUME NEW G \in Graph, NEW n \in Slot
  PROVE  LET U == Downstream(G, n)
         IN  U \in SUBSET Slot /\ n \in U /\ \A m \in U : G.node[m].succ \subseteq U
  <1> DEFINE N == Cardinality(Slot)
             E == [m \in Slot |-> G.node[m].succ]
             Rec(f) == f = [k \in 0..N |-> IF k = 0 THEN {n} ELSE f[k-1] \cup UNION {G.node[m].succ : m \in f[k-1]}]
             grown == CHOOSE f : Rec(f)
  <1>1. Downstream(G, n) = grown[N]
    BY DEF Downstream
  <1>2. N \in Nat
    BY Constants0, FS_CardinalityType
  <1> HIDE DEF N
  <1>3. E \in [Slot -> SUBSET Slot] /\ {n} \in SUBSET Slot /\ Slot \in SUBSET Slot /\ \A m \in Slot : E[m] = G.node[m].succ
    BY NodeOf
  <1> HIDE DEF E
  <1>4. PICK f \in [0..N -> SUBSET Slot] : Grows(E, {n}, f)
    BY <1>3, GrowthExists DEF N
  <1>5. ASSUME NEW k \in 0..N, k # 0
        PROVE  UNION {E[m] : m \in f[k-1]} = UNION {G.node[m].succ : m \in f[k-1]}
    <2>1. k - 1 \in 0..N
      BY <1>2, <1>5
    <2>2. f[k-1] \subseteq Slot
      BY <2>1
    <2> QED
      BY <1>3, <2>2
  <1>6. Rec(f)
    <2>1. f = [k \in 0..N |-> IF k = 0 THEN {n} ELSE f[k-1] \cup UNION {E[m] : m \in f[k-1]}]
      BY <1>4 DEF Grows, N
    <2> QED
      BY <1>5, <2>1
  <1>7. Rec(grown)
    <2> HIDE DEF Rec
    <2> QED
      BY <1>6
  <1> HIDE DEF grown
  <1>8. GrowsBy(E, {n}, grown)
    <2>1. 0 \in 0..N /\ \A k \in 1..N : k \in 0..N /\ k # 0
      BY <1>2
    <2>2. grown[0] = {n}
      BY <1>7, <2>1
    <2>3. ASSUME NEW k \in 1..N, grown[k - 1] \in SUBSET Slot
          PROVE  grown[k] = grown[k - 1] \cup UNION {E[m] : m \in grown[k - 1]}
      <3>1. grown[k] = grown[k - 1] \cup UNION {G.node[m].succ : m \in grown[k - 1]}
        BY <1>7, <2>1
      <3>2. UNION {E[m] : m \in grown[k - 1]} = UNION {G.node[m].succ : m \in grown[k - 1]}
        BY <1>3, <2>3
      <3> QED
        BY <3>1, <3>2
    <2> QED
      BY <2>2, <2>3 DEF GrowsBy, N
  <1>9. ClosedUnder(E, Slot)
    BY <1>3 DEF ClosedUnder
  <1>10. grown[N] \subseteq Slot /\ {n} \subseteq grown[N] /\ ClosedUnder(E, grown[N])
    BY <1>3, <1>8, <1>9, GrowthCloses DEF N
  <1> QED
    BY <1>1, <1>3, <1>10 DEF ClosedUnder

-----------------------------------------------------------------------------
(* Cycles: a connection that the check lets through leaves the graph without. *)

\* No cycles: a set of nodes that is closed under what its nodes feed keeps what feeds it out.
Below(G, D)    == \A x \in Slot : \A s \in Sources(G, x) : s \in D => x \in D
NoWay(G, d, s) == \E D \in SUBSET Slot : d \in D /\ s \notin D /\ Below(G, D)
Fewer(G, H)    == \A x \in Slot : Sources(H, x) \subseteq Sources(G, x)

LEMMA AcyclicFewer ==
  ASSUME NEW G, Acyclic(G), NEW H, Fewer(G, H)
  PROVE  Acyclic(H)
  <1> SUFFICES ASSUME NEW X \in SUBSET Slot, X # {} PROVE \E n \in X : Sources(H, n) \cap X = {}
    BY DEF Acyclic
  <1>1. PICK n \in X : Sources(G, n) \cap X = {}
    BY DEF Acyclic
  <1> QED
    BY <1>1 DEF Fewer

LEMMA NoWayFewer ==
  ASSUME NEW G, NEW d, NEW s, NoWay(G, d, s), NEW H, Fewer(G, H)
  PROVE  NoWay(H, d, s)
  BY DEF NoWay, Below, Fewer

LEMMA NoLoop ==
  ASSUME NEW G, Acyclic(G), NEW d \in Slot
  PROVE  d \notin Sources(G, d)
  <1>1. PICK n \in {d} : Sources(G, n) \cap {d} = {}
    BY DEF Acyclic
  <1> QED
    BY <1>1

\* A connection to what cannot be heard in s closes no cycle.
LEMMA AcyclicPlugged ==
  ASSUME NEW G, Acyclic(G), NEW d \in Slot, NEW s, NoWay(G, d, s), NEW H,
         \A x \in Slot : Sources(H, x) \subseteq IF x = d THEN Sources(G, d) \cup {s} ELSE Sources(G, x)
  PROVE  Acyclic(H)
  <1>1. PICK D \in SUBSET Slot : d \in D /\ s \notin D /\ Below(G, D)
    BY DEF NoWay
  <1> SUFFICES ASSUME NEW X \in SUBSET Slot, X # {} PROVE \E n \in X : Sources(H, n) \cap X = {}
    BY DEF Acyclic
  <1>2. CASE X \subseteq D
    <2>1. PICK n \in X : Sources(G, n) \cap X = {}
      BY DEF Acyclic
    <2>2. Sources(H, n) \subseteq Sources(G, n) \cup {s} /\ s \notin X
      BY <1>1, <1>2
    <2> QED
      BY <2>1, <2>2
  <1>3. CASE ~(X \subseteq D)
    <2>1. X \ D \in SUBSET Slot /\ X \ D # {}
      BY <1>3
    <2>2. PICK n \in X \ D : Sources(G, n) \cap (X \ D) = {}
      BY <2>1 DEF Acyclic
    <2>3. Sources(G, n) \cap D = {} /\ n # d
      BY <1>1, <2>2 DEF Below
    <2>4. Sources(H, n) \subseteq Sources(G, n)
      BY <2>2, <2>3
    <2> QED
      BY <2>2, <2>3, <2>4
  <1> QED
    BY <1>2, <1>3

\* What n feeds, directly or not, itself included.
Down(G, n) == {x \in Slot : \A D \in SUBSET Slot : n \in D /\ Below(G, D) => x \in D}

LEMMA DownIs ==
  ASSUME NEW G, NEW n \in Slot
  PROVE  /\ Down(G, n) \in SUBSET Slot /\ n \in Down(G, n) /\ Below(G, Down(G, n))
         /\ \A D \in SUBSET Slot : n \in D /\ Below(G, D) => Down(G, n) \subseteq D
  BY DEF Down, Below

LEMMA NotBelow ==
  ASSUME NEW G, Acyclic(G), NEW d \in Slot, NEW s \in Sources(G, d)
  PROVE  s \notin Down(G, d)
  <1> SUFFICES ASSUME s \in Down(G, d) PROVE FALSE
    OBVIOUS
  <1> DEFINE X == Down(G, d)
  <1>1. /\ X \in SUBSET Slot /\ d \in X /\ Below(G, X) /\ s \in X
        /\ \A D \in SUBSET Slot : d \in D /\ Below(G, D) => X \subseteq D
    BY DownIs
  <1> HIDE DEF X
  <1>2. PICK n \in X : Sources(G, n) \cap X = {}
    BY <1>1 DEF Acyclic
  <1>3. n # d
    BY <1>1, <1>2
  <1>4. Below(G, X \ {n})
    BY <1>1, <1>2 DEF Below
  <1> QED
    BY <1>1, <1>3, <1>4

\* What has no source and feeds nothing is below nothing but itself.
LEMMA NotAmong ==
  ASSUME NEW G, NEW d \in Slot, NEW n \in Slot, n # d, Sources(G, n) = {}
  PROVE  n \notin Down(G, d)
  <1> DEFINE D == Down(G, d) \ {n}
  <1>1. /\ Down(G, d) \in SUBSET Slot /\ d \in Down(G, d) /\ Below(G, Down(G, d))
        /\ \A E \in SUBSET Slot : d \in E /\ Below(G, E) => Down(G, d) \subseteq E
    BY DownIs
  <1>2. d \in D /\ D \in SUBSET Slot /\ Below(G, D)
    BY <1>1 DEF Below
  <1> HIDE DEF D
  <1>3. Down(G, d) \subseteq D
    BY <1>1, <1>2
  <1> QED
    BY <1>3 DEF D

\* A refused connection closes a cycle, and every one that would is refused: the successors
\* that the check follows take in all connections.
LEMMA CheckedNoWay ==
  ASSUME NEW G \in Graph, Covered(G, Nobody), NEW s, NEW d \in Slot, ~WouldCreateCycle(G, s, d)
  PROVE  s \notin Down(G, d)
  <1> DEFINE U == Downstream(G, d)
  <1>1. U \in SUBSET Slot /\ d \in U /\ \A m \in U : G.node[m].succ \subseteq U
    BY DownstreamIs
  <1>2. s \notin U
    BY DEF WouldCreateCycle
  <1> HIDE DEF U
  <1>3. Below(G, U)
    <2> SUFFICES ASSUME NEW x \in Slot, NEW t \in Sources(G, x), t \in U PROVE x \in U
      BY DEF Below
    <2>1. x \in G.node[t].succ
      BY Constants0 DEF Covered
    <2> QED
      BY <1>1, <2>1
  <1> QED
    BY <1>1, <1>2, <1>3, DownIs

-----------------------------------------------------------------------------
(* Nodes that are not there, SUMs and the inputs they stand before.         *)

\* Steps that leave the number of ports as it is.
Alike(G, H) ==
    /\ \A x \in Slot : /\ Len(H.node[x].ins) = Len(G.node[x].ins) /\ Len(H.node[x].fan) = Len(G.node[x].fan)
                       /\ Len(H.node[x].outs) = Len(G.node[x].outs)
    /\ \A x \in Sums : H.node[x].fan = G.node[x].fan
    /\ KeepsRest(G, H)

LEMMA SameInterval ==
  ASSUME NEW a \in Nat, NEW b \in Nat, 1..a = 1..b
  PROVE  a = b
  <1>1. a <= b
    <2>1. a = 0 \/ a \in 1..a
      OBVIOUS
    <2> QED
      BY <2>1
  <1>2. b <= a
    <2>1. b = 0 \/ b \in 1..b
      OBVIOUS
    <2> QED
      BY <2>1
  <1> QED
    BY <1>1, <1>2

LEMMA EmptyIs ==
  ASSUME NEW G \in Graph, NEW n \in Slot
  PROVE  /\ G.node[n].ins = <<>> <=> Len(G.node[n].ins) = 0
         /\ G.node[n].outs = <<>> <=> Len(G.node[n].outs) = 0
         /\ Live(G, n) <=> Len(G.node[n].ins) # 0 \/ Len(G.node[n].outs) # 0
  <1>1. \A S : \A q \in Seq(S) : q = <<>> <=> Len(q) = 0
    OBVIOUS
  <1> QED
    BY <1>1, NodeOf DEF Live

LEMMA AlikeDomains ==
  ASSUME NEW G \in Graph, NEW H \in Graph, Alike(G, H), NEW x \in Slot
  PROVE  /\ DOMAIN H.node[x].ins = DOMAIN G.node[x].ins /\ DOMAIN H.node[x].fan = DOMAIN G.node[x].fan
         /\ DOMAIN H.node[x].outs = DOMAIN G.node[x].outs /\ (Live(H, x) <=> Live(G, x))
  BY PortsOf, EmptyIs DEF Alike

LEMMA AlikeShapes ==
  ASSUME NEW G \in Graph, NEW H \in Graph, Alike(G, H), Shapes(G)
  PROVE  Shapes(H)
  <1>1. \A n \in User : Len(H.node[n].fan) = Len(H.node[n].ins)
    BY Constants0 DEF Shapes, Alike
  <1>2. ASSUME NEW n \in Sums
        PROVE  /\ \A p \in DOMAIN H.node[n].fan : H.node[n].fan[p] = Nobody
               /\ Len(H.node[n].outs) <= 1
               /\ Live(H, n) => Len(H.node[n].fan) = 2 /\ Len(H.node[n].outs) = 1
    <2>1. n \in Slot
      BY Constants0
    <2>2. H.node[n].fan = G.node[n].fan /\ Len(H.node[n].outs) = Len(G.node[n].outs)
      BY <2>1 DEF Alike
    <2>3. Live(H, n) <=> Live(G, n)
      BY <2>1, AlikeDomains
    <2> QED
      BY <2>2, <2>3 DEF Shapes
  <1> QED
    BY <1>1, <1>2 DEF Shapes

\* A node that was never added stays out of it.
LEMMA UnbornKept ==
  ASSUME NEW G \in Graph, NEW H \in Graph, Alike(G, H), Unborn(G),
         \A x \in Slot \ Given(G) : /\ H.node[x].succ = {} /\ H.node[x].indeg = 0
                                    /\ \A s \in Slot : x \notin H.node[s].succ
  PROVE  Unborn(H)
  <1>1. Given(H) = Given(G)
    BY DEF Given, Alike, KeepsRest
  <1>2. \A x \in Slot \ Given(G) : H.node[x].ins = <<>> /\ H.node[x].outs = <<>>
    <2> SUFFICES ASSUME NEW x \in Slot \ Given(G) PROVE H.node[x].ins = <<>> /\ H.node[x].outs = <<>>
      OBVIOUS
    <2>1. Len(G.node[x].ins) = 0 /\ Len(G.node[x].outs) = 0
      BY EmptyIs DEF Unborn
    <2> QED
      BY <2>1, EmptyIs DEF Alike
  <1> QED
    BY <1>1, <1>2 DEF Unborn

LEMMA UnbornLinks ==
  ASSUME NEW G \in Graph, Unborn(G), NEW H,
         \/ KeepsLinks(G, H)
         \/ \E s, d \in Given(G) : Linked(G, H, s, d)
         \/ \E s, d \in Given(G) : Unlinked(G, H, s, d)
  PROVE  \A x \in Slot \ Given(G) : /\ H.node[x].succ = {} /\ H.node[x].indeg = 0
                                    /\ \A s \in Slot : x \notin H.node[s].succ
  <1>1. \A x \in Slot \ Given(G) : /\ G.node[x].succ = {} /\ G.node[x].indeg = 0
                                   /\ \A s \in Slot : x \notin G.node[s].succ
    BY DEF Unborn
  <1>2. CASE KeepsLinks(G, H)
    BY <1>1, <1>2 DEF KeepsLinks
  <1>3. CASE \E s, d \in Given(G) : Linked(G, H, s, d)
    <2>1. PICK s \in Given(G), d \in Given(G) : Linked(G, H, s, d)
      BY <1>3
    <2> SUFFICES ASSUME NEW x \in Slot \ Given(G)
                 PROVE  H.node[x].succ = {} /\ H.node[x].indeg = 0 /\ \A t \in Slot : x \notin H.node[t].succ
      OBVIOUS
    <2>2. x # s /\ x # d
      OBVIOUS
    <2>3. H.node[x].succ = {} /\ H.node[x].indeg = 0
      BY <1>1, <2>1, <2>2 DEF Linked
    <2>4. ASSUME NEW t \in Slot PROVE x \notin H.node[t].succ
      <3>1. x \notin G.node[t].succ
        BY <1>1
      <3>2. H.node[t].succ = IF t = s THEN G.node[t].succ \cup {d} ELSE G.node[t].succ
        BY <2>1 DEF Linked
      <3> QED
        BY <2>2, <3>1, <3>2
    <2> QED
      BY <2>3, <2>4
  <1>4. CASE \E s, d \in Given(G) : Unlinked(G, H, s, d)
    <2>1. PICK s \in Given(G), d \in Given(G) : Unlinked(G, H, s, d)
      BY <1>4
    <2> SUFFICES ASSUME NEW x \in Slot \ Given(G)
                 PROVE  H.node[x].succ = {} /\ H.node[x].indeg = 0 /\ \A t \in Slot : x \notin H.node[t].succ
      OBVIOUS
    <2>2. x # s /\ x # d
      OBVIOUS
    <2>3. H.node[x].succ = {} /\ H.node[x].indeg = 0
      BY <1>1, <2>1, <2>2 DEF Unlinked
    <2>4. \A t \in Slot : x \notin H.node[t].succ
      BY <1>1, <2>1, <2>2, ZenonT(40) DEF Unlinked
    <2> QED
      BY <2>3, <2>4
  <1> QED
    BY <1>2, <1>3, <1>4

\* No SUM gets in front of an input.
FanFewer(G, H) ==
    \A d \in Slot : \A p \in DOMAIN H.node[d].fan : H.node[d].fan[p] # Nobody =>
        p \in DOMAIN G.node[d].fan /\ G.node[d].fan[p] = H.node[d].fan[p]

LEMMA FanKept ==
  ASSUME NEW G, NEW H, KeepsFan(G, H)
  PROVE  FanFewer(G, H)
  BY DEF KeepsFan, FanFewer

LEMMA KeptFewer ==
  ASSUME NEW G, NEW H, FanFewer(G, H)
  PROVE  Kept(H) \subseteq Kept(G) /\ Kept(G) \subseteq Slot
  <1>1. ASSUME NEW sum \in Sums, IsHosted(H, sum) PROVE IsHosted(G, sum)
    <2>1. PICK d \in User : \E p \in DOMAIN H.node[d].fan : H.node[d].fan[p] = sum
      BY <1>1 DEF IsHosted
    <2>2. PICK p \in DOMAIN H.node[d].fan : H.node[d].fan[p] = sum
      BY <2>1
    <2>3. d \in Slot /\ sum # Nobody
      BY Constants0
    <2>4. p \in DOMAIN G.node[d].fan /\ G.node[d].fan[p] = sum
      BY <2>2, <2>3 DEF FanFewer
    <2> QED
      BY <2>4 DEF IsHosted
  <1> QED
    BY <1>1, Constants0 DEF Kept

LEMMA HostedKept ==
  ASSUME NEW G \in Graph, NEW H \in Graph, Alike(G, H), Hosted(G), FanFewer(G, H),
         \A d \in User : \A sum \in Sums : \A p \in DOMAIN H.node[d].fan : H.node[d].fan[p] = sum =>
            /\ H.node[d].ins[p] = G.node[d].ins[p] /\ H.node[sum].outs[1] = G.node[sum].outs[1]
            /\ d \notin Sources(G, sum) => d \notin Sources(H, sum)
  PROVE  Hosted(H)
  <1> SUFFICES ASSUME NEW d \in User, NEW sum \in Sums, NEW p \in DOMAIN H.node[d].fan, H.node[d].fan[p] = sum
               PROVE  /\ sum < H.next /\ Live(H, sum)
                      /\ H.node[d].ins[p] # Silent /\ H.node[d].ins[p] = H.node[sum].outs[1]
                      /\ d \notin Sources(H, sum)
    BY DEF Hosted
  <1>0. d \in Slot /\ sum \in Slot /\ sum # Nobody
    BY Constants0
  <1>1. p \in DOMAIN G.node[d].fan /\ G.node[d].fan[p] = sum
    BY <1>0 DEF FanFewer
  <1>2. /\ sum < G.next /\ Live(G, sum)
        /\ G.node[d].ins[p] # Silent /\ G.node[d].ins[p] = G.node[sum].outs[1]
        /\ d \notin Sources(G, sum)
    BY <1>1 DEF Hosted
  <1>3. H.next = G.next /\ Live(H, sum)
    BY <1>0, <1>2, AlikeDomains DEF Alike, KeepsRest
  <1> QED
    BY <1>2, <1>3

LEMMA OneHostKept ==
  ASSUME NEW G, NEW H, OneHost(G), FanFewer(G, H)
  PROVE  OneHost(H)
  <1>1. \A d \in User : \A p \in DOMAIN H.node[d].fan : \A sum \in Sums : H.node[d].fan[p] = sum =>
            p \in DOMAIN G.node[d].fan /\ G.node[d].fan[p] = sum
    BY Constants0 DEF FanFewer
  <1> QED
    BY <1>1 DEF OneHost

\* What no input reads may change: a port is given an edge, or loses one without readers.
Unheard(G, H) ==
    /\ KeepsIns(G, H) /\ KeepsFan(G, H) /\ KeepsLinks(G, H) /\ KeepsRest(G, H) /\ KeepsSrc(G, H)
    /\ \A x \in Slot : Len(H.node[x].outs) = Len(G.node[x].outs)
    /\ \A x \in Slot : \A q \in DOMAIN G.node[x].outs : \A e \in EdgeId :
            G.node[x].outs[q] = e /\ ReadersOf(G, e) # {} => H.node[x].outs[q] = e

LEMMA SumsPort ==
  ASSUME NEW G, Leaving(G, Nobody) \/ (G \in Graph /\ Shapes(G)), NEW sum \in Sums, Live(G, sum)
  PROVE  1 \in DOMAIN G.node[sum].outs /\ DOMAIN G.node[sum].outs = {1}
  <1>1. G \in Graph /\ Shapes(G)
    BY DEF Leaving, Wired
  <1>2. Len(G.node[sum].outs) = 1
    BY <1>1 DEF Shapes
  <1>3. DOMAIN G.node[sum].outs = 1..1
    BY <1>1, <1>2, Constants0, PortsOf
  <1> QED
    BY <1>3

LEMMA UnheardKeeps ==
  ASSUME NEW G, NEW n, Leaving(G, n), NEW H, Wired(H), Unheard(G, H)
  PROVE  Leaving(H, n)
  <1>1. /\ Wired(G) /\ Unborn(G) /\ Shapes(G) /\ Hosted(G) /\ OneHost(G) /\ ForHosts(G) /\ Acyclic(G)
        /\ Covered(G, n) /\ \A d \in Kept(G) : Exact(G, n, d)
    BY DEF Leaving
  <1>2. G \in Graph /\ H \in Graph
    BY <1>1 DEF Wired
  <1>3. /\ KeepsIns(G, H) /\ KeepsFan(G, H) /\ KeepsLinks(G, H) /\ KeepsRest(G, H) /\ KeepsSrc(G, H)
        /\ FanFewer(G, H)
    BY FanKept DEF Unheard
  <1>4. Alike(G, H)
    BY <1>3, Constants0 DEF Unheard, Alike, KeepsIns, KeepsFan
  <1>5. \A x \in Slot : Sources(H, x) = Sources(G, x)
    BY <1>2, <1>3, SourcesKept
  <1>6. Unborn(H) /\ Shapes(H)
    BY <1>1, <1>2, <1>3, <1>4, UnbornKept, UnbornLinks, AlikeShapes
  <1>7. Hosted(H)
    <2> SUFFICES ASSUME NEW d \in User, NEW sum \in Sums, NEW p \in DOMAIN H.node[d].fan, H.node[d].fan[p] = sum
                 PROVE  /\ H.node[d].ins[p] = G.node[d].ins[p] /\ H.node[sum].outs[1] = G.node[sum].outs[1]
                        /\ Sources(H, sum) = Sources(G, sum)
      BY <1>1, <1>2, <1>3, <1>4, HostedKept
    <2>0. d \in Slot /\ sum \in Slot
      BY Constants0
    <2>1. G.node[d].fan[p] = sum /\ p \in DOMAIN G.node[d].fan
      BY <1>3, <2>0 DEF KeepsFan
    <2>2. G.node[d].ins[p] # Silent /\ G.node[d].ins[p] = G.node[sum].outs[1] /\ Live(G, sum)
      BY <1>1, <2>1 DEF Hosted
    <2>3. p \in DOMAIN G.node[d].ins
      BY <1>1, <1>2, <2>0, <2>1, PortsOf DEF Shapes
    <2>4. G.node[d].ins[p] \in EdgeId
      BY <1>2, <2>0, <2>2, <2>3, PortsOf
    <2>5. <<d, p>> \in ReadersOf(G, G.node[d].ins[p])
      BY <2>0, <2>3, ReadersAre
    <2>6. 1 \in DOMAIN G.node[sum].outs
      BY <1>1, <1>2, <2>2, SumsPort
    <2>7. H.node[sum].outs[1] = G.node[sum].outs[1]
      BY <2>0, <2>2, <2>4, <2>5, <2>6 DEF Unheard
    <2> QED
      BY <1>3, <1>5, <2>0, <2>7 DEF KeepsIns
  <1>8. OneHost(H)
    BY <1>1, <1>3, OneHostKept
  <1>9. ForHosts(H)
    <2> SUFFICES ASSUME NEW d \in Slot, NEW p \in DOMAIN H.node[d].ins, NEW e \in EdgeId, H.node[d].ins[p] = e,
                        H.edge[e].src \in Sums
                 PROVE  p \in DOMAIN H.node[d].fan /\ H.node[d].fan[p] = H.edge[e].src
      BY DEF ForHosts
    <2>1. p \in DOMAIN G.node[d].ins /\ G.node[d].ins[p] = e
      BY <1>3 DEF KeepsIns
    <2>2. <<d, p>> \in ReadersOf(G, e)
      BY <2>1, ReadersAre
    <2>3. H.edge[e].src = G.edge[e].src
      BY <1>3, <2>2 DEF KeepsSrc
    <2>4. p \in DOMAIN G.node[d].fan /\ G.node[d].fan[p] = G.edge[e].src
      BY <1>1, <2>1, <2>3 DEF ForHosts
    <2> QED
      BY <1>3, <2>3, <2>4 DEF KeepsFan
  <1>10. Acyclic(H)
    BY <1>1, <1>5, AcyclicFewer DEF Fewer
  <1>11. Covered(H, n)
    <2> SUFFICES ASSUME NEW d \in Slot \ {n}, NEW s \in Sources(G, d) PROVE d \in H.node[s].succ
      BY <1>5 DEF Covered
    <2>1. s \in Slot /\ d \in G.node[s].succ
      BY <1>1, <1>2, SourcesInSlot DEF Covered
    <2> QED
      BY <1>3, <2>1 DEF KeepsLinks
  <1>12. \A d \in Kept(H) : Exact(H, n, d)
    BY <1>1, <1>3, <1>5, KeptFewer, ExactKept
  <1> QED
    BY <1>6, <1>7, <1>8, <1>9, <1>10, <1>11, <1>12 DEF Leaving

-----------------------------------------------------------------------------
(* A connection is plugged in.                                              *)

\* Input d.p reads the edge e of s, and the links follow.
Plugged(G, H, e, s, d, p) ==
    /\ InsAre(G, H, d, p, e) /\ RefIs(G, H, e, G.edge[e].ref + 1) /\ Linked(G, H, s, d)
    /\ KeepsOuts(G, H) /\ H.free = G.free /\ KeepsRest(G, H)

LEMMA PlugIs ==
  ASSUME NEW G \in Graph, NEW e \in EdgeId, NEW s \in Slot, NEW d \in Slot, NEW p \in DOMAIN G.node[d].ins
  PROVE  LET H == Plug(G, e, s, d, p)
         IN  H \in Graph /\ Plugged(G, H, e, s, d, p) /\ KeepsFan(G, H) /\ H.watch = G.watch
  <1> DEFINE F == Read(G, e, d, p)
             H == Link(F, s, d)
  <1>1. Plug(G, e, s, d, p) = H
    BY DEF Plug
  <1>2. /\ F \in Graph /\ InsAre(G, F, d, p, e) /\ RefIs(G, F, e, G.edge[e].ref + 1) /\ F.free = G.free
        /\ KeepsFan(G, F) /\ KeepsOuts(G, F) /\ KeepsLinks(G, F) /\ KeepsRest(G, F) /\ F.watch = G.watch
    BY ReadIs
  <1> HIDE DEF F
  <1>3. /\ H \in Graph /\ Linked(F, H, s, d)
        /\ KeepsIns(F, H) /\ KeepsFan(F, H) /\ KeepsOuts(F, H) /\ KeepsEdges(F, H) /\ KeepsRest(F, H)
        /\ H.watch = F.watch
    BY <1>2, LinkIs
  <1> HIDE DEF H
  <1>4. InsAre(G, H, d, p, e) /\ KeepsFan(G, H) /\ KeepsOuts(G, H)
    BY <1>2, <1>3 DEF InsAre, KeepsIns, KeepsFan, KeepsOuts
  <1>5. RefIs(G, H, e, G.edge[e].ref + 1) /\ H.free = G.free /\ KeepsRest(G, H) /\ H.watch = G.watch
    BY <1>2, <1>3 DEF RefIs, KeepsEdges, KeepsRest
  <1>6. Linked(G, H, s, d)
    BY <1>2, <1>3 DEF Linked, KeepsLinks
  <1> QED
    BY <1>1, <1>3, <1>4, <1>5, <1>6 DEF Plugged

LEMMA PluggedWired ==
  ASSUME NEW G, Wired(G), NEW H \in Graph, NEW e \in EdgeId, NEW s, NEW d \in Slot, NEW p \in DOMAIN G.node[d].ins,
         Plugged(G, H, e, s, d, p), Written(G, e)
  PROVE  Wired(H)
  BY WiredRead DEF Plugged, KeepsRest

\* What a plug keeps, wherever it goes.
LEMMA PluggedKeeps ==
  ASSUME NEW G, Sound(G), NEW H \in Graph, NEW e \in EdgeId, NEW s \in Slot, NEW d \in Slot,
         NEW p \in DOMAIN G.node[d].ins, Plugged(G, H, e, s, d, p), Written(G, e), G.edge[e].src = s, s # d,
         G.node[d].ins[p] = Silent, NoWay(G, d, s)
  PROVE  /\ Wired(H) /\ Acyclic(H) /\ Covered(H, Nobody)
         /\ \A x \in Slot : Exact(G, Nobody, x) => Exact(H, Nobody, x)
         /\ \A x \in Slot \ Given(G) : /\ H.node[x].succ = {} /\ H.node[x].indeg = 0
                                       /\ \A t \in Slot : x \notin H.node[t].succ
         /\ \A x \in Slot : Sources(H, x) = IF x = d THEN Sources(G, d) \cup {s} ELSE Sources(G, x)
         /\ \A x \in Slot : /\ DOMAIN H.node[x].ins = DOMAIN G.node[x].ins /\ Len(H.node[x].ins) = Len(G.node[x].ins)
                            /\ \A q \in DOMAIN G.node[x].ins :
                                  H.node[x].ins[q] = IF x = d /\ q = p THEN e ELSE G.node[x].ins[q]
  <1>1. Wired(G) /\ Unborn(G) /\ Acyclic(G) /\ Covered(G, Nobody) /\ G \in Graph
    BY DEF Sound, Leaving, Wired
  <1>2. /\ InsAre(G, H, d, p, e) /\ RefIs(G, H, e, G.edge[e].ref + 1) /\ Linked(G, H, s, d)
    BY DEF Plugged
  <1>3. \A f \in EdgeId : H.edge[f].src = G.edge[f].src
    BY <1>2 DEF RefIs
  <1>4. \A x \in Slot : Sources(H, x) = IF x = d THEN Sources(G, d) \cup {s} ELSE Sources(G, x)
    BY <1>1, <1>2, <1>3, SourcesPlugged
  <1>5. Wired(H)
    BY <1>1, PluggedWired
  <1>6. Acyclic(H)
    BY <1>1, <1>4, AcyclicPlugged
  <1>7. Covered(H, Nobody)
    BY <1>1, <1>2, <1>4, CoveredLinked
  <1>8. \A x \in Slot : Exact(G, Nobody, x) => Exact(H, Nobody, x)
    BY <1>1, <1>2, <1>4, ExactLinked, Constants0
  <1>9. s \in Given(G) /\ d \in Given(G)
    <2>1. G.edge[e].port \in DOMAIN G.node[s].outs
      BY DEF Written
    <2> QED
      BY <1>1, <2>1, GivenIs
  <1>10. \A x \in Slot \ Given(G) : /\ H.node[x].succ = {} /\ H.node[x].indeg = 0
                                    /\ \A t \in Slot : x \notin H.node[t].succ
    BY <1>1, <1>2, <1>9, UnbornLinks
  <1>11. e \in EdgeId \cup {Silent}
    OBVIOUS
  <1>12. \A x \in Slot : /\ DOMAIN H.node[x].ins = DOMAIN G.node[x].ins /\ Len(H.node[x].ins) = Len(G.node[x].ins)
                         /\ \A q \in DOMAIN G.node[x].ins :
                               H.node[x].ins[q] = IF x = d /\ q = p THEN e ELSE G.node[x].ins[q]
    BY <1>1, <1>2, <1>11, InsAreAt
  <1> QED
    BY <1>4, <1>5, <1>6, <1>7, <1>8, <1>10, <1>12

\* A caller's node is plugged into a silent input.
LEMMA PluggedSound ==
  ASSUME NEW G, Sound(G), NEW H \in Graph, NEW e \in EdgeId, NEW s \in User, NEW d \in Slot,
         NEW p \in DOMAIN G.node[d].ins, Plugged(G, H, e, s, d, p), KeepsFan(G, H), Written(G, e), G.edge[e].src = s,
         s # d, G.node[d].ins[p] = Silent, \A q \in DOMAIN G.node[s].fan : G.node[s].fan[q] # d,
         NoWay(G, d, s)
  PROVE  Sound(H)
  <1>1. /\ Wired(G) /\ Unborn(G) /\ Shapes(G) /\ Hosted(G) /\ OneHost(G) /\ ForHosts(G) /\ Acyclic(G)
        /\ Covered(G, Nobody) /\ \A x \in Kept(G) : Exact(G, Nobody, x)
    BY DEF Sound, Leaving
  <1>2. G \in Graph /\ s \in Slot
    BY <1>1, Constants0 DEF Wired
  <1>3. /\ Wired(H) /\ Acyclic(H) /\ Covered(H, Nobody)
        /\ \A x \in Slot : Exact(G, Nobody, x) => Exact(H, Nobody, x)
        /\ \A x \in Slot \ Given(G) : /\ H.node[x].succ = {} /\ H.node[x].indeg = 0
                                      /\ \A t \in Slot : x \notin H.node[t].succ
        /\ \A x \in Slot : Sources(H, x) = IF x = d THEN Sources(G, d) \cup {s} ELSE Sources(G, x)
        /\ \A x \in Slot : /\ DOMAIN H.node[x].ins = DOMAIN G.node[x].ins /\ Len(H.node[x].ins) = Len(G.node[x].ins)
                           /\ \A q \in DOMAIN G.node[x].ins :
                                 H.node[x].ins[q] = IF x = d /\ q = p THEN e ELSE G.node[x].ins[q]
    BY <1>2, PluggedKeeps
  <1>4. FanFewer(G, H) /\ KeepsOuts(G, H) /\ KeepsRest(G, H)
    BY FanKept DEF Plugged
  <1>5. Alike(G, H)
    BY <1>3, <1>4, Constants0 DEF Alike, KeepsFan, KeepsOuts
  <1>6. Unborn(H) /\ Shapes(H)
    BY <1>1, <1>2, <1>3, <1>5, UnbornKept, AlikeShapes
  <1>7. Hosted(H)
    <2> SUFFICES ASSUME NEW x \in User, NEW sum \in Sums, NEW q \in DOMAIN H.node[x].fan, H.node[x].fan[q] = sum
                 PROVE  /\ H.node[x].ins[q] = G.node[x].ins[q] /\ H.node[sum].outs[1] = G.node[sum].outs[1]
                        /\ x \notin Sources(G, sum) => x \notin Sources(H, sum)
      BY <1>1, <1>2, <1>4, <1>5, HostedKept
    <2>0. x \in Slot /\ sum \in Slot
      BY Constants0
    <2>1. G.node[x].fan[q] = sum /\ q \in DOMAIN G.node[x].fan
      BY <2>0 DEF KeepsFan
    <2>2. G.node[x].ins[q] # Silent
      BY <1>1, <2>1 DEF Hosted
    <2>3. q \in DOMAIN G.node[x].ins
      BY <1>1, <1>2, <2>0, <2>1, PortsOf DEF Shapes
    <2>4. H.node[x].ins[q] = G.node[x].ins[q]
      BY <1>3, <2>0, <2>2, <2>3
    <2>5. x = s => sum # d
      BY <2>1
    <2>6. x \notin Sources(G, sum) => x \notin Sources(H, sum)
      BY <1>3, <2>0, <2>5
    <2> QED
      BY <1>4, <2>0, <2>4, <2>6 DEF KeepsOuts
  <1>8. OneHost(H)
    BY <1>1, <1>4, OneHostKept
  <1>9. ForHosts(H)
    <2> SUFFICES ASSUME NEW x \in Slot, NEW q \in DOMAIN H.node[x].ins, NEW f \in EdgeId, H.node[x].ins[q] = f,
                        H.edge[f].src \in Sums
                 PROVE  q \in DOMAIN H.node[x].fan /\ H.node[x].fan[q] = H.edge[f].src
      BY DEF ForHosts
    <2>1. H.edge[f].src = G.edge[f].src
      BY DEF Plugged, RefIs
    <2>2. q \in DOMAIN G.node[x].ins /\ f = IF x = d /\ q = p THEN e ELSE G.node[x].ins[q]
      BY <1>3
    <2>3. ~(x = d /\ q = p)
      BY <2>1, <2>2, Constants0
    <2>4. G.node[x].ins[q] = f
      BY <2>2, <2>3
    <2>5. q \in DOMAIN G.node[x].fan /\ G.node[x].fan[q] = G.edge[f].src
      BY <1>1, <2>1, <2>2, <2>4, Zenon DEF ForHosts
    <2> QED
      BY <2>1, <2>5 DEF KeepsFan
  <1>10. \A x \in Kept(H) : Exact(H, Nobody, x)
    BY <1>1, <1>3, <1>4, KeptFewer
  <1> QED
    BY <1>3, <1>6, <1>7, <1>8, <1>9, <1>10 DEF Sound, Leaving

\* SUM feeds d.p alone: the SUM stands in front of that input from now on.
FanIs(G, H, d, p, n) ==
    \A x \in Slot : /\ DOMAIN H.node[x].fan = DOMAIN G.node[x].fan
                    /\ \A q \in DOMAIN G.node[x].fan :
                          H.node[x].fan[q] = IF x = d /\ q = p THEN n ELSE G.node[x].fan[q]

LEMMA HostPluggedSound ==
  ASSUME NEW G, Sound(G), NEW H \in Graph, NEW e \in EdgeId, NEW sum \in Sums, NEW d \in User,
         NEW p \in DOMAIN G.node[d].ins, Plugged(G, H, e, sum, d, p), FanIs(G, H, d, p, sum), Written(G, e),
         G.edge[e].src = sum, G.node[d].ins[p] = Silent, G.node[sum].outs[1] = e, Live(G, sum), sum < G.next,
         ~IsHosted(G, sum), d \notin Sources(G, sum), Exact(G, Nobody, sum), NoWay(G, d, sum)
  PROVE  Sound(H)
  <1>1. /\ Wired(G) /\ Unborn(G) /\ Shapes(G) /\ Hosted(G) /\ OneHost(G) /\ ForHosts(G) /\ Acyclic(G)
        /\ Covered(G, Nobody) /\ \A x \in Kept(G) : Exact(G, Nobody, x)
    BY DEF Sound, Leaving
  <1>2. G \in Graph /\ sum \in Slot /\ d \in Slot /\ sum # d /\ sum # Nobody
    BY <1>1, Constants0 DEF Wired
  <1>3. /\ Wired(H) /\ Acyclic(H) /\ Covered(H, Nobody)
        /\ \A x \in Slot : Exact(G, Nobody, x) => Exact(H, Nobody, x)
        /\ \A x \in Slot \ Given(G) : /\ H.node[x].succ = {} /\ H.node[x].indeg = 0
                                      /\ \A t \in Slot : x \notin H.node[t].succ
        /\ \A x \in Slot : Sources(H, x) = IF x = d THEN Sources(G, d) \cup {sum} ELSE Sources(G, x)
        /\ \A x \in Slot : /\ DOMAIN H.node[x].ins = DOMAIN G.node[x].ins /\ Len(H.node[x].ins) = Len(G.node[x].ins)
                           /\ \A q \in DOMAIN G.node[x].ins :
                                 H.node[x].ins[q] = IF x = d /\ q = p THEN e ELSE G.node[x].ins[q]
    BY <1>2, PluggedKeeps
  <1>4. KeepsOuts(G, H) /\ KeepsRest(G, H)
    BY DEF Plugged
  <1>5. Alike(G, H)
    <2>1. \A x \in Slot : Len(H.node[x].fan) = Len(G.node[x].fan)
      <3> SUFFICES ASSUME NEW x \in Slot PROVE Len(H.node[x].fan) = Len(G.node[x].fan)
        OBVIOUS
      <3>1. DOMAIN H.node[x].fan = DOMAIN G.node[x].fan
        BY DEF FanIs
      <3>2. /\ Len(H.node[x].fan) \in Nat /\ DOMAIN H.node[x].fan = 1..Len(H.node[x].fan)
            /\ Len(G.node[x].fan) \in Nat /\ DOMAIN G.node[x].fan = 1..Len(G.node[x].fan)
        BY <1>2, PortsOf
      <3> QED
        BY <3>1, <3>2, SameInterval
    <2>2. ASSUME NEW x \in Sums PROVE H.node[x].fan = G.node[x].fan
      <3>1. x \in Slot /\ x # d
        BY Constants0
      <3>2. H.node[x].fan \in Seq(Sums \cup {Nobody}) /\ G.node[x].fan \in Seq(Sums \cup {Nobody})
        BY <1>2, <3>1, NodeOf
      <3>3. DOMAIN H.node[x].fan = DOMAIN G.node[x].fan /\ \A q \in DOMAIN G.node[x].fan : H.node[x].fan[q] = G.node[x].fan[q]
        BY <3>1 DEF FanIs
      <3> QED
        BY <3>2, <3>3
    <2> QED
      BY <1>3, <1>4, <2>1, <2>2 DEF Alike, KeepsOuts
  <1>6. Unborn(H) /\ Shapes(H)
    BY <1>1, <1>2, <1>3, <1>5, UnbornKept, AlikeShapes
  <1>7. \A x \in User : \A q \in DOMAIN H.node[x].fan : \A t \in Sums : H.node[x].fan[q] = t =>
            /\ q \in DOMAIN G.node[x].fan
            /\ \/ x = d /\ q = p /\ t = sum
               \/ G.node[x].fan[q] = t /\ t # sum /\ ~(x = d /\ q = p)
    <2> SUFFICES ASSUME NEW x \in User, NEW q \in DOMAIN H.node[x].fan, NEW t \in Sums, H.node[x].fan[q] = t
                 PROVE  /\ q \in DOMAIN G.node[x].fan
                        /\ \/ x = d /\ q = p /\ t = sum
                           \/ G.node[x].fan[q] = t /\ t # sum /\ ~(x = d /\ q = p)
      OBVIOUS
    <2>1. q \in DOMAIN G.node[x].fan /\ t = IF x = d /\ q = p THEN sum ELSE G.node[x].fan[q]
      BY Constants0 DEF FanIs
    <2> QED
      BY <2>1 DEF IsHosted
  <1>8. Hosted(H)
    <2> SUFFICES ASSUME NEW x \in User, NEW t \in Sums, NEW q \in DOMAIN H.node[x].fan, H.node[x].fan[q] = t
                 PROVE  /\ t < H.next /\ Live(H, t)
                        /\ H.node[x].ins[q] # Silent /\ H.node[x].ins[q] = H.node[t].outs[1]
                        /\ x \notin Sources(H, t)
      BY DEF Hosted
    <2>0. x \in Slot /\ t \in Slot /\ t # d
      BY Constants0
    <2>1. H.next = G.next /\ (Live(H, t) <=> Live(G, t)) /\ Sources(H, t) = Sources(G, t) /\ H.node[t].outs = G.node[t].outs
      BY <1>2, <1>3, <1>4, <1>5, <2>0, AlikeDomains DEF KeepsRest, KeepsOuts
    <2>2. CASE x = d /\ q = p /\ t = sum
      <3>1. H.node[x].ins[q] = e /\ e # Silent
        BY <1>3, <2>2, Constants0
      <3> QED
        BY <2>1, <2>2, <3>1
    <2>3. CASE q \in DOMAIN G.node[x].fan /\ G.node[x].fan[q] = t /\ t # sum /\ ~(x = d /\ q = p)
      <3>1. /\ t < G.next /\ Live(G, t)
            /\ G.node[x].ins[q] # Silent /\ G.node[x].ins[q] = G.node[t].outs[1]
            /\ x \notin Sources(G, t)
        BY <1>1, <2>3 DEF Hosted
      <3>2. q \in DOMAIN G.node[x].ins
        BY <1>1, <1>2, <2>0, <2>3, PortsOf DEF Shapes
      <3>3. H.node[x].ins[q] = G.node[x].ins[q]
        BY <1>3, <2>0, <2>3, <3>2
      <3> QED
        BY <2>1, <3>1, <3>3
    <2> QED
      BY <1>7, <2>2, <2>3
  <1>9. OneHost(H)
    BY <1>1, <1>7 DEF OneHost
  <1>10. ForHosts(H)
    <2> SUFFICES ASSUME NEW x \in Slot, NEW q \in DOMAIN H.node[x].ins, NEW f \in EdgeId, H.node[x].ins[q] = f,
                        H.edge[f].src \in Sums
                 PROVE  q \in DOMAIN H.node[x].fan /\ H.node[x].fan[q] = H.edge[f].src
      BY DEF ForHosts
    <2>1. H.edge[f].src = G.edge[f].src
      BY DEF Plugged, RefIs
    <2>2. q \in DOMAIN G.node[x].ins /\ f = IF x = d /\ q = p THEN e ELSE G.node[x].ins[q]
      BY <1>3
    <2>3. CASE x = d /\ q = p
      <3>1. q \in DOMAIN G.node[x].fan
        BY <1>1, <1>2, <2>2, <2>3, PortsOf DEF Shapes
      <3> QED
        BY <2>1, <2>2, <2>3, <3>1 DEF FanIs
    <2>4. CASE ~(x = d /\ q = p)
      <3>1. q \in DOMAIN G.node[x].fan /\ G.node[x].fan[q] = G.edge[f].src
        BY <1>1, <2>1, <2>2, <2>4 DEF ForHosts
      <3> QED
        BY <2>1, <2>4, <3>1 DEF FanIs
    <2> QED
      BY <2>3, <2>4
  <1>11. \A x \in Kept(H) : Exact(H, Nobody, x)
    <2>1. \A x \in Kept(H) : x \in Kept(G) \/ x = sum
      BY <1>7, Constants0 DEF Kept, IsHosted
    <2>2. Kept(G) \subseteq Slot
      BY Constants0 DEF Kept
    <2> QED
      BY <1>1, <1>2, <1>3, <2>1, <2>2
  <1> QED
    BY <1>3, <1>6, <1>8, <1>9, <1>10, <1>11 DEF Sound, Leaving

-----------------------------------------------------------------------------
(* A connection is taken out, with a node that leaves the graph.            *)

LEMMA FanIsAlike ==
  ASSUME NEW G \in Graph, NEW H \in Graph, Shapes(G), NEW d, NEW p, NEW v, FanIs(G, H, d, p, v),
         v = Nobody \/ d \in User
  PROVE  /\ \A x \in Slot : Len(H.node[x].fan) = Len(G.node[x].fan)
         /\ \A x \in Sums : H.node[x].fan = G.node[x].fan
  <1>1. ASSUME NEW x \in Slot PROVE Len(H.node[x].fan) = Len(G.node[x].fan)
    <2>1. DOMAIN H.node[x].fan = DOMAIN G.node[x].fan
      BY DEF FanIs
    <2>2. /\ Len(H.node[x].fan) \in Nat /\ DOMAIN H.node[x].fan = 1..Len(H.node[x].fan)
          /\ Len(G.node[x].fan) \in Nat /\ DOMAIN G.node[x].fan = 1..Len(G.node[x].fan)
      BY PortsOf
    <2> QED
      BY <2>1, <2>2, SameInterval
  <1>2. ASSUME NEW x \in Sums PROVE H.node[x].fan = G.node[x].fan
    <2>1. x \in Slot /\ x \notin User
      BY Constants0
    <2>2. H.node[x].fan \in Seq(Sums \cup {Nobody}) /\ G.node[x].fan \in Seq(Sums \cup {Nobody})
      BY <2>1, NodeOf
    <2>3. DOMAIN H.node[x].fan = DOMAIN G.node[x].fan
      BY <2>1 DEF FanIs
    <2>4. \A q \in DOMAIN G.node[x].fan : H.node[x].fan[q] = G.node[x].fan[q]
      BY <2>1 DEF FanIs, Shapes
    <2> QED
      BY <2>2, <2>3, <2>4
  <1> QED
    BY <1>1, <1>2

LEMMA FanIsFewer ==
  ASSUME NEW G, NEW H, NEW d, NEW p, FanIs(G, H, d, p, Nobody)
  PROVE  FanFewer(G, H)
  BY DEF FanIs, FanFewer

LEMMA FanIsNobody ==
  ASSUME NEW G, NEW H, KeepsFan(G, H), NEW d \in Slot, NEW p, p \in DOMAIN G.node[d].fan => G.node[d].fan[p] = Nobody
  PROVE  FanIs(G, H, d, p, Nobody)
  BY DEF FanIs, KeepsFan

LEMMA ReadersSilenced ==
  ASSUME NEW G \in Graph, NEW H \in Graph, NEW d \in Slot, NEW p \in DOMAIN G.node[d].ins, NEW e \in EdgeId,
         G.node[d].ins[p] = e, InsAre(G, H, d, p, Silent)
  PROVE  Cardinality(ReadersOf(H, e)) + 1 <= Cardinality(ReadersOf(G, e))
  <1>0. Silent \in EdgeId \cup {Silent} /\ Silent # e
    BY Constants0
  <1>1. \A x \in Slot : /\ DOMAIN H.node[x].ins = DOMAIN G.node[x].ins
                        /\ \A q \in DOMAIN G.node[x].ins :
                              H.node[x].ins[q] = IF x = d /\ q = p THEN Silent ELSE G.node[x].ins[q]
    BY <1>0, InsAreAt
  <1>2. ReadersOf(H, e) \subseteq ReadersOf(G, e) \ {<<d, p>>}
    <2> SUFFICES ASSUME NEW r \in ReadersOf(H, e) PROVE r \in ReadersOf(G, e) /\ r # <<d, p>>
      OBVIOUS
    <2>1. r = <<r[1], r[2]>> /\ r[1] \in Slot /\ r[2] \in DOMAIN H.node[r[1]].ins /\ H.node[r[1]].ins[r[2]] = e
      BY ReadersAre
    <2>2. ~(r[1] = d /\ r[2] = p)
      BY <1>0, <1>1, <2>1
    <2>3. r[2] \in DOMAIN G.node[r[1]].ins /\ G.node[r[1]].ins[r[2]] = e
      BY <1>1, <2>1, <2>2
    <2> QED
      BY <2>1, <2>2, <2>3, ReadersAre
  <1>3. <<d, p>> \in ReadersOf(G, e)
    BY ReadersAre
  <1>4. IsFiniteSet(ReadersOf(G, e)) /\ Cardinality(ReadersOf(G, e)) \in Nat /\ Cardinality(ReadersOf(H, e)) \in Nat
    BY ReadersFinite
  <1>5. /\ IsFiniteSet(ReadersOf(G, e) \ {<<d, p>>})
        /\ Cardinality(ReadersOf(G, e) \ {<<d, p>>}) = Cardinality(ReadersOf(G, e)) - 1
    BY <1>3, <1>4, FS_RemoveElement
  <1>6. Cardinality(ReadersOf(H, e)) <= Cardinality(ReadersOf(G, e) \ {<<d, p>>})
    BY <1>2, <1>5, FS_Subset
  <1> QED
    BY <1>4, <1>5, <1>6

LEMMA SilencedWired ==
  ASSUME NEW G, Wired(G), NEW H \in Graph, NEW d \in Slot, NEW p \in DOMAIN G.node[d].ins, NEW e \in EdgeId,
         NEW k \in Nat, InsAre(G, H, d, p, Silent), KeepsOuts(G, H), KeepsRest(G, H), H.free = G.free,
         RefIs(G, H, e, k), k >= Cardinality(ReadersOf(H, e))
  PROVE  Wired(H)
  <1> DEFINE M == SetIn(G, d, p, Silent)
  <1>0. G \in Graph /\ Silent \in EdgeId \cup {Silent}
    BY DEF Wired
  <1>1. /\ M \in Graph /\ InsAre(G, M, d, p, Silent)
        /\ KeepsFan(G, M) /\ KeepsOuts(G, M) /\ KeepsLinks(G, M) /\ KeepsEdges(G, M) /\ KeepsRest(G, M)
    BY <1>0, SetInIs
  <1> HIDE DEF M
  <1>2. Wired(M)
    <2>1. Quieter(G, M)
      BY <1>0, <1>1, SilencingIsQuieter
    <2>2. KeepsWriters(G, M)
      BY <1>1, OutsAreWriters
    <2>3. M.pool = G.pool
      BY <1>1 DEF KeepsRest
    <2> QED
      BY <1>1, <2>1, <2>2, <2>3, WiredQuieter
  <1>3. KeepsIns(M, H) /\ KeepsOuts(M, H)
    BY <1>1 DEF InsAre, KeepsIns, KeepsOuts
  <1>4. RefIs(M, H, e, k) /\ H.free = M.free /\ H.pool = M.pool
    BY <1>1 DEF RefIs, KeepsEdges, KeepsRest
  <1>5. ReadersOf(H, e) = ReadersOf(M, e)
    BY <1>3, KeptReaders
  <1> QED
    BY <1>2, <1>3, <1>4, <1>5, WiredRecount

Silenced(G, H, s, d, p) ==
    /\ InsAre(G, H, d, p, Silent) /\ FanIs(G, H, d, p, Nobody) /\ UnlinkedIfGone(G, H, s, d)
    /\ KeepsOuts(G, H) /\ KeepsRest(G, H)

LEMMA SilencedLeaving ==
  ASSUME NEW G, NEW n, Leaving(G, n), NEW H, Wired(H), NEW d \in Slot, NEW p \in DOMAIN G.node[d].ins,
         NEW e \in EdgeId, G.node[d].ins[p] = e, NEW s \in Slot, G.edge[e].src = s, s # n, Silenced(G, H, s, d, p),
         \A f \in EdgeId : H.edge[f].src = G.edge[f].src
  PROVE  /\ Leaving(H, n)
         /\ \A x \in Slot : Exact(G, n, x) => Exact(H, n, x)
  <1>1. /\ Wired(G) /\ Unborn(G) /\ Shapes(G) /\ Hosted(G) /\ OneHost(G) /\ ForHosts(G) /\ Acyclic(G)
        /\ Covered(G, n) /\ \A x \in Kept(G) : Exact(G, n, x)
    BY DEF Leaving
  <1>2. /\ G \in Graph /\ H \in Graph /\ InsAre(G, H, d, p, Silent) /\ FanIs(G, H, d, p, Nobody)
        /\ UnlinkedIfGone(G, H, s, d) /\ KeepsOuts(G, H) /\ KeepsRest(G, H)
    BY <1>1 DEF Wired, Silenced
  <1>3. \A x \in Slot : IF x = d THEN Sources(H, d) \cup {s} = Sources(G, d) ELSE Sources(H, x) = Sources(G, x)
    BY <1>2, SourcesSilenced
  <1>4. \A x \in Slot : Sources(H, x) \subseteq Sources(G, x)
    BY <1>3
  <1>5. Silent \in EdgeId \cup {Silent} /\ Silent \notin EdgeId
    BY Constants0
  <1>6. \A x \in Slot : /\ DOMAIN H.node[x].ins = DOMAIN G.node[x].ins /\ Len(H.node[x].ins) = Len(G.node[x].ins)
                        /\ \A q \in DOMAIN G.node[x].ins :
                              H.node[x].ins[q] = IF x = d /\ q = p THEN Silent ELSE G.node[x].ins[q]
    BY <1>2, <1>5, InsAreAt
  <1>7. Alike(G, H) /\ FanFewer(G, H)
    <2>1. /\ \A x \in Slot : Len(H.node[x].fan) = Len(G.node[x].fan)
          /\ \A x \in Sums : H.node[x].fan = G.node[x].fan
      BY <1>1, <1>2, FanIsAlike
    <2> QED
      BY <1>2, <1>6, <2>1, FanIsFewer DEF Alike, KeepsOuts
  <1>8. Unborn(H) /\ Shapes(H)
    <2>1. Written(G, e)
      BY <1>1, FeederIs
    <2>2. s \in Given(G) /\ d \in Given(G)
      <3>1. G.edge[e].port \in DOMAIN G.node[s].outs
        BY <2>1 DEF Written
      <3> QED
        BY <1>1, <1>2, <3>1, GivenIs
    <2>3. \/ KeepsLinks(G, H)
          \/ \E a, b \in Given(G) : Unlinked(G, H, a, b)
      BY <1>2, <2>2 DEF UnlinkedIfGone
    <2>4. \A x \in Slot \ Given(G) : /\ H.node[x].succ = {} /\ H.node[x].indeg = 0
                                     /\ \A t \in Slot : x \notin H.node[t].succ
      BY <1>1, <1>2, <2>3, UnbornLinks
    <2> QED
      BY <1>1, <1>2, <1>7, <2>4, UnbornKept, AlikeShapes
  <1>9. Hosted(H)
    <2> SUFFICES ASSUME NEW x \in User, NEW sum \in Sums, NEW q \in DOMAIN H.node[x].fan, H.node[x].fan[q] = sum
                 PROVE  /\ H.node[x].ins[q] = G.node[x].ins[q] /\ H.node[sum].outs[1] = G.node[sum].outs[1]
                        /\ x \notin Sources(G, sum) => x \notin Sources(H, sum)
      BY <1>1, <1>2, <1>7, HostedKept
    <2>0. x \in Slot /\ sum \in Slot /\ sum # Nobody
      BY Constants0
    <2>1. q \in DOMAIN G.node[x].fan /\ ~(x = d /\ q = p)
      BY <1>2, <2>0 DEF FanIs
    <2>2. q \in DOMAIN G.node[x].ins
      BY <1>1, <1>2, <2>0, <2>1, PortsOf DEF Shapes
    <2>3. H.node[x].ins[q] = G.node[x].ins[q]
      BY <1>6, <2>0, <2>1, <2>2
    <2> QED
      BY <1>2, <1>4, <2>0, <2>3 DEF KeepsOuts
  <1>10. OneHost(H)
    BY <1>1, <1>7, OneHostKept
  <1>11. ForHosts(H)
    <2> SUFFICES ASSUME NEW x \in Slot, NEW q \in DOMAIN H.node[x].ins, NEW f \in EdgeId, H.node[x].ins[q] = f,
                        H.edge[f].src \in Sums
                 PROVE  q \in DOMAIN H.node[x].fan /\ H.node[x].fan[q] = H.edge[f].src
      BY DEF ForHosts
    <2>1. H.edge[f].src = G.edge[f].src
      OBVIOUS
    <2>2. q \in DOMAIN G.node[x].ins /\ f = IF x = d /\ q = p THEN Silent ELSE G.node[x].ins[q]
      BY <1>6
    <2>3. ~(x = d /\ q = p)
      BY <1>5, <2>2
    <2>4. q \in DOMAIN G.node[x].fan /\ G.node[x].fan[q] = G.edge[f].src
      BY <1>1, <2>1, <2>2, <2>3 DEF ForHosts
    <2> QED
      BY <1>2, <2>1, <2>3, <2>4 DEF FanIs
  <1>12. Acyclic(H)
    BY <1>1, <1>4, AcyclicFewer DEF Fewer
  <1>13. Covered(H, n)
    BY <1>1, <1>2, <1>3, CoveredUnlinked
  <1>14. \A x \in Slot : Exact(G, n, x) => Exact(H, n, x)
    BY <1>2, <1>3, ExactUnlinked
  <1>15. \A x \in Kept(H) : Exact(H, n, x)
    BY <1>1, <1>7, <1>14, KeptFewer
  <1> QED
    BY <1>8, <1>9, <1>10, <1>11, <1>12, <1>13, <1>14, <1>15 DEF Leaving

\* One reader less, in the graph as a whole.
LEMMA UnreadWired ==
  ASSUME NEW G, Wired(G), NEW e \in EdgeId, NEW s \in Slot, NEW p \in DOMAIN G.node[s].outs, G.node[s].outs[p] = e,
         Cardinality(ReadersOf(G, e)) + 1 <= G.edge[e].ref
  PROVE  Wired(Unread(G, e, s, p)) /\ Unheard(G, Unread(G, e, s, p))
  <1> DEFINE H == Unread(G, e, s, p)
  <1>1. G \in Graph /\ Owned(G) /\ Cardinality(ReadersOf(G, e)) \in Nat /\ G.edge[e].ref \in Nat
    BY ReadersFinite, EdgeOf DEF Wired
  <1>2. /\ H \in Graph /\ KeepsIns(G, H) /\ KeepsFan(G, H) /\ KeepsLinks(G, H) /\ KeepsRest(G, H)
        /\ \/ G.edge[e].ref > 1 /\ RefIs(G, H, e, G.edge[e].ref - 1) /\ H.free = G.free /\ KeepsOuts(G, H)
           \/ G.edge[e].ref <= 1 /\ EdgeIs(G, H, e, Unused) /\ H.free = <<e>> \o G.free
              /\ OutsAre(G, H, s, p, Silent)
    BY <1>1, UnreadIs
  <1> HIDE DEF H
  <1>3. CASE G.edge[e].ref > 1 /\ RefIs(G, H, e, G.edge[e].ref - 1) /\ H.free = G.free /\ KeepsOuts(G, H)
    <2>1. G.edge[e].ref - 1 \in Nat /\ G.edge[e].ref - 1 >= Cardinality(ReadersOf(G, e))
      BY <1>1, <1>3
    <2>2. Wired(H)
      BY <1>2, <1>3, <2>1, WiredRecount DEF KeepsRest
    <2>3. Unheard(G, H)
      BY <1>2, <1>3 DEF Unheard, KeepsSrc, RefIs, KeepsOuts
    <2> QED
      BY <2>2, <2>3 DEF H
  <1>4. CASE G.edge[e].ref <= 1 /\ EdgeIs(G, H, e, Unused) /\ H.free = <<e>> \o G.free /\ OutsAre(G, H, s, p, Silent)
    <2>1. ReadersOf(G, e) = {}
      BY <1>1, <1>4, ReadersFinite, FS_EmptySet
    <2>2. Silent \in EdgeId \cup {Silent} /\ Silent \notin EdgeId
      BY Constants0
    <2>3. \A x \in Slot : /\ DOMAIN H.node[x].outs = DOMAIN G.node[x].outs /\ Len(H.node[x].outs) = Len(G.node[x].outs)
                          /\ \A q \in DOMAIN G.node[x].outs :
                                H.node[x].outs[q] = IF x = s /\ q = p THEN Silent ELSE G.node[x].outs[q]
      BY <1>1, <1>4, <2>2, OutsAreAt
    <2>4. \A x \in Slot : \A q \in DOMAIN G.node[x].outs : G.node[x].outs[q] = e => x = s /\ q = p
      BY <1>1 DEF Owned
    <2>5. Muted(G, H, e)
      BY <2>2, <2>3, <2>4 DEF Muted
    <2>6. G.edge[e].used
      BY <1>1 DEF Owned
    <2>7. Wired(H)
      BY <1>2, <1>4, <2>1, <2>5, <2>6, WiredDropped DEF KeepsRest
    <2>8. KeepsSrc(G, H)
      BY <1>4, <2>1 DEF KeepsSrc, EdgeIs
    <2>9. \A x \in Slot : \A q \in DOMAIN G.node[x].outs : \A f \in EdgeId :
            G.node[x].outs[q] = f /\ ReadersOf(G, f) # {} => H.node[x].outs[q] = f
      BY <2>1, <2>3
    <2>10. Unheard(G, H)
      BY <1>2, <2>3, <2>8, <2>9 DEF Unheard
    <2> QED
      BY <2>7, <2>10 DEF H
  <1> QED
    BY <1>2, <1>3, <1>4

AsManyOuts(G, H) == \A x \in Slot : Len(H.node[x].outs) = Len(G.node[x].outs)
StaysExact(G, H, n) == \A x \in Slot : Exact(G, n, x) => Exact(H, n, x)

\* An edge that is read is noted under the port it was noted under before.
Tagged(G, H) ==
    \A f \in EdgeId : ReadersOf(H, f) # {} => H.edge[f].src = G.edge[f].src /\ H.edge[f].port = G.edge[f].port

\* The routine Unplug, after the SUM before the input, if any, was forgotten.
LEMMA UnplugLeaving ==
  ASSUME NEW G, NEW n, Leaving(G, n), NEW d \in Slot, NEW p \in DOMAIN G.node[d].ins, NEW e \in EdgeId,
         G.node[d].ins[p] = e, G.edge[e].src # n,
         NEW K \in Graph, KeepsIns(G, K), KeepsOuts(G, K), KeepsLinks(G, K), KeepsEdges(G, K), KeepsRest(G, K),
         FanIs(G, K, d, p, Nobody)
  PROVE  LET H == Unplug(K, G.edge[e].src, G.edge[e].port, d, p)
         IN  /\ Leaving(H, n) /\ InsAre(G, H, d, p, Silent) /\ KeepsFan(K, H) /\ KeepsRest(G, H) /\ H.watch = K.watch
             /\ AsManyOuts(G, H) /\ StaysExact(G, H, n) /\ Tagged(G, H)
  <1> DEFINE s == G.edge[e].src
             sp == G.edge[e].port
             F == SetIn(K, d, p, Silent)
             Q == Unlink(F, s, d)
             H == Unread(Q, e, s, sp)
  <1>0. Wired(G) /\ G \in Graph
    BY DEF Leaving, Wired
  <1>1. Unplug(K, s, sp, d, p) = H
    BY DEF Unplug, KeepsIns
  <1>2. s \in Slot /\ G.edge[e].used /\ sp \in DOMAIN G.node[s].outs /\ G.node[s].outs[sp] = e
    BY <1>0, FeederIs, SMTT(60) DEF Written
  <1> HIDE DEF s, sp
  <1>3. p \in DOMAIN K.node[d].ins /\ Silent \in EdgeId \cup {Silent}
    BY DEF KeepsIns
  <1>4. /\ F \in Graph /\ InsAre(K, F, d, p, Silent)
        /\ KeepsFan(K, F) /\ KeepsOuts(K, F) /\ KeepsLinks(K, F) /\ KeepsEdges(K, F) /\ KeepsRest(K, F)
        /\ F.watch = K.watch
    BY <1>3, SetInIs
  <1> HIDE DEF F
  <1>5. /\ Q \in Graph
        /\ IF StillConnected(F, s, d) THEN KeepsLinks(F, Q) ELSE Unlinked(F, Q, s, d)
        /\ KeepsIns(F, Q) /\ KeepsFan(F, Q) /\ KeepsOuts(F, Q) /\ KeepsEdges(F, Q) /\ KeepsRest(F, Q)
        /\ Q.watch = F.watch
    BY <1>2, <1>4, UnlinkIs
  <1> HIDE DEF Q
  <1>6. InsAre(G, F, d, p, Silent) /\ KeepsOuts(G, F) /\ KeepsEdges(G, F) /\ KeepsRest(G, F) /\ KeepsLinks(G, F)
    BY <1>4 DEF InsAre, KeepsIns, KeepsOuts, KeepsEdges, KeepsRest, KeepsLinks
  <1>7. Wired(F)
    <2>1. Quieter(G, F) /\ KeepsWriters(G, F)
      BY <1>0, <1>6, SilencingIsQuieter, OutsAreWriters
    <2> QED
      BY <1>0, <1>4, <1>6, <2>1, WiredQuieter DEF KeepsRest
  <1>8. InsAre(G, Q, d, p, Silent) /\ KeepsOuts(G, Q) /\ KeepsEdges(G, Q) /\ KeepsRest(G, Q) /\ KeepsFan(K, Q)
    BY <1>4, <1>5, <1>6 DEF InsAre, KeepsIns, KeepsOuts, KeepsEdges, KeepsRest, KeepsFan
  <1>9. Wired(Q)
    <2>1. Quieter(F, Q) /\ KeepsWriters(F, Q)
      BY <1>5, InsAreQuieter, OutsAreWriters
    <2> QED
      BY <1>5, <1>7, <2>1, WiredQuieter DEF KeepsRest
  <1>10. UnlinkedIfGone(G, Q, s, d)
    <2>1. StillConnected(F, s, d) <=> s \in Sources(F, d)
      BY <1>2, <1>7, StillIs
    <2>2. Sources(Q, d) = Sources(F, d)
      <3>1. KeepsSrc(F, Q)
        BY <1>5 DEF KeepsSrc, KeepsEdges
      <3> QED
        BY <1>4, <1>5, <3>1, SourcesKept
    <2>3. CASE s \in Sources(Q, d)
      BY <1>5, <1>6, <2>1, <2>2, <2>3 DEF UnlinkedIfGone, KeepsLinks
    <2>4. CASE s \notin Sources(Q, d)
      <3>1. Unlinked(F, Q, s, d)
        BY <1>5, <2>1, <2>2, <2>4
      <3>2. Unlinked(G, Q, s, d)
        BY <1>6, <3>1 DEF Unlinked, KeepsLinks
      <3> QED
        BY <2>4, <3>2 DEF UnlinkedIfGone
    <2> QED
      BY <2>3, <2>4
  <1>11. FanIs(G, Q, d, p, Nobody)
    BY <1>8 DEF FanIs, KeepsFan
  <1>12. Silenced(G, Q, s, d, p)
    BY <1>8, <1>10, <1>11 DEF Silenced
  <1>13. \A f \in EdgeId : Q.edge[f].src = G.edge[f].src
    BY <1>8 DEF KeepsEdges
  <1>14. Leaving(Q, n) /\ \A x \in Slot : Exact(G, n, x) => Exact(Q, n, x)
    BY <1>2, <1>9, <1>12, <1>13, SilencedLeaving DEF s
  <1>15. sp \in DOMAIN Q.node[s].outs /\ Q.node[s].outs[sp] = e
    BY <1>2, <1>8 DEF KeepsOuts
  <1>16. Cardinality(ReadersOf(Q, e)) + 1 <= Q.edge[e].ref
    <2>1. Cardinality(ReadersOf(Q, e)) + 1 <= Cardinality(ReadersOf(G, e))
      BY <1>0, <1>5, <1>8, ReadersSilenced
    <2>2. Cardinality(ReadersOf(G, e)) <= G.edge[e].ref /\ G.edge[e].ref \in Nat
      BY <1>0, EdgeOf DEF Wired, Counted
    <2>3. Q.edge[e].ref = G.edge[e].ref
      BY <1>8 DEF KeepsEdges
    <2>4. Cardinality(ReadersOf(Q, e)) \in Nat /\ Cardinality(ReadersOf(G, e)) \in Nat
      BY <1>0, <1>5, ReadersFinite
    <2> QED
      BY <2>1, <2>2, <2>3, <2>4
  <1>17. Wired(H) /\ Unheard(Q, H)
    BY <1>2, <1>9, <1>15, <1>16, UnreadWired
  <1>18. H.watch = Q.watch
    BY <1>2, <1>5, <1>15, UnreadIs
  <1> HIDE DEF H
  <1>19. Leaving(H, n)
    BY <1>14, <1>17, UnheardKeeps
  <1>20. \A x \in Slot : Exact(Q, n, x) => Exact(H, n, x)
    <2>1. H \in Graph
      BY <1>17 DEF Wired
    <2> QED
      BY <1>5, <1>17, <2>1, SourcesKept, ExactKept DEF Unheard
  <1>21. InsAre(G, H, d, p, Silent) /\ KeepsFan(K, H) /\ KeepsRest(G, H)
    BY <1>8, <1>17 DEF Unheard, InsAre, KeepsIns, KeepsFan, KeepsRest
  <1>22. \A x \in Slot : Len(H.node[x].outs) = Len(G.node[x].outs)
    BY <1>8, <1>17 DEF Unheard, KeepsOuts
  <1>23. \A f \in EdgeId : ReadersOf(H, f) # {} => H.edge[f].src = G.edge[f].src /\ H.edge[f].port = G.edge[f].port
    <2>1. KeepsIns(Q, H) /\ KeepsSrc(Q, H)
      BY <1>17 DEF Unheard
    <2>2. \A f \in EdgeId : ReadersOf(H, f) = ReadersOf(Q, f)
      BY <2>1, KeptReaders
    <2> QED
      BY <1>8, <2>1, <2>2 DEF KeepsSrc, KeepsEdges
  <1> QED
    BY <1>1, <1>4, <1>5, <1>14, <1>18, <1>19, <1>20, <1>21, <1>22, <1>23
    DEF s, sp, AsManyOuts, StaysExact, Tagged

-----------------------------------------------------------------------------
(* A node is born, and a SUM has its inputs counted anew.                   *)

LEMMA TimesIs ==
  ASSUME NEW S, NEW x \in S, NEW k \in Nat
  PROVE  /\ Times(k, x) \in Seq(S) /\ Len(Times(k, x)) = k /\ DOMAIN Times(k, x) = 1..k
         /\ \A p \in 1..k : Times(k, x)[p] = x
  <1> DEFINE f == [p \in 1..k |-> x]
  <1>1. f \in [1..k -> S] /\ \A p \in 1..k : f[p] = x
    OBVIOUS
  <1>2. f \in Seq(S) /\ Len(f) = k
    BY <1>1, FunctionIsSeq
  <1> HIDE DEF f
  <1>3. SubSeq(f, 1, k) \in Seq(S) /\ Len(SubSeq(f, 1, k)) = k /\ \A p \in 1..k : SubSeq(f, 1, k)[p] = f[p]
    BY <1>2
  <1>4. DOMAIN SubSeq(f, 1, k) = 1..k
    BY <1>3
  <1>5. Times(k, x) = SubSeq(f, 1, k)
    BY DEF Times, f
  <1> QED
    BY <1>1, <1>3, <1>4, <1>5

LEMMA NewNodeIs ==
  ASSUME NEW i \in Nat, NEW o \in Nat
  PROVE  LET r == NewNode(i, o)
         IN  /\ r \in Node /\ r.succ = {} /\ r.indeg = 0 /\ Len(r.ins) = i /\ Len(r.fan) = i /\ Len(r.outs) = o
             /\ DOMAIN r.ins = 1..i /\ DOMAIN r.fan = 1..i /\ DOMAIN r.outs = 1..o
             /\ \A p \in 1..i : r.ins[p] = Silent /\ r.fan[p] = Nobody
             /\ \A p \in 1..o : r.outs[p] = Silent
  <1> DEFINE a == Times(i, Silent)
             b == Times(i, Nobody)
             c == Times(o, Silent)
             r == NewNode(i, o)
  <1>1. /\ a \in Seq(EdgeId \cup {Silent}) /\ Len(a) = i /\ DOMAIN a = 1..i /\ \A p \in 1..i : a[p] = Silent
    <2>1. Silent \in EdgeId \cup {Silent}
      OBVIOUS
    <2> QED
      BY <2>1, TimesIs
  <1>2. /\ b \in Seq(Sums \cup {Nobody}) /\ Len(b) = i /\ DOMAIN b = 1..i /\ \A p \in 1..i : b[p] = Nobody
    <2>1. Nobody \in Sums \cup {Nobody}
      OBVIOUS
    <2> QED
      BY <2>1, TimesIs
  <1>3. /\ c \in Seq(EdgeId \cup {Silent}) /\ Len(c) = o /\ DOMAIN c = 1..o /\ \A p \in 1..o : c[p] = Silent
    <2>1. Silent \in EdgeId \cup {Silent}
      OBVIOUS
    <2> QED
      BY <2>1, TimesIs
  <1>4. r = [Blank EXCEPT !.ins = a, !.fan = b, !.outs = c]
    BY DEF NewNode
  <1> HIDE DEF a, b, c, r
  <1>5. r = [ins |-> a, fan |-> b, outs |-> c, succ |-> {}, indeg |-> 0]
    BY <1>4 DEF Blank
  <1>6. r.ins = a /\ r.fan = b /\ r.outs = c /\ r.succ = {} /\ r.indeg = 0
    BY <1>5
  <1>7. r \in Node
    BY <1>1, <1>2, <1>3, <1>5 DEF Node
  <1> QED
    BY <1>1, <1>2, <1>3, <1>6, <1>7 DEF r

NodeIs(G, H, n, r) == \A x \in Slot : H.node[x] = IF x = n THEN r ELSE G.node[x]

\* A node that nobody knew comes in, with silent ports.
LEMMA BornSound ==
  ASSUME NEW G, Sound(G), NEW H \in Graph, NEW n \in Slot \ Given(G), NEW i \in Nat, NEW o \in Nat,
         NodeIs(G, H, n, NewNode(i, o)), KeepsEdges(G, H), H.pool = G.pool, Given(H) = Given(G) \cup {n},
         G.next <= H.next, n \in Sums => i = 2 /\ o = 1
  PROVE  /\ Sound(H) /\ Exact(H, Nobody, n) /\ Sources(H, n) = {}
         /\ \A x \in Slot \ {n} : Sources(H, x) = Sources(G, x)
         /\ ~IsHosted(H, n)
  <1> DEFINE r == NewNode(i, o)
  <1>1. /\ Wired(G) /\ Unborn(G) /\ Shapes(G) /\ Hosted(G) /\ OneHost(G) /\ ForHosts(G) /\ Acyclic(G)
        /\ Covered(G, Nobody) /\ \A x \in Kept(G) : Exact(G, Nobody, x)
    BY DEF Sound, Leaving
  <1>2. G \in Graph /\ n \in Slot /\ n \notin Given(G)
    BY <1>1 DEF Wired
  <1>3. /\ r \in Node /\ r.succ = {} /\ r.indeg = 0 /\ Len(r.ins) = i /\ Len(r.fan) = i /\ Len(r.outs) = o
        /\ DOMAIN r.ins = 1..i /\ DOMAIN r.fan = 1..i /\ DOMAIN r.outs = 1..o
        /\ \A p \in 1..i : r.ins[p] = Silent /\ r.fan[p] = Nobody
        /\ \A p \in 1..o : r.outs[p] = Silent
    BY NewNodeIs
  <1>4. /\ G.node[n].ins = <<>> /\ G.node[n].outs = <<>> /\ G.node[n].succ = {} /\ G.node[n].indeg = 0
        /\ \A s \in Slot : n \notin G.node[s].succ
    BY <1>1, <1>2 DEF Unborn
  <1>5. H.node[n] = r /\ \A x \in Slot : x # n => H.node[x] = G.node[x]
    BY DEF NodeIs
  <1> HIDE DEF r
  <1>6. Quieter(G, H)
    BY <1>3, <1>5 DEF Quieter
  <1>7. KeepsWriters(G, H)
    <2> SUFFICES ASSUME NEW x \in Slot, NEW e \in EdgeId, NEW q
                 PROVE  (q \in DOMAIN G.node[x].outs /\ G.node[x].outs[q] = e)
                          <=> (q \in DOMAIN H.node[x].outs /\ H.node[x].outs[q] = e)
      BY DEF KeepsWriters
    <2>1. CASE x = n
      BY <1>3, <1>4, <1>5, <2>1, Constants0
    <2>2. CASE x # n
      BY <1>5, <2>2
    <2> QED
      BY <2>1, <2>2
  <1>8. Wired(H)
    BY <1>1, <1>6, <1>7, WiredQuieter
  <1>9. Sources(H, n) = {}
    <2>1. \A q \in DOMAIN H.node[n].ins : H.node[n].ins[q] = Silent
      BY <1>3, <1>5
    <2> QED
      BY <1>2, <2>1, SourcesAre, Constants0
  <1>10. \A x \in Slot \ {n} : Sources(H, x) = Sources(G, x)
    BY <1>5 DEF Sources, KeepsEdges
  <1>11. Sources(G, n) = {}
    BY <1>2, <1>4, SourcesAre
  <1>12. \A x \in Slot : n \notin Sources(H, x)
    <2> SUFFICES ASSUME NEW x \in Slot, n \in Sources(H, x) PROVE FALSE
      OBVIOUS
    <2>1. n \in Sources(G, x) /\ x # n
      BY <1>9, <1>10
    <2>2. n \in G.node[n].succ \/ x \in G.node[n].succ
      BY <1>1, <2>1, Constants0 DEF Covered
    <2> QED
      BY <1>4, <2>2
  <1>13. Unborn(H)
    <2> SUFFICES ASSUME NEW x \in Slot \ Given(H)
                 PROVE  /\ H.node[x].ins = <<>> /\ H.node[x].outs = <<>> /\ H.node[x].succ = {} /\ H.node[x].indeg = 0
                        /\ \A s \in Slot : x \notin H.node[s].succ
      BY DEF Unborn
    <2>1. x # n /\ x \notin Given(G)
      OBVIOUS
    <2>2. /\ G.node[x].ins = <<>> /\ G.node[x].outs = <<>> /\ G.node[x].succ = {} /\ G.node[x].indeg = 0
          /\ \A s \in Slot : x \notin G.node[s].succ
      BY <1>1, <2>1 DEF Unborn
    <2>3. ASSUME NEW s \in Slot PROVE x \notin H.node[s].succ
      BY <1>3, <1>5, <2>2
    <2> QED
      BY <1>5, <2>1, <2>2, <2>3
  <1>14. Shapes(H)
    <2>1. ASSUME NEW x \in User PROVE Len(H.node[x].fan) = Len(H.node[x].ins)
      <3>1. x \in Slot
        BY Constants0
      <3> QED
        BY <1>1, <1>3, <1>5, <3>1 DEF Shapes
    <2>2. ASSUME NEW x \in Sums
          PROVE  /\ \A p \in DOMAIN H.node[x].fan : H.node[x].fan[p] = Nobody
                 /\ Len(H.node[x].outs) <= 1
                 /\ Live(H, x) => Len(H.node[x].fan) = 2 /\ Len(H.node[x].outs) = 1
      <3>1. x \in Slot
        BY Constants0
      <3>2. CASE x = n
        <4>1. i = 2 /\ o = 1 /\ H.node[x] = r
          BY <1>5, <3>2
        <4>2. \A p \in DOMAIN r.fan : r.fan[p] = Nobody
          BY <1>3
        <4>3. Len(r.fan) = 2 /\ Len(r.outs) = 1
          BY <1>3, <4>1
        <4> QED
          BY <4>1, <4>2, <4>3
      <3>3. CASE x # n
        <4>1. H.node[x] = G.node[x] /\ (Live(H, x) <=> Live(G, x))
          BY <1>5, <3>1, <3>3 DEF Live
        <4> QED
          BY <1>1, <4>1 DEF Shapes
      <3> QED
        BY <3>2, <3>3
    <2> QED
      BY <2>1, <2>2 DEF Shapes
  <1>15. \A x \in Slot : \A q \in DOMAIN H.node[x].fan : H.node[x].fan[q] # Nobody =>
            x # n /\ q \in DOMAIN G.node[x].fan /\ G.node[x].fan[q] = H.node[x].fan[q]
    BY <1>3, <1>5
  <1>16. \A x \in User : \A q \in DOMAIN H.node[x].fan : \A t \in Sums : H.node[x].fan[q] = t =>
            x # n /\ q \in DOMAIN G.node[x].fan /\ G.node[x].fan[q] = t /\ t # n
    <2> SUFFICES ASSUME NEW x \in User, NEW q \in DOMAIN H.node[x].fan, NEW t \in Sums, H.node[x].fan[q] = t
                 PROVE  x # n /\ q \in DOMAIN G.node[x].fan /\ G.node[x].fan[q] = t /\ t # n
      OBVIOUS
    <2>1. x # n /\ q \in DOMAIN G.node[x].fan /\ G.node[x].fan[q] = t
      BY <1>15, Constants0
    <2>2. t < G.next
      BY <1>1, <2>1 DEF Hosted
    <2>3. t \in Given(G)
      BY <2>2 DEF Given
    <2> QED
      BY <2>1, <2>3
  <1>17. Hosted(H)
    <2> SUFFICES ASSUME NEW x \in User, NEW t \in Sums, NEW q \in DOMAIN H.node[x].fan, H.node[x].fan[q] = t
                 PROVE  /\ t < H.next /\ Live(H, t)
                        /\ H.node[x].ins[q] # Silent /\ H.node[x].ins[q] = H.node[t].outs[1]
                        /\ x \notin Sources(H, t)
      BY DEF Hosted
    <2>1. x # n /\ q \in DOMAIN G.node[x].fan /\ G.node[x].fan[q] = t /\ t # n /\ x \in Slot /\ t \in Slot
      BY <1>16, Constants0
    <2>2. /\ t < G.next /\ Live(G, t)
          /\ G.node[x].ins[q] # Silent /\ G.node[x].ins[q] = G.node[t].outs[1]
          /\ x \notin Sources(G, t)
      BY <1>1, <2>1 DEF Hosted
    <2>3. H.node[x] = G.node[x] /\ H.node[t] = G.node[t] /\ Sources(H, t) = Sources(G, t)
      BY <1>5, <1>10, <2>1
    <2>4. t < H.next
      <3>1. t \in Nat /\ G.next \in Nat /\ H.next \in Nat
        BY <1>2, <2>1, Constants0 DEF Graph
      <3> QED
        BY <2>2, <3>1
    <2> QED
      BY <2>2, <2>3, <2>4 DEF Live
  <1>18. OneHost(H)
    BY <1>1, <1>16 DEF OneHost
  <1>19. ForHosts(H)
    <2> SUFFICES ASSUME NEW x \in Slot, NEW q \in DOMAIN H.node[x].ins, NEW e \in EdgeId, H.node[x].ins[q] = e,
                        H.edge[e].src \in Sums
                 PROVE  q \in DOMAIN H.node[x].fan /\ H.node[x].fan[q] = H.edge[e].src
      BY DEF ForHosts
    <2>1. x # n
      BY <1>3, <1>5, Constants0
    <2> QED
      BY <1>1, <1>5, <2>1 DEF ForHosts, KeepsEdges
  <1>20. Acyclic(H)
    BY <1>1, <1>9, <1>10, AcyclicFewer DEF Fewer
  <1>21. Covered(H, Nobody)
    <2> SUFFICES ASSUME NEW x \in Slot, NEW t \in Sources(H, x) PROVE x \in H.node[t].succ
      BY DEF Covered
    <2>1. x # n /\ t \in Sources(G, x) /\ t # n /\ t \in Slot
      BY <1>2, <1>9, <1>10, <1>12, SourcesInSlot
    <2>2. x \in G.node[t].succ
      BY <1>1, <2>1, Constants0 DEF Covered
    <2> QED
      BY <1>5, <2>1, <2>2
  <1>22. \A x \in Slot : Preds(H, x) = Preds(G, x) /\ H.node[x].indeg = G.node[x].indeg /\ Sources(H, x) = Sources(G, x)
    BY <1>3, <1>4, <1>5, <1>9, <1>10, <1>11 DEF Preds
  <1>23. \A x \in Slot : Exact(G, Nobody, x) => Exact(H, Nobody, x)
    BY <1>22 DEF Exact
  <1>24. Exact(H, Nobody, n)
    <2>1. Preds(G, n) = {}
      BY <1>4 DEF Preds
    <2> QED
      BY <1>4, <1>9, <1>22, <2>1, NoneCounted DEF Exact
  <1>25. \A x \in Kept(H) : Exact(H, Nobody, x)
    <2>1. FanFewer(G, H)
      BY <1>15 DEF FanFewer
    <2> QED
      BY <1>1, <1>23, <2>1, KeptFewer
  <1>26. ~IsHosted(H, n)
    <2> SUFFICES ASSUME NEW x \in User, NEW q \in DOMAIN H.node[x].fan, H.node[x].fan[q] = n PROVE FALSE
      BY DEF IsHosted
    <2>1. x \in Slot
      BY Constants0
    <2>2. n # Nobody
      BY Constants0
    <2>3. H.node[x].fan[q] \in Sums
      BY <2>1, <2>2, PortsOf
    <2> QED
      BY <1>16, <2>3
  <1> QED
    BY <1>8, <1>9, <1>10, <1>13, <1>14, <1>17, <1>18, <1>19, <1>20, <1>21, <1>24, <1>25, <1>26 DEF Sound, Leaving

\* A SUM has other inputs, silent ones aside the same.
SameHeard(a, b) == \A e \in EdgeId : (\E i \in DOMAIN a : a[i] = e) <=> (\E i \in DOMAIN b : b[i] = e)

LEMMA ReshapedSound ==
  ASSUME NEW G, Sound(G), NEW H, Wired(H), NEW sum \in Sums, Live(G, sum),
         SameHeard(G.node[sum].ins, H.node[sum].ins),
         \A x \in Slot \ {sum} : H.node[x].ins = G.node[x].ins,
         KeepsFan(G, H), KeepsOuts(G, H), KeepsLinks(G, H), H.edge = G.edge, KeepsRest(G, H)
  PROVE  Sound(H) /\ \A x \in Slot : Sources(H, x) = Sources(G, x)
  <1>1. /\ Wired(G) /\ Unborn(G) /\ Shapes(G) /\ Hosted(G) /\ OneHost(G) /\ ForHosts(G) /\ Acyclic(G)
        /\ Covered(G, Nobody) /\ \A x \in Kept(G) : Exact(G, Nobody, x)
    BY DEF Sound, Leaving
  <1>2. G \in Graph /\ H \in Graph /\ sum \in Slot /\ sum \notin User
    BY <1>1, Constants0 DEF Wired
  <1>3. \A x \in Slot : Sources(H, x) = Sources(G, x)
    <2> SUFFICES ASSUME NEW x \in Slot, NEW t PROVE t \in Sources(H, x) <=> t \in Sources(G, x)
      OBVIOUS
    <2>1. SameHeard(G.node[x].ins, H.node[x].ins)
      BY DEF SameHeard
    <2>2. t \in Sources(H, x) <=> /\ t # Nobody
            /\ \E e \in EdgeId : (\E q \in DOMAIN H.node[x].ins : H.node[x].ins[q] = e) /\ G.edge[e].src = t
      BY <1>2, SourcesAre
    <2>3. t \in Sources(G, x) <=> /\ t # Nobody
            /\ \E e \in EdgeId : (\E q \in DOMAIN G.node[x].ins : G.node[x].ins[q] = e) /\ G.edge[e].src = t
      BY <1>2, SourcesAre
    <2> QED
      BY <2>1, <2>2, <2>3 DEF SameHeard
  <1>4. Len(G.node[sum].outs) = 1
    BY <1>1 DEF Shapes
  <1>5. Live(H, sum)
    BY <1>2, <1>4, EmptyIs DEF KeepsOuts
  <1>6. \A x \in Slot : Live(H, x) <=> Live(G, x)
    BY <1>5 DEF Live, KeepsOuts
  <1>7. Given(H) = Given(G) /\ H.next = G.next
    BY DEF Given, KeepsRest
  <1>8. sum \in Given(G)
    <2>1. 1 \in DOMAIN G.node[sum].outs
      BY <1>1, <1>2, SumsPort
    <2> QED
      BY <1>1, <1>2, <2>1, GivenIs
  <1>9. Unborn(H)
    BY <1>1, <1>7, <1>8 DEF Unborn, KeepsOuts, KeepsLinks
  <1>10. Shapes(H)
    <2>1. \A x \in User : Len(H.node[x].fan) = Len(H.node[x].ins)
      BY <1>1, <1>2, Constants0 DEF Shapes, KeepsFan
    <2>2. ASSUME NEW x \in Sums
          PROVE  /\ \A p \in DOMAIN H.node[x].fan : H.node[x].fan[p] = Nobody
                 /\ Len(H.node[x].outs) <= 1
                 /\ Live(H, x) => Len(H.node[x].fan) = 2 /\ Len(H.node[x].outs) = 1
      <3>1. x \in Slot
        BY Constants0
      <3>2. H.node[x].fan = G.node[x].fan /\ H.node[x].outs = G.node[x].outs /\ (Live(H, x) <=> Live(G, x))
        BY <1>6, <3>1 DEF KeepsFan, KeepsOuts
      <3> QED
        BY <1>1, <3>2 DEF Shapes
    <2> QED
      BY <2>1, <2>2 DEF Shapes
  <1>11. Hosted(H)
    <2> SUFFICES ASSUME NEW x \in User, NEW t \in Sums, NEW q \in DOMAIN H.node[x].fan, H.node[x].fan[q] = t
                 PROVE  /\ t < H.next /\ Live(H, t)
                        /\ H.node[x].ins[q] # Silent /\ H.node[x].ins[q] = H.node[t].outs[1]
                        /\ x \notin Sources(H, t)
      BY DEF Hosted
    <2>1. x \in Slot \ {sum} /\ t \in Slot
      BY <1>2, Constants0
    <2>2. H.node[x].fan = G.node[x].fan /\ H.node[x].ins = G.node[x].ins /\ H.node[t].outs = G.node[t].outs
      BY <2>1 DEF KeepsFan, KeepsOuts
    <2>3. q \in DOMAIN G.node[x].fan /\ G.node[x].fan[q] = t
      BY <2>2
    <2>4. /\ t < G.next /\ Live(G, t)
          /\ G.node[x].ins[q] # Silent /\ G.node[x].ins[q] = G.node[t].outs[1]
          /\ x \notin Sources(G, t)
      BY <1>1, <2>3 DEF Hosted
    <2> QED
      BY <1>3, <1>6, <1>7, <2>1, <2>2, <2>4
  <1>12. OneHost(H)
    BY <1>1, FanKept, OneHostKept
  <1>13. ForHosts(H)
    <2> SUFFICES ASSUME NEW x \in Slot, NEW q \in DOMAIN H.node[x].ins, NEW e \in EdgeId, H.node[x].ins[q] = e,
                        G.edge[e].src \in Sums
                 PROVE  q \in DOMAIN H.node[x].fan /\ H.node[x].fan[q] = G.edge[e].src
      BY DEF ForHosts
    <2>1. CASE x # sum
      <3>1. H.node[x].ins = G.node[x].ins /\ H.node[x].fan = G.node[x].fan
        BY <2>1 DEF KeepsFan
      <3> QED
        BY <1>1, <3>1 DEF ForHosts
    <2>2. CASE x = sum
      <3>1. PICK i \in DOMAIN G.node[sum].ins : G.node[sum].ins[i] = e
        BY <2>2 DEF SameHeard
      <3>2. i \in DOMAIN G.node[sum].fan /\ G.node[sum].fan[i] = G.edge[e].src
        BY <1>1, <1>2, <3>1 DEF ForHosts
      <3>3. G.node[sum].fan[i] = Nobody
        BY <1>1, <3>2 DEF Shapes
      <3> QED
        BY <3>2, <3>3, Constants0
    <2> QED
      BY <2>1, <2>2
  <1>14. Acyclic(H)
    BY <1>1, <1>3, AcyclicFewer DEF Fewer
  <1>15. Covered(H, Nobody)
    <2> SUFFICES ASSUME NEW x \in Slot \ {Nobody}, NEW t \in Sources(H, x) PROVE x \in H.node[t].succ
      BY DEF Covered
    <2>1. t \in Sources(G, x) /\ t \in Slot
      BY <1>2, <1>3, SourcesInSlot
    <2> QED
      BY <1>1, <2>1 DEF Covered, KeepsLinks
  <1>16. \A x \in Kept(H) : Exact(H, Nobody, x)
    BY <1>1, <1>3, FanKept, KeptFewer, ExactKept
  <1> QED
    BY <1>3, <1>9, <1>10, <1>11, <1>12, <1>13, <1>14, <1>15, <1>16 DEF Sound, Leaving

-----------------------------------------------------------------------------
(* Connect.                                                                 *)

Persists(G, H) ==
    \A x \in Slot : /\ Len(H.node[x].outs) = Len(G.node[x].outs) /\ DOMAIN H.node[x].outs = DOMAIN G.node[x].outs
                    /\ \A q \in DOMAIN G.node[x].outs :
                          G.node[x].outs[q] # Silent => H.node[x].outs[q] = G.node[x].outs[q]

LEMMA SameGraph ==
  ASSUME NEW G
  PROVE  KeepsIns(G, G) /\ KeepsFan(G, G) /\ KeepsOuts(G, G) /\ KeepsRest(G, G) /\ Persists(G, G)
  BY DEF KeepsIns, KeepsFan, KeepsOuts, KeepsRest, Persists

LEMMA OwnedWritten ==
  ASSUME NEW G, Wired(G), NEW s \in Slot, NEW p \in DOMAIN G.node[s].outs, G.node[s].outs[p] # Silent
  PROVE  LET e == G.node[s].outs[p]
         IN  e \in EdgeId /\ Written(G, e) /\ G.edge[e].src = s /\ G.edge[e].port = p
  <1> DEFINE e == G.node[s].outs[p]
  <1>1. e \in EdgeId
    BY PortsOf DEF Wired
  <1>2. G.edge[e].used /\ G.edge[e].src = s /\ G.edge[e].port = p
    BY <1>1 DEF Wired, Owned
  <1> QED
    BY <1>1, <1>2 DEF Written

\* A claim changes nothing that is heard.
LEMMA ClaimSound ==
  ASSUME NEW G, Sound(G), NEW s \in Slot, NEW p \in DOMAIN G.node[s].outs
  PROVE  LET c == Claim(G, s, p)
         IN  /\ Sound(c.g) /\ KeepsIns(G, c.g) /\ KeepsFan(G, c.g) /\ KeepsRest(G, c.g) /\ c.g.watch = G.watch
             /\ Persists(G, c.g) /\ \A x \in Slot : Sources(c.g, x) = Sources(G, x)
             /\ \A x \in Slot : Exact(G, Nobody, x) => Exact(c.g, Nobody, x)
             /\ c.ok => c.g.node[s].outs[p] # Silent
             /\ c.ok \in BOOLEAN /\ (~c.ok => c.g = G)
  <1> DEFINE c == Claim(G, s, p)
             H == c.g
  <1>0. Wired(G) /\ G \in Graph
    BY DEF Sound, Leaving, Wired
  <1>1. CASE c.g = G
    <2>1. c.ok \in BOOLEAN /\ (c.ok => G.node[s].outs[p] # Silent)
      <3>1. CASE G.node[s].outs[p] # Silent
        BY <3>1 DEF Claim, Done
      <3>2. CASE G.node[s].outs[p] = Silent /\ G.free = <<>>
        BY <3>2 DEF Claim, Refused
      <3>3. CASE G.node[s].outs[p] = Silent /\ G.free # <<>>
        <4>1. c.g \in Graph /\ Claimed(G, c.g, s, p)
          BY <1>0, <3>3, ClaimIs
        <4> HIDE DEF c
        <4>2. c.g.free = Tail(G.free)
          BY <4>1 DEF Claimed
        <4>3. G.free = Tail(G.free) /\ G.free \in Seq(EdgeId)
          BY <1>0, <1>1, <4>2 DEF Graph
        <4>4. Len(G.free) \in Nat /\ Len(G.free) # 0 /\ Len(Tail(G.free)) = Len(G.free) - 1
          BY <3>3, <4>3
        <4> DEFINE k == Len(G.free)
                   t == Len(Tail(G.free))
        <4>5. k \in Nat /\ t = k - 1 /\ t = k
          BY <4>3, <4>4
        <4> HIDE DEF k, t
        <4>6. FALSE
          BY <4>5
        <4> QED
          BY <4>6
      <3> QED
        BY <3>1, <3>2, <3>3
    <2>2. KeepsIns(G, G) /\ KeepsFan(G, G) /\ KeepsRest(G, G) /\ Persists(G, G)
      BY SameGraph
    <2> HIDE DEF c
    <2> QED
      BY <1>1, <2>1, <2>2 DEF c
  <1>2. CASE c.g # G
    <2>1. G.node[s].outs[p] = Silent /\ G.free # <<>>
      BY <1>0, <1>2, ClaimIs
    <2>2. c.ok /\ H \in Graph /\ Claimed(G, H, s, p)
      BY <1>0, <2>1, ClaimIs
    <2>3. c.ok = TRUE
      BY <2>1 DEF Claim, Done
    <2> HIDE DEF c
    <2> DEFINE e == Head(G.free)
    <2>4. /\ OutsAre(G, H, s, p, e) /\ EdgeIs(G, H, e, [used |-> TRUE, ref |-> 0, src |-> s, port |-> p])
          /\ H.free = Tail(G.free) /\ KeepsIns(G, H) /\ KeepsFan(G, H) /\ KeepsLinks(G, H)
          /\ KeepsRest(G, H) /\ H.watch = G.watch
      BY <2>2 DEF Claimed
    <2>5. Wired(H) /\ e \in EdgeId
      BY <1>0, <2>1, <2>2, <2>4, WiredClaim DEF KeepsRest
    <2>6. ReadersOf(G, e) = {}
      <3>1. G.free \in Seq(EdgeId)
        BY <1>0 DEF Graph
      <3>2. 1 \in DOMAIN G.free /\ e = G.free[1]
        BY <2>1, <3>1
      <3>3. ~G.edge[e].used
        BY <1>0, <3>2 DEF Wired, Pooled
      <3> QED
        BY <1>0, <2>5, <3>3, UnusedUnread DEF Wired
    <2> HIDE DEF e
    <2>7. e \in EdgeId \cup {Silent} /\ e # Silent
      BY <2>5, Constants0
    <2>71. OutsAre(G, H, s, p, e)
      BY <2>4
    <2> HIDE DEF H
    <2>8. \A x \in Slot : /\ DOMAIN H.node[x].outs = DOMAIN G.node[x].outs /\ Len(H.node[x].outs) = Len(G.node[x].outs)
                          /\ \A q \in DOMAIN G.node[x].outs :
                                H.node[x].outs[q] = IF x = s /\ q = p THEN e ELSE G.node[x].outs[q]
      BY <1>0, <2>7, <2>71, OutsAreAt
    <2>9. Persists(G, H)
      BY <2>1, <2>8 DEF Persists
    <2>10. KeepsSrc(G, H)
      BY <2>4, <2>6 DEF KeepsSrc, EdgeIs
    <2>11. Unheard(G, H)
      <3>1. \A x \in Slot : \A q \in DOMAIN G.node[x].outs : \A f \in EdgeId :
              G.node[x].outs[q] = f /\ ReadersOf(G, f) # {} => H.node[x].outs[q] = f
        BY <2>9, Constants0 DEF Persists
      <3> QED
        BY <2>4, <2>8, <2>10, <3>1 DEF Unheard
    <2>12. Sound(H)
      BY <2>5, <2>11, UnheardKeeps DEF Sound
    <2>13. \A x \in Slot : Sources(H, x) = Sources(G, x)
      BY <1>0, <2>2, <2>4, <2>10, SourcesKept
    <2>14. \A x \in Slot : Exact(G, Nobody, x) => Exact(H, Nobody, x)
      BY <2>4, <2>13, ExactKept
    <2> QED
      BY <2>2, <2>3, <2>4, <2>7, <2>8, <2>9, <2>12, <2>13, <2>14 DEF H, c
  <1> QED
    BY <1>1, <1>2

\* A caller's port feeds a silent input.
LEMMA ConnectFirstSound ==
  ASSUME NEW G, Sound(G), NEW s \in User, NEW sp \in DOMAIN G.node[s].outs, NEW d \in Slot,
         NEW dp \in DOMAIN G.node[d].ins, G.node[d].ins[dp] = Silent, s # d,
         \A q \in DOMAIN G.node[s].fan : G.node[s].fan[q] # d, NoWay(G, d, s)
  PROVE  LET c == ConnectFirst(G, s, sp, d, dp)
         IN  /\ Sound(c.g) /\ KeepsFan(G, c.g) /\ KeepsRest(G, c.g) /\ c.g.watch = G.watch /\ Persists(G, c.g)
             /\ \A x \in Slot : Sources(c.g, x) \subseteq IF x = d THEN Sources(G, d) \cup {s} ELSE Sources(G, x)
             /\ \A x \in Slot : Exact(G, Nobody, x) => Exact(c.g, Nobody, x)
             /\ \A x \in Slot : \A q \in DOMAIN G.node[x].ins : ~(x = d /\ q = dp) =>
                  q \in DOMAIN c.g.node[x].ins /\ c.g.node[x].ins[q] = G.node[x].ins[q]
             /\ c.ok \in BOOLEAN /\ (~c.ok => c.g = G)
  <1> DEFINE c == Claim(G, s, sp)
             K == c.g
             e == K.node[s].outs[sp]
             H == Plug(K, e, s, d, dp)
             f == ConnectFirst(G, s, sp, d, dp)
  <1>1. s \in Slot
    BY Constants0
  <1>2. /\ Sound(K) /\ KeepsIns(G, K) /\ KeepsFan(G, K) /\ KeepsRest(G, K) /\ K.watch = G.watch
        /\ Persists(G, K) /\ \A x \in Slot : Sources(K, x) = Sources(G, x)
        /\ \A x \in Slot : Exact(G, Nobody, x) => Exact(K, Nobody, x)
        /\ c.ok => K.node[s].outs[sp] # Silent
        /\ c.ok \in BOOLEAN /\ (~c.ok => K = G)
    BY <1>1, ClaimSound
  <1>3. CASE ~c.ok
    <2>1. f.g = G /\ f.ok = FALSE
      BY <1>2, <1>3 DEF ConnectFirst
    <2>2. KeepsFan(G, G) /\ KeepsRest(G, G) /\ Persists(G, G)
      BY SameGraph
    <2> HIDE DEF f
    <2> QED
      BY <2>1, <2>2 DEF f
  <1>4. CASE c.ok
    <2>1. f.g = H /\ f.ok = TRUE
      BY <1>4 DEF ConnectFirst, Done
    <2> HIDE DEF f, c
    <2>2. Wired(K) /\ K \in Graph
      BY <1>2 DEF Sound, Leaving, Wired
    <2>3. sp \in DOMAIN K.node[s].outs /\ dp \in DOMAIN K.node[d].ins /\ K.node[d].ins[dp] = Silent
      BY <1>1, <1>2 DEF Persists, KeepsIns
    <2>4. e \in EdgeId /\ Written(K, e) /\ K.edge[e].src = s
      BY <1>1, <1>2, <1>4, <2>2, <2>3, OwnedWritten, SMTT(60)
    <2> HIDE DEF e
    <2>5. H \in Graph /\ Plugged(K, H, e, s, d, dp) /\ KeepsFan(K, H) /\ H.watch = K.watch
      BY <1>1, <2>2, <2>3, <2>4, PlugIs
    <2> HIDE DEF H
    <2>6. \A q \in DOMAIN K.node[s].fan : K.node[s].fan[q] # d
      BY <1>1, <1>2 DEF KeepsFan
    <2>12. NoWay(K, d, s)
      BY <1>2, NoWayFewer DEF Fewer
    <2>7. Sound(H)
      BY <1>2, <2>3, <2>4, <2>5, <2>6, <2>12, PluggedSound
    <2>8. /\ \A x \in Slot : Exact(K, Nobody, x) => Exact(H, Nobody, x)
          /\ \A x \in Slot : Sources(H, x) = IF x = d THEN Sources(K, d) \cup {s} ELSE Sources(K, x)
          /\ \A x \in Slot : /\ DOMAIN H.node[x].ins = DOMAIN K.node[x].ins
                             /\ \A q \in DOMAIN K.node[x].ins :
                                   H.node[x].ins[q] = IF x = d /\ q = dp THEN e ELSE K.node[x].ins[q]
      BY <1>1, <1>2, <2>3, <2>4, <2>5, <2>12, PluggedKeeps, SMTT(60)
    <2>9. KeepsFan(G, H) /\ KeepsRest(G, H) /\ H.watch = G.watch /\ Persists(G, H)
      BY <1>2, <2>5 DEF Plugged, KeepsFan, KeepsRest, KeepsOuts, Persists
    <2>10. \A x \in Slot : Sources(H, x) \subseteq IF x = d THEN Sources(G, d) \cup {s} ELSE Sources(G, x)
      BY <1>2, <2>8
    <2>11. \A x \in Slot : \A q \in DOMAIN G.node[x].ins : ~(x = d /\ q = dp) =>
              q \in DOMAIN H.node[x].ins /\ H.node[x].ins[q] = G.node[x].ins[q]
      BY <1>2, <2>8 DEF KeepsIns
    <2> QED
      BY <1>2, <2>1, <2>7, <2>8, <2>9, <2>10, <2>11, Zenon DEF f
  <1> QED
    BY <1>2, <1>3, <1>4

\* The whole of a node's inputs is another sequence.
InsBecome(G, H, n, q) == \A x \in Slot : H.node[x].ins = IF x = n THEN q ELSE G.node[x].ins

LEMMA NewInsIs ==
  ASSUME NEW G \in Graph, NEW n \in Slot, NEW q \in Seq(EdgeId \cup {Silent})
  PROVE  LET H == [G EXCEPT !.node = [G.node EXCEPT ![n] = [G.node[n] EXCEPT !.ins = q]]]
         IN  /\ H \in Graph /\ InsBecome(G, H, n, q)
             /\ KeepsFan(G, H) /\ KeepsOuts(G, H) /\ KeepsLinks(G, H) /\ KeepsEdges(G, H) /\ KeepsRest(G, H)
             /\ H.watch = G.watch
  <1> DEFINE r == [G.node[n] EXCEPT !.ins = q]
  <1>1. G.node[n] \in Node
    BY NodeOf
  <1>2. /\ r \in Node /\ r.ins = q /\ r.fan = G.node[n].fan /\ r.outs = G.node[n].outs
        /\ r.succ = G.node[n].succ /\ r.indeg = G.node[n].indeg
    BY <1>1, NodeWithIns
  <1> HIDE DEF r
  <1>3. LET H == [G EXCEPT !.node = [G.node EXCEPT ![n] = r]]
        IN  /\ H \in Graph /\ InsBecome(G, H, n, q)
            /\ KeepsFan(G, H) /\ KeepsOuts(G, H) /\ KeepsLinks(G, H) /\ KeepsEdges(G, H) /\ KeepsRest(G, H)
            /\ H.watch = G.watch
    BY <1>2, NodeChanged DEF InsBecome, KeepsFan, KeepsOuts, KeepsLinks
  <1> QED
    BY <1>3 DEF r

\* The SUM before input n.p is another, or none.
SetFan(G, n, p, v) == [G EXCEPT !.node = [G.node EXCEPT ![n] = [G.node[n] EXCEPT !.fan = [G.node[n].fan EXCEPT ![p] = v]]]]

LEMMA SetFanIs ==
  ASSUME NEW G \in Graph, NEW n \in Slot, NEW p \in DOMAIN G.node[n].fan, NEW v \in Sums \cup {Nobody}
  PROVE  LET H == SetFan(G, n, p, v)
         IN  /\ H \in Graph /\ FanIs(G, H, n, p, v)
             /\ KeepsIns(G, H) /\ KeepsOuts(G, H) /\ KeepsLinks(G, H) /\ KeepsEdges(G, H) /\ KeepsRest(G, H)
             /\ H.watch = G.watch
  <1> DEFINE q == [G.node[n].fan EXCEPT ![p] = v]
             r == [G.node[n] EXCEPT !.fan = q]
             H == [G EXCEPT !.node = [G.node EXCEPT ![n] = r]]
  <1>1. G.node[n] \in Node /\ G.node[n].fan \in Seq(Sums \cup {Nobody})
    BY NodeOf
  <1>2. SetFan(G, n, p, v) = H
    BY DEF SetFan
  <1>3. /\ q \in Seq(Sums \cup {Nobody}) /\ DOMAIN q = DOMAIN G.node[n].fan
        /\ \A i \in DOMAIN G.node[n].fan : q[i] = IF i = p THEN v ELSE G.node[n].fan[i]
    BY <1>1, EntryChanged
  <1> HIDE DEF q
  <1>4. /\ r \in Node /\ r.ins = G.node[n].ins /\ r.fan = q /\ r.outs = G.node[n].outs
        /\ r.succ = G.node[n].succ /\ r.indeg = G.node[n].indeg
    BY <1>1, <1>3, NodeWithFan
  <1> HIDE DEF r
  <1>5. /\ H \in Graph /\ \A x \in Slot : H.node[x] = IF x = n THEN r ELSE G.node[x]
        /\ KeepsEdges(G, H) /\ KeepsRest(G, H) /\ H.watch = G.watch
    BY <1>4, NodeChanged
  <1> HIDE DEF H
  <1>6. FanIs(G, H, n, p, v)
    BY <1>3, <1>4, <1>5 DEF FanIs
  <1>7. KeepsIns(G, H) /\ KeepsOuts(G, H) /\ KeepsLinks(G, H)
    BY <1>4, <1>5 DEF KeepsIns, KeepsOuts, KeepsLinks
  <1> QED
    BY <1>2, <1>5, <1>6, <1>7

\* A command that is refused leaves no node with more sources, and no SUM out of place.
Trimmed(G, H) ==
    /\ \A x \in Slot : (x \in Sums /\ x >= G.next) \/ Sources(H, x) \subseteq Sources(G, x)
    /\ Kept(G) \subseteq Kept(H) /\ G.next <= H.next

LEMMA KeptKept ==
  ASSUME NEW G, NEW H, \A d \in User : H.node[d].fan = G.node[d].fan
  PROVE  Kept(H) = Kept(G) /\ \A sum : IsHosted(H, sum) <=> IsHosted(G, sum)
  BY DEF Kept, IsHosted

LEMMA NextIs ==
  ASSUME NEW G \in Graph
  PROVE  G.next \in Nat /\ G.next <= G.next /\ G.next <= G.next + 1
  BY DEF Graph

LEMMA TrimmedSame ==
  ASSUME NEW G \in Graph
  PROVE  Trimmed(G, G)
  BY NextIs DEF Trimmed

LEMMA AppendIs ==
  ASSUME NEW S, NEW a \in Seq(S), NEW x \in S
  PROVE  /\ Append(a, x) \in Seq(S) /\ Len(a) \in Nat
         /\ DOMAIN a = 1..Len(a) /\ DOMAIN Append(a, x) = 1..Len(a) + 1 /\ Len(a) + 1 \in 1..Len(a) + 1
         /\ Append(a, x)[Len(a) + 1] = x /\ \A i \in 1..Len(a) : Append(a, x)[i] = a[i] /\ i \in 1..Len(a) + 1
  <1>1. Append(a, x) \in Seq(S) /\ Len(a) \in Nat /\ Len(Append(a, x)) = Len(a) + 1
    OBVIOUS
  <1>2. DOMAIN a = 1..Len(a) /\ DOMAIN Append(a, x) = 1..Len(a) + 1
    BY <1>1
  <1>3. Append(a, x)[Len(a) + 1] = x /\ \A i \in 1..Len(a) : Append(a, x)[i] = a[i]
    BY <1>1
  <1>4. Len(a) + 1 \in 1..Len(a) + 1 /\ \A i \in 1..Len(a) : i \in 1..Len(a) + 1
    BY <1>1
  <1> QED
    BY <1>1, <1>2, <1>3, <1>4

\* One more caller's port feeds the SUM, which is widened first.
LEMMA ConnectMoreSound ==
  ASSUME NEW G, Sound(G), NEW s \in User, NEW sp \in DOMAIN G.node[s].outs, NEW sum \in Sums, Live(G, sum),
         \A q \in DOMAIN G.node[s].fan : G.node[s].fan[q] # sum, NoWay(G, sum, s)
  PROVE  LET c == ConnectMore(G, s, sp, sum)
         IN  Sound(c.g) /\ c.g.watch = G.watch /\ c.ok \in BOOLEAN /\ (~c.ok => Trimmed(G, c.g))
  <1> DEFINE q == Append(G.node[sum].ins, Silent)
             p == Len(G.node[sum].ins) + 1
             K == [G EXCEPT !.node = [G.node EXCEPT ![sum] = [G.node[sum] EXCEPT !.ins = q]]]
             c == ConnectMore(G, s, sp, sum)
  <1>0. Wired(G) /\ G \in Graph /\ s \in Slot /\ sum \in Slot /\ s # sum /\ Silent \in EdgeId \cup {Silent}
        /\ Silent \notin EdgeId
    BY Constants0 DEF Sound, Leaving, Wired
  <1>1. c = ConnectFirst(K, s, sp, sum, p)
    <2>1. [G EXCEPT !.node[sum].ins = Append(@, Silent)]
             = [G EXCEPT !.node = [G.node EXCEPT ![sum] = [G.node[sum] EXCEPT !.ins = Append(G.node[sum].ins, Silent)]]]
      BY Zenon
    <2> QED
      BY <2>1, Zenon DEF ConnectMore
  <1>2. G.node[sum].ins \in Seq(EdgeId \cup {Silent})
    BY <1>0, NodeOf
  <1>3. /\ q \in Seq(EdgeId \cup {Silent}) /\ p \in Nat /\ DOMAIN q = 1..p /\ q[p] = Silent /\ p \in DOMAIN q
        /\ DOMAIN G.node[sum].ins = 1..p - 1
        /\ \A i \in 1..p - 1 : q[i] = G.node[sum].ins[i] /\ i \in DOMAIN q
        /\ \A i \in DOMAIN q : i \in 1..p - 1 \/ i = p
    <2> DEFINE a == G.node[sum].ins
               k == Len(a)
    <2>1. /\ q \in Seq(EdgeId \cup {Silent}) /\ k \in Nat
          /\ DOMAIN a = 1..k /\ DOMAIN q = 1..k + 1 /\ k + 1 \in 1..k + 1
          /\ q[k + 1] = Silent /\ \A i \in 1..k : q[i] = a[i] /\ i \in 1..k + 1
      BY <1>0, <1>2, AppendIs, ZenonT(40)
    <2> HIDE DEF k, q
    <2>2. p = k + 1
      BY DEF k
    <2> HIDE DEF p
    <2>3. p - 1 = k /\ p \in Nat /\ \A i \in 1..p : i \in 1..k \/ i = p
      BY <2>1, <2>2
    <2> QED
      BY <2>1, <2>2, <2>3
  <1> HIDE DEF q, p
  <1>4. /\ K \in Graph /\ InsBecome(G, K, sum, q)
        /\ KeepsFan(G, K) /\ KeepsOuts(G, K) /\ KeepsLinks(G, K) /\ KeepsEdges(G, K) /\ KeepsRest(G, K)
        /\ K.watch = G.watch
    BY <1>0, <1>3, NewInsIs, ZenonT(60)
  <1> HIDE DEF K
  <1>5. K.node[sum].ins = q /\ \A x \in Slot \ {sum} : K.node[x].ins = G.node[x].ins
    BY <1>0, <1>4 DEF InsBecome
  <1>6. \A i \in DOMAIN q : (i \in DOMAIN G.node[sum].ins /\ q[i] = G.node[sum].ins[i]) \/ q[i] = Silent
    BY <1>3
  <1>7. Wired(K)
    <2>1. Quieter(G, K)
      BY <1>5, <1>6 DEF Quieter
    <2>2. KeepsWriters(G, K) /\ K.pool = G.pool
      BY <1>4, OutsAreWriters DEF KeepsRest
    <2> QED
      BY <1>0, <1>4, <2>1, <2>2, WiredQuieter
  <1>8. SameHeard(G.node[sum].ins, K.node[sum].ins)
    <2>1. \A e \in EdgeId : \A i \in DOMAIN q : q[i] = e => i \in DOMAIN G.node[sum].ins /\ G.node[sum].ins[i] = e
      BY <1>0, <1>6
    <2>2. \A e \in EdgeId : \A i \in DOMAIN G.node[sum].ins : G.node[sum].ins[i] = e => i \in DOMAIN q /\ q[i] = e
      BY <1>3
    <2> QED
      BY <1>5, <2>1, <2>2 DEF SameHeard
  <1>9. Sound(K) /\ \A x \in Slot : Sources(K, x) = Sources(G, x)
    BY <1>4, <1>5, <1>7, <1>8, ReshapedSound DEF KeepsEdges
  <1>10. /\ sp \in DOMAIN K.node[s].outs /\ p \in DOMAIN K.node[sum].ins /\ K.node[sum].ins[p] = Silent
         /\ \A i \in DOMAIN K.node[s].fan : K.node[s].fan[i] # sum
    <2>1. K.node[s].outs = G.node[s].outs /\ K.node[s].fan = G.node[s].fan
      BY <1>0, <1>4 DEF KeepsOuts, KeepsFan
    <2> QED
      BY <1>3, <1>5, <2>1
  <1>13. NoWay(K, sum, s)
    BY <1>9, NoWayFewer DEF Fewer
  <1>11. /\ Sound(c.g) /\ c.g.watch = K.watch /\ c.ok \in BOOLEAN /\ (~c.ok => c.g = K)
    BY <1>0, <1>1, <1>9, <1>10, <1>13, ConnectFirstSound
  <1>12. Trimmed(G, K)
    <2>1. Kept(K) = Kept(G)
      BY <1>4, KeptKept, Constants0 DEF KeepsFan
    <2>2. G.next <= K.next
      BY <1>0, <1>4, NextIs DEF KeepsRest
    <2> QED
      BY <1>9, <2>1, <2>2 DEF Trimmed
  <1> HIDE DEF c
  <1> QED
    BY <1>4, <1>11, <1>12 DEF c

\* An input that fell silent is unlinked from what it heard, if that is gone for good.
LEMMA UnlinkSilenced ==
  ASSUME NEW G \in Graph, NEW F, Wired(F), NEW s \in Slot, NEW d \in Slot, NEW p,
         InsAre(G, F, d, p, Silent), FanIs(G, F, d, p, Nobody), KeepsOuts(G, F), KeepsLinks(G, F), KeepsRest(G, F)
  PROVE  LET Q == Unlink(F, s, d)
         IN  /\ Wired(Q) /\ Silenced(G, Q, s, d, p)
             /\ KeepsIns(F, Q) /\ KeepsFan(F, Q) /\ KeepsOuts(F, Q) /\ KeepsEdges(F, Q) /\ KeepsRest(F, Q)
             /\ Q.watch = F.watch
  <1> DEFINE Q == Unlink(F, s, d)
  <1>0. F \in Graph
    BY DEF Wired
  <1>1. /\ Q \in Graph
        /\ IF StillConnected(F, s, d) THEN KeepsLinks(F, Q) ELSE Unlinked(F, Q, s, d)
        /\ KeepsIns(F, Q) /\ KeepsFan(F, Q) /\ KeepsOuts(F, Q) /\ KeepsEdges(F, Q) /\ KeepsRest(F, Q)
        /\ Q.watch = F.watch
    BY <1>0, UnlinkIs
  <1> HIDE DEF Q
  <1>2. Wired(Q)
    <2>1. Quieter(F, Q) /\ KeepsWriters(F, Q)
      BY <1>1, InsAreQuieter, OutsAreWriters
    <2> QED
      BY <1>1, <2>1, WiredQuieter DEF KeepsRest
  <1>3. InsAre(G, Q, d, p, Silent) /\ FanIs(G, Q, d, p, Nobody) /\ KeepsOuts(G, Q) /\ KeepsRest(G, Q)
    BY <1>1 DEF InsAre, KeepsIns, FanIs, KeepsFan, KeepsOuts, KeepsRest
  <1>4. UnlinkedIfGone(G, Q, s, d)
    <2>1. StillConnected(F, s, d) <=> s \in Sources(F, d)
      BY StillIs
    <2>2. Sources(Q, d) = Sources(F, d)
      <3>1. KeepsSrc(F, Q)
        BY <1>1 DEF KeepsSrc, KeepsEdges
      <3> QED
        BY <1>0, <1>1, <3>1, SourcesKept
    <2>3. CASE s \in Sources(Q, d)
      BY <1>1, <2>1, <2>2, <2>3 DEF UnlinkedIfGone, KeepsLinks
    <2>4. CASE s \notin Sources(Q, d)
      <3>1. Unlinked(F, Q, s, d)
        BY <1>1, <2>1, <2>2, <2>4
      <3>2. Unlinked(G, Q, s, d)
        BY <3>1 DEF Unlinked, KeepsLinks
      <3> QED
        BY <2>4, <3>2 DEF UnlinkedIfGone
    <2> QED
      BY <2>3, <2>4
  <1>5. Silenced(G, Q, s, d, p)
    BY <1>3, <1>4 DEF Silenced
  <1> QED
    BY <1>1, <1>2, <1>5 DEF Q

LEMMA FloorIs ==
  ASSUME NEW i \in Int
  PROVE  Floor(i) \in Nat /\ Floor(i) >= i /\ (i >= 0 => Floor(i) = i)
  BY DEF Floor

\* A new SUM; the input d.dp let go of the edge e; and e, which a caller's port writes,
\* read by the SUM's first input in its place.
SumMade(G) == [G EXCEPT !.node[G.next] = NewNode(2, 1), !.next = @ + 1]
LetGo(G, d, dp, e) ==
    Unlink([SetIn(SumMade(G), d, dp, Silent) EXCEPT !.edge[e].ref = Floor(@ - 1)], G.edge[e].src, d)
Moved(G, d, dp, e) == Plug(LetGo(G, d, dp, e), e, G.edge[e].src, G.next, 1)

\* Before that nobody heard the SUM, and it heard nobody.
LEMMA UnbornFeeds ==
  ASSUME NEW G \in Graph, Unborn(G), Covered(G, Nobody), NEW n \in Slot \ Given(G)
  PROVE  Sources(G, n) = {} /\ \A x \in Slot : n \notin Sources(G, x)
  <1>1. G.node[n].ins = <<>> /\ G.node[n].succ = {}
    BY DEF Unborn
  <1>2. Sources(G, n) = {}
    <2>1. DOMAIN G.node[n].ins = {}
      BY <1>1
    <2> QED
      BY <2>1, SourcesAre
  <1> QED
    BY <1>1, <1>2, Constants0 DEF Covered

LEMMA MovedToSum ==
  ASSUME NEW G, Sound(G), NEW d \in User, NEW dp \in DOMAIN G.node[d].ins, NEW e \in EdgeId,
         G.node[d].ins[dp] = e, G.node[d].fan[dp] = Nobody, G.next \in Sums
  PROVE  LET old   == G.edge[e].src
             sum   == G.next
             G3    == Moved(G, d, dp, e)
         IN  /\ Sound(G3) /\ G3.watch = G.watch /\ G3.next = G.next + 1
             /\ old # d /\ old \in Sources(G, d) /\ Sources(G3, sum) = {old} /\ Exact(G3, Nobody, sum)
             /\ \A x \in Slot \ {sum} : Sources(G3, x) \subseteq Sources(G, x)
             /\ \A x \in User : G3.node[x].fan = G.node[x].fan /\ G3.node[x].outs = G.node[x].outs
             /\ ~IsHosted(G3, sum) /\ Live(G3, sum)
             /\ 1 \in DOMAIN G3.node[sum].outs /\ 2 \in DOMAIN G3.node[sum].ins /\ G3.node[sum].ins[2] = Silent
             /\ dp \in DOMAIN G3.node[d].ins /\ dp \in DOMAIN G3.node[d].fan /\ G3.node[d].ins[dp] = Silent
  <1> DEFINE old  == G.edge[e].src
             sum  == G.next
             node == NewNode(2, 1)
             G1   == [G EXCEPT !.node[sum] = node, !.next = @ + 1]
             F    == SetIn(G1, d, dp, Silent)
             k    == Floor(F.edge[e].ref - 1)
             R    == [F EXCEPT !.edge[e].ref = Floor(@ - 1)]
             G2   == Unlink(R, old, d)
             G3   == Plug(G2, e, old, sum, 1)
  <1>00. G3 = Moved(G, d, dp, e)
    BY DEF SumMade, LetGo, Moved
  <1>0. /\ Wired(G) /\ G \in Graph /\ Unborn(G) /\ Shapes(G) /\ ForHosts(G) /\ Acyclic(G)
        /\ d \in Slot /\ sum \in Slot /\ sum \notin User /\ d # sum
        /\ Silent \in EdgeId \cup {Silent} /\ Silent # e /\ Nobody \notin Slot
    BY Constants0 DEF Sound, Leaving, Wired
  <1>1. Written(G, e) /\ old \in Slot /\ old \in Sources(G, d)
    BY <1>0, FeederIs
  <1>2. old \in User
    <2>1. old \in Sums => G.node[d].fan[dp] = old
      BY <1>0 DEF ForHosts
    <2> QED
      BY <1>0, <1>1, <2>1 DEF Slot
  <1>3. old # d
    BY <1>0, <1>1, NoLoop
  <1> HIDE DEF old
  \* The SUM is made.
  <1>4. /\ node \in Node /\ node.succ = {} /\ node.indeg = 0 /\ Len(node.ins) = 2 /\ Len(node.fan) = 2
        /\ Len(node.outs) = 1 /\ DOMAIN node.ins = 1..2 /\ DOMAIN node.fan = 1..2 /\ DOMAIN node.outs = 1..1
        /\ \A p \in 1..2 : node.ins[p] = Silent
    <2> DEFINE i == 2
               o == 1
    <2>1. i \in Nat /\ o \in Nat
      OBVIOUS
    <2>2. node = NewNode(i, o)
      OBVIOUS
    <2> HIDE DEF i, o, node
    <2>3. /\ node \in Node /\ node.succ = {} /\ node.indeg = 0 /\ Len(node.ins) = i /\ Len(node.fan) = i
          /\ Len(node.outs) = o /\ DOMAIN node.ins = 1..i /\ DOMAIN node.fan = 1..i /\ DOMAIN node.outs = 1..o
          /\ \A p \in 1..i : node.ins[p] = Silent
      BY <2>1, <2>2, NewNodeIs
    <2> QED
      BY <2>3 DEF i, o
  <1>5. /\ G1 \in Graph /\ NodeIs(G, G1, sum, node) /\ KeepsEdges(G, G1) /\ G1.pool = G.pool /\ G1.born = G.born
        /\ G1.watch = G.watch /\ G1.next = sum + 1
    <2> DEFINE M == [G EXCEPT !.node = [G.node EXCEPT ![sum] = node]]
    <2>1. /\ M \in Graph /\ \A x \in Slot : M.node[x] = IF x = sum THEN node ELSE G.node[x]
          /\ KeepsEdges(G, M) /\ KeepsRest(G, M) /\ M.watch = G.watch
      BY <1>0, <1>4, NodeChanged
    <2>2. G1 = [M EXCEPT !.next = sum + 1]
      OBVIOUS
    <2> HIDE DEF M, G1
    <2>3. sum + 1 \in Nat
      BY <1>0, NextIs
    <2>4. G1 \in Graph
      BY <2>1, <2>2, <2>3 DEF Graph
    <2>5. /\ G1.node = M.node /\ G1.edge = M.edge /\ G1.free = M.free /\ G1.pool = M.pool /\ G1.born = M.born
          /\ G1.watch = M.watch /\ G1.next = sum + 1
      BY <2>1, <2>2 DEF Graph
    <2> QED
      BY <2>1, <2>4, <2>5 DEF NodeIs, KeepsEdges, KeepsRest
  <1> HIDE DEF G1
  <1>6. sum \notin Given(G) /\ Given(G1) = Given(G) \cup {sum} /\ G.next <= G1.next
    <2>1. G.born \subseteq User /\ sum \in Nat
      BY <1>0, NextIs DEF Graph
    <2>2. sum \notin Given(G)
      BY <1>0, <2>1 DEF Given
    <2>3. \A n \in Sums : n < sum + 1 <=> n < sum \/ n = sum
      <3>1. \A n \in Sums : n \in Nat
        BY Constants0
      <3> QED
        BY <2>1, <3>1
    <2>4. {n \in Sums : n < sum + 1} = {n \in Sums : n < sum} \cup {sum}
      BY <2>3
    <2> QED
      BY <1>5, <2>1, <2>2, <2>4 DEF Given
  <1>7. /\ Sound(G1) /\ Exact(G1, Nobody, sum) /\ Sources(G1, sum) = {}
        /\ \A x \in Slot \ {sum} : Sources(G1, x) = Sources(G, x)
        /\ ~IsHosted(G1, sum)
    <2>1. NodeIs(G, G1, sum, NewNode(2, 1))
      BY <1>5 DEF node
    <2>2. sum \in Slot \ Given(G)
      BY <1>0, <1>6
    <2> HIDE DEF sum
    <2> QED
      BY <1>5, <1>6, <2>1, <2>2, BornSound
  <1>8. /\ G1.node[sum] = node /\ \A x \in Slot \ {sum} : G1.node[x] = G.node[x]
        /\ dp \in DOMAIN G1.node[d].ins /\ G1.node[d].ins[dp] = e /\ G1.edge = G.edge
    BY <1>0, <1>5 DEF NodeIs, KeepsEdges
  <1>9. Wired(G1)
    BY <1>7 DEF Sound, Leaving
  \* Input d.dp falls silent.
  <1>10. /\ F \in Graph /\ InsAre(G1, F, d, dp, Silent)
         /\ KeepsFan(G1, F) /\ KeepsOuts(G1, F) /\ KeepsLinks(G1, F) /\ KeepsEdges(G1, F) /\ KeepsRest(G1, F)
         /\ F.watch = G1.watch
    BY <1>0, <1>5, <1>8, SetInIs
  <1> HIDE DEF F
  <1>11. k \in Nat /\ k >= G1.edge[e].ref - 1 /\ G1.edge[e].ref \in Nat
    <2>1. F.edge[e].ref \in Nat /\ F.edge[e].ref = G1.edge[e].ref
      BY <1>10, EdgeOf DEF KeepsEdges
    <2> QED
      BY <2>1, FloorIs
  <1>12. R = [F EXCEPT !.edge = [F.edge EXCEPT ![e] = [F.edge[e] EXCEPT !.ref = k]]]
    OBVIOUS
  <1> HIDE DEF k
  <1>13. R \in Graph /\ R.node = F.node /\ R.free = F.free /\ RefIs(F, R, e, k) /\ KeepsRest(F, R) /\ R.watch = F.watch
    BY <1>10, <1>11, <1>12, RefChanged
  <1> HIDE DEF R
  <1>14. /\ InsAre(G1, R, d, dp, Silent) /\ KeepsFan(G1, R) /\ KeepsOuts(G1, R) /\ KeepsLinks(G1, R)
         /\ KeepsRest(G1, R) /\ R.free = G1.free /\ RefIs(G1, R, e, k) /\ R.watch = G1.watch
    BY <1>10, <1>13 DEF InsAre, KeepsFan, KeepsOuts, KeepsLinks, KeepsRest, KeepsEdges, RefIs
  <1>15. Wired(R)
    <2>1. Cardinality(ReadersOf(R, e)) + 1 <= Cardinality(ReadersOf(G1, e))
      BY <1>0, <1>5, <1>8, <1>13, <1>14, ReadersSilenced
    <2>2. Cardinality(ReadersOf(G1, e)) <= G1.edge[e].ref
      BY <1>9 DEF Wired, Counted
    <2>3. Cardinality(ReadersOf(R, e)) \in Nat /\ Cardinality(ReadersOf(G1, e)) \in Nat
      BY <1>5, <1>13, ReadersFinite
    <2>4. k >= Cardinality(ReadersOf(R, e))
      BY <1>11, <2>1, <2>2, <2>3
    <2> QED
      BY <1>0, <1>8, <1>9, <1>11, <1>13, <1>14, <2>4, SilencedWired
  <1>16. FanIs(G1, R, d, dp, Nobody)
    <2>1. G1.node[d].fan[dp] = Nobody
      BY <1>0, <1>8
    <2> QED
      BY <1>0, <1>14, <2>1, FanIsNobody
  <1>17. /\ Wired(G2) /\ Silenced(G1, G2, old, d, dp)
         /\ KeepsIns(R, G2) /\ KeepsFan(R, G2) /\ KeepsOuts(R, G2) /\ KeepsEdges(R, G2) /\ KeepsRest(R, G2)
         /\ G2.watch = R.watch
    BY <1>0, <1>1, <1>5, <1>14, <1>15, <1>16, UnlinkSilenced
  <1> HIDE DEF G2
  <1>18. /\ InsAre(G1, G2, d, dp, Silent) /\ KeepsFan(G1, G2) /\ KeepsOuts(G1, G2) /\ KeepsRest(G1, G2)
         /\ RefIs(G1, G2, e, k) /\ G2.watch = G1.watch
    BY <1>14, <1>17 DEF InsAre, KeepsIns, KeepsFan, KeepsOuts, KeepsRest, KeepsEdges, RefIs
  <1>19. Sound(G2) /\ \A x \in Slot : Exact(G1, Nobody, x) => Exact(G2, Nobody, x)
    <2>1. \A f \in EdgeId : G2.edge[f].src = G1.edge[f].src
      BY <1>18 DEF RefIs
    <2>2. G1.edge[e].src = old /\ old # Nobody
      BY <1>0, <1>1, <1>8 DEF old
    <2> QED
      BY <1>0, <1>1, <1>7, <1>8, <1>17, <2>1, <2>2, SilencedLeaving DEF Sound
  <1>20. \A x \in Slot : IF x = d THEN Sources(G2, d) \cup {old} = Sources(G1, d) ELSE Sources(G2, x) = Sources(G1, x)
    <2>1. \A f \in EdgeId : G2.edge[f].src = G1.edge[f].src
      BY <1>18 DEF RefIs
    <2>2. G1.edge[e].src = old /\ G2 \in Graph
      BY <1>8, <1>17 DEF old, Wired
    <2> QED
      BY <1>0, <1>1, <1>5, <1>8, <1>18, <2>1, <2>2, SourcesSilenced
  <1>21. \A x \in Slot : /\ DOMAIN G2.node[x].ins = DOMAIN G1.node[x].ins
                         /\ \A q \in DOMAIN G1.node[x].ins :
                               G2.node[x].ins[q] = IF x = d /\ q = dp THEN Silent ELSE G1.node[x].ins[q]
    BY <1>0, <1>5, <1>8, <1>18, InsAreAt
  <1>22. G2.node[sum].fan = node.fan /\ G2.node[sum].outs = node.outs
    BY <1>0, <1>8, <1>18 DEF KeepsFan, KeepsOuts
  <1>23. /\ 1 \in DOMAIN G2.node[sum].ins /\ 2 \in DOMAIN G2.node[sum].ins
         /\ G2.node[sum].ins[1] = Silent /\ G2.node[sum].ins[2] = Silent
    <2>1. 1 \in 1..2 /\ 2 \in 1..2
      OBVIOUS
    <2> QED
      BY <1>0, <1>4, <1>8, <1>21, <2>1
  <1>24. dp \in DOMAIN G2.node[d].ins /\ G2.node[d].ins[dp] = Silent
    BY <1>0, <1>8, <1>21
  <1>25. ~IsHosted(G2, sum)
    BY <1>7, <1>18, KeptKept, Constants0 DEF KeepsFan
  <1>26. Written(G2, e) /\ G2.edge[e].src = old
    <2>1. /\ G.edge[e].used /\ G.edge[e].port \in DOMAIN G.node[old].outs
          /\ G.node[old].outs[G.edge[e].port] = e
      BY <1>1 DEF Written, old
    <2>2. G2.node[old].outs = G.node[old].outs
      <3>1. old # sum
        BY <1>0, <1>2
      <3> QED
        BY <1>1, <1>8, <1>18, <3>1 DEF KeepsOuts
    <2>3. G2.edge[e].used = G.edge[e].used /\ G2.edge[e].src = old /\ G2.edge[e].port = G.edge[e].port
      BY <1>8, <1>18 DEF RefIs, old
    <2> QED
      BY <1>1, <2>1, <2>2, <2>3 DEF Written
  \* The old producer feeds the SUM.
  <1>27. G2 \in Graph
    BY <1>17 DEF Wired
  <1>28. G3 \in Graph /\ Plugged(G2, G3, e, old, sum, 1) /\ KeepsFan(G2, G3) /\ G3.watch = G2.watch
    BY <1>0, <1>1, <1>23, <1>27, PlugIs
  <1> HIDE DEF G3
  <1>29. old # sum /\ \A q \in DOMAIN G2.node[old].fan : G2.node[old].fan[q] # sum
    BY <1>0, <1>2, <1>25 DEF IsHosted
  <1>42. NoWay(G2, sum, old)
    <2>1. \A x \in Slot : sum \notin Sources(G, x)
      BY <1>0, <1>6, UnbornFeeds DEF Sound, Leaving
    <2>2. Below(G2, {sum})
      BY <1>7, <1>20, <2>1 DEF Below
    <2> QED
      BY <1>0, <1>29, <2>2 DEF NoWay
  <1>30. Sound(G3)
    BY <1>0, <1>2, <1>19, <1>23, <1>26, <1>28, <1>29, <1>42, PluggedSound
  <1>31. /\ \A x \in Slot : Exact(G2, Nobody, x) => Exact(G3, Nobody, x)
         /\ \A x \in Slot : Sources(G3, x) = IF x = sum THEN Sources(G2, sum) \cup {old} ELSE Sources(G2, x)
         /\ \A x \in Slot : /\ DOMAIN G3.node[x].ins = DOMAIN G2.node[x].ins
                            /\ \A q \in DOMAIN G2.node[x].ins :
                                  G3.node[x].ins[q] = IF x = sum /\ q = 1 THEN e ELSE G2.node[x].ins[q]
    BY <1>0, <1>1, <1>19, <1>23, <1>26, <1>28, <1>29, <1>42, PluggedKeeps
  <1>32. KeepsFan(G2, G3) /\ KeepsOuts(G2, G3) /\ KeepsRest(G2, G3)
    BY <1>28 DEF Plugged
  <1>33. G3.watch = G.watch /\ G3.next = sum + 1
    BY <1>5, <1>18, <1>28, <1>32 DEF KeepsRest
  <1>34. Sources(G3, sum) = {old} /\ Exact(G3, Nobody, sum)
    BY <1>0, <1>7, <1>19, <1>20, <1>31
  <1>35. \A x \in Slot \ {sum} : Sources(G3, x) \subseteq Sources(G, x)
    BY <1>7, <1>20, <1>31
  <1>36. \A x \in User : G3.node[x].fan = G.node[x].fan /\ G3.node[x].outs = G.node[x].outs
    <2> SUFFICES ASSUME NEW x \in User PROVE G3.node[x].fan = G.node[x].fan /\ G3.node[x].outs = G.node[x].outs
      OBVIOUS
    <2>1. x \in Slot \ {sum}
      BY <1>0, Constants0
    <2> QED
      BY <1>8, <1>18, <1>32, <2>1 DEF KeepsFan, KeepsOuts
  <1>37. ~IsHosted(G3, sum)
    BY <1>25, <1>32, KeptKept, Constants0 DEF KeepsFan
  <1>38. 1 \in DOMAIN G3.node[sum].outs /\ Live(G3, sum)
    <2>1. G3.node[sum].outs = node.outs
      BY <1>0, <1>22, <1>32 DEF KeepsOuts
    <2>2. Len(G3.node[sum].outs) = 1
      BY <1>4, <2>1
    <2>3. Live(G3, sum)
      BY <1>0, <1>28, <2>2, EmptyIs
    <2> QED
      BY <1>4, <2>1, <2>3
  <1>39. 2 \in DOMAIN G3.node[sum].ins /\ G3.node[sum].ins[2] = Silent
    BY <1>0, <1>23, <1>31
  <1>40. dp \in DOMAIN G3.node[d].ins /\ G3.node[d].ins[dp] = Silent
    BY <1>0, <1>24, <1>31
  <1>41. dp \in DOMAIN G3.node[d].fan
    <2>1. dp \in DOMAIN G.node[d].fan
      BY <1>0, PortsOf DEF Shapes
    <2> QED
      BY <1>36, <2>1
  <1> QED
    BY <1>00, <1>1, <1>3, <1>30, <1>33, <1>34, <1>35, <1>36, <1>37, <1>38, <1>39, <1>40, <1>41
    DEF old

\* A second caller's port feeds an input: a SUM comes in between.
LEMMA ConnectSecondSound ==
  ASSUME NEW G, Sound(G), NEW s \in User, NEW sp \in DOMAIN G.node[s].outs, NEW d \in User, s # d,
         NEW dp \in DOMAIN G.node[d].ins, G.node[d].ins[dp] # Silent, G.node[d].fan[dp] = Nobody, G.next \in Sums,
         s \notin Down(G, d)
  PROVE  LET c == ConnectSecond(G, s, sp, d, dp)
         IN  Sound(c.g) /\ c.g.watch = G.watch /\ c.ok \in BOOLEAN /\ (~c.ok => Trimmed(G, c.g))
  <1> DEFINE e     == G.node[d].ins[dp]
             old   == G.edge[e].src
             sum   == G.next
             G3    == Moved(G, d, dp, e)
             out   == Claim(G3, sum, 1)
             O     == out.g
             fed   == ConnectFirst(O, s, sp, sum, 2)
             D     == fed.g
             f     == D.node[sum].outs[1]
             G4    == Plug(D, f, sum, d, dp)
             H     == [G4 EXCEPT !.node[d].fan[dp] = sum]
             c     == ConnectSecond(G, s, sp, d, dp)
  <1>0. /\ G \in Graph /\ d \in Slot /\ s \in Slot /\ sum \in Slot /\ sum \notin User /\ d # sum /\ s # sum
        /\ Nobody \notin Slot /\ sum \in Nat
    <2>1. G \in Graph
      BY DEF Sound, Leaving, Wired
    <2> QED
      BY <2>1, NextIs, Constants0
  <1>1. e \in EdgeId
    BY <1>0, PortsOf
  <1>2. c = IF ~out.ok THEN out ELSE IF ~fed.ok THEN fed ELSE Done(H)
    BY DEF ConnectSecond, Moved, LetGo, SumMade
  <1>21. G.node[d].ins[dp] = e
    OBVIOUS
  <1>22. G3 = Moved(G, d, dp, e) /\ old = G.edge[e].src /\ sum = G.next
    OBVIOUS
  <1> HIDE DEF e, G3, old, sum
  <1>3. /\ Sound(G3) /\ G3.watch = G.watch /\ G3.next = sum + 1
        /\ old # d /\ old \in Sources(G, d) /\ Sources(G3, sum) = {old} /\ Exact(G3, Nobody, sum)
        /\ \A x \in Slot \ {sum} : Sources(G3, x) \subseteq Sources(G, x)
        /\ \A x \in User : G3.node[x].fan = G.node[x].fan /\ G3.node[x].outs = G.node[x].outs
        /\ ~IsHosted(G3, sum) /\ Live(G3, sum)
        /\ 1 \in DOMAIN G3.node[sum].outs /\ 2 \in DOMAIN G3.node[sum].ins /\ G3.node[sum].ins[2] = Silent
        /\ dp \in DOMAIN G3.node[d].ins /\ dp \in DOMAIN G3.node[d].fan /\ G3.node[d].ins[dp] = Silent
    BY <1>1, <1>21, <1>22, MovedToSum, SMTT(60)
  <1> USE DEF old, sum
  \* Neither the SUM nor what feeds it is below d.
  <1>8. sum \notin Down(G, d) /\ old \notin Down(G, d) /\ \A x \in Slot : sum \notin Sources(G, x)
    <2>1. Unborn(G) /\ Covered(G, Nobody) /\ Acyclic(G)
      BY DEF Sound, Leaving
    <2>2. sum \in Slot \ Given(G)
      <3>1. G.born \subseteq User
        BY <1>0 DEF Graph
      <3> QED
        BY <1>0, <3>1 DEF Given
    <2> HIDE DEF sum, old
    <2>3. Sources(G, sum) = {} /\ \A x \in Slot : sum \notin Sources(G, x)
      BY <1>0, <2>1, <2>2, UnbornFeeds
    <2>4. sum \notin Down(G, d)
      BY <1>0, <2>3, NotAmong
    <2>5. old \notin Down(G, d)
      BY <1>0, <1>3, <2>1, NotBelow
    <2> QED
      BY <2>3, <2>4, <2>5
  <1>4. Trimmed(G, G3)
    <2>1. Kept(G3) = Kept(G)
      BY <1>3, KeptKept
    <2>2. sum <= sum + 1 /\ sum >= sum
      BY <1>0
    <2> QED
      BY <1>0, <1>3, <2>1, <2>2 DEF Trimmed
  <1>5. /\ Sound(O) /\ KeepsIns(G3, O) /\ KeepsFan(G3, O) /\ KeepsRest(G3, O) /\ O.watch = G3.watch
        /\ Persists(G3, O) /\ \A x \in Slot : Sources(O, x) = Sources(G3, x)
        /\ \A x \in Slot : Exact(G3, Nobody, x) => Exact(O, Nobody, x)
        /\ out.ok => O.node[sum].outs[1] # Silent
        /\ out.ok \in BOOLEAN /\ (~out.ok => O = G3)
    BY <1>0, <1>3, ClaimSound
  <1> HIDE DEF O
  <1>6. CASE ~out.ok
    <2>1. c = out
      BY <1>2, <1>6, Zenon
    <2>2. Sound(O) /\ O.watch = G.watch /\ out.ok \in BOOLEAN /\ Trimmed(G, O)
      BY <1>3, <1>4, <1>5, <1>6
    <2> QED
      BY <2>1, <2>2 DEF O
  <1>7. CASE out.ok
    <2> HIDE DEF out
    <2>1. /\ sp \in DOMAIN O.node[s].outs /\ 2 \in DOMAIN O.node[sum].ins /\ O.node[sum].ins[2] = Silent
          /\ \A q \in DOMAIN O.node[s].fan : O.node[s].fan[q] # sum
      <3>1. O.node[s].fan = G3.node[s].fan
        BY <1>0, <1>5 DEF KeepsFan
      <3>2. \A q \in DOMAIN O.node[s].fan : O.node[s].fan[q] # sum
        BY <1>3, <3>1 DEF IsHosted
      <3>3. sp \in DOMAIN O.node[s].outs
        BY <1>0, <1>3, <1>5 DEF Persists
      <3>4. O.node[sum].ins = G3.node[sum].ins
        BY <1>0, <1>5 DEF KeepsIns
      <3> QED
        BY <1>3, <3>2, <3>3, <3>4
    <2>5. NoWay(O, sum, s)
      <3>1. Below(O, {sum})
        BY <1>0, <1>3, <1>5, <1>8 DEF Below
      <3> QED
        BY <1>0, <3>1 DEF NoWay
    <2>2. /\ Sound(D) /\ KeepsFan(O, D) /\ KeepsRest(O, D) /\ D.watch = O.watch /\ Persists(O, D)
          /\ \A x \in Slot : Sources(D, x) \subseteq IF x = sum THEN Sources(O, sum) \cup {s} ELSE Sources(O, x)
          /\ \A x \in Slot : Exact(O, Nobody, x) => Exact(D, Nobody, x)
          /\ \A x \in Slot : \A q \in DOMAIN O.node[x].ins : ~(x = sum /\ q = 2) =>
                q \in DOMAIN D.node[x].ins /\ D.node[x].ins[q] = O.node[x].ins[q]
          /\ fed.ok \in BOOLEAN /\ (~fed.ok => D = O)
      BY <1>0, <1>5, <2>1, <2>5, ConnectFirstSound
    <2>3. CASE ~fed.ok
      <3>1. c = fed
        BY <1>2, <1>7, <2>3
      <3>2. Sound(D) /\ D.watch = G.watch /\ fed.ok \in BOOLEAN
        BY <1>3, <1>5, <2>2
      <3> HIDE DEF D
      <3>3. Trimmed(G, D)
        <4>1. D = O
          BY <2>2, <2>3
        <4>2. Kept(O) = Kept(G3)
          BY <1>5, KeptKept, Constants0 DEF KeepsFan
        <4> QED
          BY <1>4, <1>5, <4>1, <4>2 DEF Trimmed, KeepsRest
      <3> QED
        BY <3>1, <3>2, <3>3 DEF D
    <2>4. CASE fed.ok
      <3> HIDE DEF c, fed, H
      <3>1. c.g = H /\ c.ok = TRUE
        BY <1>2, <1>7, <2>4 DEF Done
      <3> HIDE DEF D
      <3>2. Wired(D) /\ D \in Graph
        BY <2>2 DEF Sound, Leaving, Wired
      <3>3. 1 \in DOMAIN D.node[sum].outs /\ f # Silent
        <4>1. 1 \in DOMAIN O.node[sum].outs
          BY <1>0, <1>3, <1>5 DEF Persists
        <4> QED
          BY <1>0, <1>5, <1>7, <2>2, <4>1 DEF Persists
      <3>4. f \in EdgeId /\ Written(D, f) /\ D.edge[f].src = sum
        BY <1>0, <3>2, <3>3, OwnedWritten
      <3> HIDE DEF f
      <3>5. dp \in DOMAIN D.node[d].ins /\ D.node[d].ins[dp] = Silent
        <4>1. dp \in DOMAIN O.node[d].ins /\ O.node[d].ins[dp] = Silent
          BY <1>0, <1>3, <1>5 DEF KeepsIns
        <4> QED
          BY <1>0, <2>2, <4>1
      <3>6. G4 \in Graph /\ Plugged(D, G4, f, sum, d, dp) /\ KeepsFan(D, G4) /\ G4.watch = D.watch
        BY <1>0, <3>2, <3>4, <3>5, PlugIs
      <3> HIDE DEF G4
      <3>7. H = SetFan(G4, d, dp, sum)
        BY Zenon DEF SetFan, H
      <3>8. dp \in DOMAIN G4.node[d].fan /\ sum \in Sums \cup {Nobody}
        BY <1>0, <1>3, <1>5, <2>2, <3>6 DEF KeepsFan
      <3>9. /\ H \in Graph /\ FanIs(G4, H, d, dp, sum)
            /\ KeepsIns(G4, H) /\ KeepsOuts(G4, H) /\ KeepsLinks(G4, H) /\ KeepsEdges(G4, H) /\ KeepsRest(G4, H)
            /\ H.watch = G4.watch
        BY <1>0, <3>6, <3>7, <3>8, SetFanIs
      <3> HIDE DEF H
      <3>10. Plugged(D, H, f, sum, d, dp)
        <4> HIDE DEF sum
        <4>1. /\ InsAre(D, G4, d, dp, f) /\ RefIs(D, G4, f, D.edge[f].ref + 1) /\ Linked(D, G4, sum, d)
              /\ KeepsOuts(D, G4) /\ G4.free = D.free /\ KeepsRest(D, G4)
          BY <3>6 DEF Plugged
        <4>2. InsAre(D, H, d, dp, f)
          BY <3>9, <4>1 DEF InsAre, KeepsIns
        <4>3. RefIs(D, H, f, D.edge[f].ref + 1)
          BY <3>9, <4>1 DEF RefIs, KeepsEdges
        <4>4. Linked(D, H, sum, d)
          BY <3>9, <4>1 DEF Linked, KeepsLinks
        <4>5. KeepsOuts(D, H) /\ H.free = D.free /\ KeepsRest(D, H)
          BY <3>9, <4>1 DEF KeepsOuts, KeepsEdges, KeepsRest
        <4> QED
          BY <4>2, <4>3, <4>4, <4>5 DEF Plugged
      <3>11. FanIs(D, H, d, dp, sum)
        BY <3>6, <3>9 DEF FanIs, KeepsFan
      <3>12. D.node[sum].outs[1] = f
        BY DEF f
      <3>13. Live(D, sum)
        <4>1. 1 \in 1..Len(D.node[sum].outs)
          BY <1>0, <3>2, <3>3, PortsOf
        <4> QED
          BY <1>0, <3>2, <4>1, EmptyIs
      <3>14. sum < D.next
        <4>1. D.next = sum + 1
          BY <1>3, <1>5, <2>2 DEF KeepsRest
        <4> QED
          BY <1>0, <4>1
      <3>15. ~IsHosted(D, sum)
        <4>1. \A x \in User : D.node[x].fan = G3.node[x].fan
          BY <1>5, <2>2, Constants0 DEF KeepsFan
        <4> QED
          BY <1>3, <4>1, KeptKept
      <3>16. d \notin Sources(D, sum)
        <4>1. Sources(D, sum) \subseteq {old, s}
          BY <1>0, <1>3, <1>5, <2>2
        <4> QED
          BY <1>3, <4>1
      <3>17. Exact(D, Nobody, sum)
        BY <1>0, <1>3, <1>5, <2>2
      <3>20. NoWay(D, d, sum)
        <4> DEFINE B == Down(G, d)
        <4>1. B \in SUBSET Slot /\ d \in B /\ Below(G, B) /\ s \notin B /\ sum \notin B /\ old \notin B
          BY <1>0, <1>8, DownIs
        <4> HIDE DEF B, old, sum
        <4>2. \A x \in Slot : IF x = sum THEN Sources(D, x) \subseteq {old, s} ELSE Sources(D, x) \subseteq Sources(G, x)
          BY <1>0, <1>3, <1>5, <2>2
        <4>3. Below(D, B)
          BY <4>1, <4>2 DEF Below
        <4> QED
          BY <4>1, <4>3 DEF NoWay
      <3>18. Sound(H)
        BY <2>2, <3>4, <3>5, <3>9, <3>10, <3>11, <3>12, <3>13, <3>14, <3>15, <3>16, <3>17, <3>20, HostPluggedSound
      <3>19. H.watch = G.watch
        BY <1>3, <1>5, <2>2, <3>6, <3>9
      <3> QED
        BY <3>1, <3>18, <3>19 DEF c
    <2> QED
      BY <2>2, <2>3, <2>4
  <1> QED
    BY <1>5, <1>6, <1>7

\* What is not below a node is not below the SUM in front of it.
LEMMA HostNoWay ==
  ASSUME NEW G \in Graph, Shapes(G), OneHost(G), ForHosts(G), NEW d \in User, NEW p \in DOMAIN G.node[d].fan,
         NEW sum \in Sums, G.node[d].fan[p] = sum, NEW s \in User, s \notin Down(G, d)
  PROVE  NoWay(G, sum, s)
  <1> DEFINE D == Down(G, d) \cup {sum}
  <1>0. d \in Slot /\ sum \in Slot /\ s # sum
    BY Constants0
  <1>1. Down(G, d) \in SUBSET Slot /\ d \in Down(G, d) /\ Below(G, Down(G, d))
    BY <1>0, DownIs
  <1>2. ASSUME NEW x \in Slot, sum \in Sources(G, x) PROVE x = d
    <2>1. PICK q \in DOMAIN G.node[x].ins, e \in EdgeId : G.node[x].ins[q] = e /\ G.edge[e].src = sum
      BY <1>2, SourcesAre
    <2>2. q \in DOMAIN G.node[x].fan /\ G.node[x].fan[q] = sum
      BY <2>1 DEF ForHosts
    <2>3. x \in User
      BY <1>0, <2>2, Constants0 DEF Shapes, Slot
    <2> QED
      BY <2>2, <2>3 DEF OneHost
  <1>3. Below(G, D)
    BY <1>1, <1>2 DEF Below
  <1> QED
    BY <1>0, <1>1, <1>3 DEF NoWay

\* A caller's connection keeps the graph sound, refused or not.
LEMMA ConnectSound ==
  ASSUME NEW G, Sound(G), G.next \in Sums, NEW s \in User, NEW sp, NEW d \in User, NEW dp
  PROVE  LET c == Connect(G, s, sp, d, dp)
         IN  Sound(c.g) /\ c.g.watch = G.watch /\ c.ok \in BOOLEAN /\ (~c.ok => Trimmed(G, c.g))
  <1> DEFINE c == Connect(G, s, sp, d, dp)
             sum == G.node[d].fan[dp]
  <1>0. /\ G \in Graph /\ d \in Slot /\ s \in Slot /\ Hosted(G) /\ OneHost(G) /\ Shapes(G) /\ ForHosts(G)
        /\ Covered(G, Nobody)
        /\ User \cap Sums = {} /\ Nobody \notin Slot
    BY Constants0 DEF Sound, Leaving, Wired
  <1>1. CASE c = Refused(G)
    <2>1. c.g = G /\ c.ok = FALSE
      BY <1>1 DEF Refused
    <2> HIDE DEF c
    <2> QED
      BY <1>0, <2>1, TrimmedSame DEF c
  <1>2. CASE HasPorts(G, s, sp, d, dp) /\ s \notin Down(G, d) /\ G.node[d].ins[dp] = Silent /\ c = ConnectFirst(G, s, sp, d, dp)
    <2>1. sp \in DOMAIN G.node[s].outs /\ dp \in DOMAIN G.node[d].ins
      BY <1>2 DEF HasPorts
    <2>2. \A q \in DOMAIN G.node[s].fan : G.node[s].fan[q] # d
      <3>1. \A q \in DOMAIN G.node[s].fan : G.node[s].fan[q] \in Sums \cup {Nobody}
        BY <1>0, PortsOf
      <3> QED
        BY <1>0, <3>1
    <2>4. s # d /\ NoWay(G, d, s)
      BY <1>0, <1>2, DownIs DEF NoWay
    <2>3. Sound(c.g) /\ c.g.watch = G.watch /\ c.ok \in BOOLEAN /\ (~c.ok => c.g = G)
      BY <1>0, <1>2, <2>1, <2>2, <2>4, ConnectFirstSound
    <2> HIDE DEF c
    <2> QED
      BY <1>0, <2>3, TrimmedSame DEF c
  <1>3. CASE /\ HasPorts(G, s, sp, d, dp) /\ s \notin Down(G, d) /\ G.node[d].ins[dp] # Silent /\ sum = Nobody
             /\ c = ConnectSecond(G, s, sp, d, dp)
    <2>1. sp \in DOMAIN G.node[s].outs /\ dp \in DOMAIN G.node[d].ins
      BY <1>3 DEF HasPorts
    <2>2. Sound(c.g) /\ c.g.watch = G.watch /\ c.ok \in BOOLEAN /\ (~c.ok => Trimmed(G, c.g))
      <3>1. s # d
        BY <1>0, <1>3, DownIs
      <3> QED
        BY <1>3, <2>1, <3>1, ConnectSecondSound
    <2> QED
      BY <2>2
  <1>4. CASE /\ HasPorts(G, s, sp, d, dp) /\ s \notin Down(G, d) /\ sum # Nobody /\ Live(G, sum)
             /\ c = ConnectMore(G, s, sp, sum)
    <2>1. sp \in DOMAIN G.node[s].outs /\ dp \in DOMAIN G.node[d].ins
      BY <1>4 DEF HasPorts
    <2>2. dp \in DOMAIN G.node[d].fan
      BY <1>0, <2>1, PortsOf DEF Shapes
    <2>3. sum \in Sums
      <3>1. sum \in Sums \cup {Nobody}
        BY <1>0, <2>2, PortsOf
      <3> QED
        BY <1>4, <3>1
    <2> HIDE DEF c
    <2>4. \A q \in DOMAIN G.node[s].fan : G.node[s].fan[q] # sum
      <3>1. s # d
        BY <1>0, <1>4, DownIs
      <3> QED
        BY <1>0, <2>2, <2>3, <3>1 DEF OneHost
    <2>6. NoWay(G, sum, s)
      BY <1>0, <1>4, <2>2, <2>3, HostNoWay
    <2> HIDE DEF sum
    <2>5. Sound(c.g) /\ c.g.watch = G.watch /\ c.ok \in BOOLEAN /\ (~c.ok => Trimmed(G, c.g))
      BY <1>4, <2>1, <2>3, <2>4, <2>6, ConnectMoreSound
    <2> QED
      BY <2>5 DEF c
  <1> HIDE DEF c
  <1>5. \/ c = Refused(G)
        \/ HasPorts(G, s, sp, d, dp) /\ s \notin Down(G, d) /\ G.node[d].ins[dp] = Silent /\ c = ConnectFirst(G, s, sp, d, dp)
        \/ /\ HasPorts(G, s, sp, d, dp) /\ s \notin Down(G, d) /\ G.node[d].ins[dp] # Silent /\ sum = Nobody
           /\ c = ConnectSecond(G, s, sp, d, dp)
        \/ /\ HasPorts(G, s, sp, d, dp) /\ s \notin Down(G, d) /\ sum # Nobody /\ Live(G, sum)
           /\ c = ConnectMore(G, s, sp, sum)
    <2>1. c = Refused(G) \/ ~WouldCreateCycle(G, s, d)
      BY DEF c, Connect
    <2>2. c = Refused(G) \/ s \notin Down(G, d)
      BY <1>0, <2>1, CheckedNoWay
    <2> QED
      BY <2>2 DEF c, Connect
  <1> QED
    BY <1>1, <1>2, <1>3, <1>4, <1>5 DEF c

-----------------------------------------------------------------------------
(* Disconnect one edge.                                                     *)

LEMMA SoundLeaving ==
  ASSUME NEW G, Sound(G), NEW n \in Slot
  PROVE  Leaving(G, n)
  <1>1. Covered(G, n)
    <2>1. \A d \in Slot : d # Nobody
      BY Constants0
    <2> QED
      BY <2>1 DEF Sound, Leaving, Covered
  <1>2. ASSUME NEW d \in Kept(G) PROVE Exact(G, n, d)
    <2>1. Exact(G, Nobody, d)
      BY DEF Sound, Leaving
    <2>2. Nobody \notin Preds(G, d)
      BY Constants0 DEF Preds
    <2>3. Nobody \notin Sources(G, d)
      BY DEF Sources
    <2> QED
      BY <2>1, <2>2, <2>3 DEF Exact
  <1> QED
    BY <1>1, <1>2 DEF Sound, Leaving

\* What is watched changes nothing else.
LEMMA WatchedLeaving ==
  ASSUME NEW G, NEW n, Leaving(G, n), NEW W \in SUBSET User
  PROVE  LET H == [G EXCEPT !.watch = W]
         IN  /\ Leaving(H, n) /\ H.watch = W /\ H.node = G.node /\ KeepsEdges(G, H) /\ KeepsRest(G, H)
             /\ \A x \in Slot : Exact(G, n, x) => Exact(H, n, x)
  <1> DEFINE H == [G EXCEPT !.watch = W]
  <1>1. Wired(G) /\ G \in Graph
    BY DEF Leaving, Wired
  <1>2. H \in Graph /\ H.node = G.node /\ H.watch = W /\ KeepsEdges(G, H) /\ KeepsRest(G, H)
    BY <1>1 DEF Graph, KeepsEdges, KeepsRest
  <1> HIDE DEF H
  <1>3. KeepsIns(G, H) /\ KeepsFan(G, H) /\ KeepsOuts(G, H) /\ KeepsLinks(G, H)
    BY <1>2 DEF KeepsIns, KeepsFan, KeepsOuts, KeepsLinks
  <1>4. Wired(H)
    BY <1>1, <1>2, <1>3, InsAreQuieter, OutsAreWriters, WiredQuieter DEF KeepsRest
  <1>5. Unheard(G, H)
    BY <1>2, <1>3 DEF Unheard, KeepsSrc, KeepsEdges, KeepsOuts
  <1>6. \A x \in Slot : Exact(G, n, x) => Exact(H, n, x)
    BY <1>1, <1>2, <1>3, <1>5, SourcesKept, ExactKept DEF Unheard
  <1> QED
    BY <1>2, <1>4, <1>5, <1>6, UnheardKeeps DEF H

\* A graph that is told from another by nothing.
LEMMA SelfKept ==
  ASSUME NEW G
  PROVE  KeepsIns(G, G) /\ KeepsOuts(G, G) /\ KeepsLinks(G, G) /\ KeepsEdges(G, G) /\ KeepsRest(G, G) /\ KeepsFan(G, G)
  BY DEF KeepsIns, KeepsOuts, KeepsLinks, KeepsEdges, KeepsRest, KeepsFan

\* The port that writes e is the one that e is noted under.
LEMMA WriterIs ==
  ASSUME NEW G, Wired(G), NEW s \in Slot, NEW p \in DOMAIN G.node[s].outs, NEW e \in EdgeId, G.node[s].outs[p] = e
  PROVE  G.edge[e].used /\ G.edge[e].src = s /\ G.edge[e].port = p
  BY DEF Wired, Owned

LEMMA DisconnectDirectSound ==
  ASSUME NEW G, Sound(G), NEW s \in Slot, NEW sp \in DOMAIN G.node[s].outs, NEW d \in Slot,
         NEW dp \in DOMAIN G.node[d].ins, G.node[d].fan[dp] = Nobody
  PROVE  LET c == DisconnectDirect(G, s, sp, d, dp)
         IN  Sound(c.g) /\ c.g.watch = G.watch /\ c.ok \in BOOLEAN /\ (~c.ok => c.g = G)
  <1> DEFINE e == G.node[d].ins[dp]
             c == DisconnectDirect(G, s, sp, d, dp)
             H == Unplug(G, s, sp, d, dp)
  <1>0. Wired(G) /\ G \in Graph /\ Leaving(G, Nobody)
    BY DEF Sound, Leaving, Wired
  <1>1. CASE e = Silent \/ e # G.node[s].outs[sp]
    <2>1. c.g = G /\ c.ok = FALSE
      BY <1>1 DEF DisconnectDirect, Refused
    <2> QED
      BY <2>1
  <1>2. CASE ~(e = Silent \/ e # G.node[s].outs[sp])
    <2>1. c.g = H /\ c.ok = TRUE
      BY <1>2 DEF DisconnectDirect, Done
    <2>2. e \in EdgeId /\ G.node[d].ins[dp] = e /\ G.node[s].outs[sp] = e
      BY <1>0, <1>2, PortsOf
    <2> HIDE DEF e, c
    <2>3. G.edge[e].src = s /\ G.edge[e].port = sp
      BY <1>0, <2>2, WriterIs
    <2>4. s # Nobody
      BY Constants0
    <2>5. FanIs(G, G, d, dp, Nobody)
      BY SelfKept, FanIsNobody
    <2>6. LET K == Unplug(G, G.edge[e].src, G.edge[e].port, d, dp) IN Leaving(K, Nobody) /\ K.watch = G.watch
      BY <1>0, <2>2, <2>3, <2>4, <2>5, SelfKept, UnplugLeaving
    <2>7. Sound(H) /\ H.watch = G.watch
      BY <2>3, <2>6 DEF Sound
    <2> QED
      BY <2>1, <2>7 DEF c
  <1> QED
    BY <1>1, <1>2

-----------------------------------------------------------------------------
(* Delete: the inputs of the node that goes.                                *)

LEMMA WipedLeaving ==
  ASSUME NEW G, NEW n, Leaving(G, n), NEW sum \in Sums, ~IsHosted(G, sum), NEW H \in Graph, NEW q,
         InsBecome(G, H, sum, q), Len(q) = Len(G.node[sum].ins), \A i \in DOMAIN q : q[i] = Silent,
         KeepsFan(G, H), KeepsOuts(G, H), KeepsLinks(G, H), KeepsEdges(G, H), KeepsRest(G, H)
  PROVE  Leaving(H, n)
  <1>1. /\ Wired(G) /\ Unborn(G) /\ Shapes(G) /\ Hosted(G) /\ OneHost(G) /\ ForHosts(G) /\ Acyclic(G)
        /\ Covered(G, n) /\ \A x \in Kept(G) : Exact(G, n, x)
    BY DEF Leaving
  <1>2. G \in Graph /\ sum \in Slot /\ sum \notin User /\ Silent \notin EdgeId
    BY <1>1, Constants0 DEF Wired
  <1>3. H.node[sum].ins = q /\ \A x \in Slot \ {sum} : H.node[x].ins = G.node[x].ins
    BY <1>2 DEF InsBecome
  <1>4. Wired(H)
    <2>1. Quieter(G, H)
      BY <1>3 DEF Quieter
    <2>2. KeepsWriters(G, H) /\ H.pool = G.pool
      BY OutsAreWriters DEF KeepsRest
    <2> QED
      BY <1>1, <2>1, <2>2, WiredQuieter
  <1>5. Sources(H, sum) = {} /\ \A x \in Slot \ {sum} : Sources(H, x) = Sources(G, x)
    <2>1. Sources(H, sum) = {}
      BY <1>2, <1>3, SourcesAre
    <2>2. \A x \in Slot \ {sum} : Sources(H, x) = Sources(G, x)
      BY <1>3 DEF Sources, KeepsEdges
    <2> QED
      BY <2>1, <2>2
  <1>6. \A x \in Slot : Sources(H, x) \subseteq Sources(G, x)
    BY <1>5
  <1>7. Alike(G, H) /\ FanFewer(G, H)
    <2>1. \A x \in Slot : Len(H.node[x].ins) = Len(G.node[x].ins)
      BY <1>3
    <2>2. \A x \in Slot : H.node[x].fan = G.node[x].fan /\ H.node[x].outs = G.node[x].outs
      BY DEF KeepsFan, KeepsOuts
    <2> QED
      BY <2>1, <2>2, FanKept, Constants0 DEF Alike
  <1>8. Unborn(H) /\ Shapes(H)
    BY <1>1, <1>2, <1>7, UnbornKept, UnbornLinks, AlikeShapes
  <1>9. Hosted(H)
    <2> SUFFICES ASSUME NEW x \in User, NEW t \in Sums, NEW i \in DOMAIN H.node[x].fan, H.node[x].fan[i] = t
                 PROVE  /\ H.node[x].ins[i] = G.node[x].ins[i] /\ H.node[t].outs[1] = G.node[t].outs[1]
                        /\ x \notin Sources(G, t) => x \notin Sources(H, t)
      BY <1>1, <1>2, <1>7, HostedKept
    <2>1. x \in Slot \ {sum} /\ t \in Slot
      BY <1>2, Constants0
    <2> QED
      BY <1>3, <1>6, <2>1 DEF KeepsOuts
  <1>10. OneHost(H)
    BY <1>1, <1>7, OneHostKept
  <1>11. ForHosts(H)
    <2> SUFFICES ASSUME NEW x \in Slot, NEW i \in DOMAIN H.node[x].ins, NEW f \in EdgeId, H.node[x].ins[i] = f,
                        H.edge[f].src \in Sums
                 PROVE  i \in DOMAIN H.node[x].fan /\ H.node[x].fan[i] = H.edge[f].src
      BY DEF ForHosts
    <2>1. x # sum
      BY <1>2, <1>3
    <2>2. H.node[x].ins = G.node[x].ins /\ H.node[x].fan = G.node[x].fan /\ H.edge[f].src = G.edge[f].src
      BY <1>3, <2>1 DEF KeepsFan, KeepsEdges
    <2> QED
      BY <1>1, <2>2 DEF ForHosts
  <1>12. Acyclic(H)
    BY <1>1, <1>6, AcyclicFewer DEF Fewer
  <1>13. Covered(H, n)
    <2> SUFFICES ASSUME NEW x \in Slot \ {n}, NEW s \in Sources(H, x) PROVE x \in H.node[s].succ
      BY DEF Covered
    <2>1. s \in Sources(G, x) /\ s \in Slot
      BY <1>2, <1>6, SourcesInSlot
    <2> QED
      BY <1>1, <2>1 DEF Covered, KeepsLinks
  <1>14. ASSUME NEW x \in Kept(H) PROVE Exact(H, n, x)
    <2>1. Kept(H) = Kept(G)
      BY KeptKept, Constants0 DEF KeepsFan
    <2>2. x \in Slot \ {sum}
      BY <1>2, <2>1, Constants0 DEF Kept
    <2> QED
      BY <1>1, <1>5, <2>1, <2>2, ExactKept
  <1> QED
    BY <1>4, <1>8, <1>9, <1>10, <1>11, <1>12, <1>13, <1>14 DEF Leaving

\* What clearing one input, or some, leaves alone.
Spared(G, H, n) ==
    /\ KeepsRest(G, H) /\ H.watch = G.watch /\ AsManyOuts(G, H)
    /\ DOMAIN H.node[n].ins = DOMAIN G.node[n].ins /\ DOMAIN H.node[n].fan = DOMAIN G.node[n].fan
    /\ n \in Sums => (\A x \in Slot \ {n} : H.node[x].ins = G.node[x].ins) /\ Quieter(G, H) /\ Tagged(G, H)

LEMMA SparedSelf ==
  ASSUME NEW G, NEW n
  PROVE  Spared(G, G, n)
  BY DEF Spared, KeepsRest, Tagged, AsManyOuts, Quieter

LEMMA HostedNot ==
  ASSUME NEW G, NEW H, FanFewer(G, H), NEW n \in Slot, ~IsHosted(G, n)
  PROVE  ~IsHosted(H, n)
  BY Constants0 DEF FanFewer, IsHosted

LEMMA UnplugHere ==
  ASSUME NEW G, NEW n, Leaving(G, n), NEW d \in Slot, NEW p \in DOMAIN G.node[d].ins, NEW e \in EdgeId,
         G.node[d].ins[p] = e, G.edge[e].src # n, FanIs(G, G, d, p, Nobody)
  PROVE  LET H == Unplug(G, G.edge[e].src, G.edge[e].port, d, p)
         IN  /\ Leaving(H, n) /\ InsAre(G, H, d, p, Silent) /\ KeepsFan(G, H) /\ KeepsRest(G, H) /\ H.watch = G.watch
             /\ AsManyOuts(G, H) /\ StaysExact(G, H, n) /\ Tagged(G, H)
  <1>1. G \in Graph /\ KeepsIns(G, G) /\ KeepsOuts(G, G) /\ KeepsLinks(G, G) /\ KeepsEdges(G, G) /\ KeepsRest(G, G)
    BY SelfKept DEF Leaving, Wired
  <1> QED
    BY <1>1, UnplugLeaving, SMTT(60)

LEMMA ClearInputIs ==
  ASSUME NEW G, NEW n \in Slot, Leaving(G, n), ~IsHosted(G, n), NEW p \in DOMAIN G.node[n].ins,
         n \in Sums => p \in DOMAIN G.node[n].fan
  PROVE  LET H == ClearInput(G, n, p)
         IN  /\ Leaving(H, n) /\ ~IsHosted(H, n) /\ Spared(G, H, n)
             /\ \A q \in DOMAIN G.node[n].ins :
                   H.node[n].ins[q] = IF q = p THEN Silent ELSE G.node[n].ins[q]
  <1> DEFINE e   == G.node[n].ins[p]
             sum == G.node[n].fan[p]
             s   == G.edge[e].src
             sp  == G.edge[e].port
             H   == ClearInput(G, n, p)
             D   == Unplug(G, s, sp, n, p)
             K   == [G EXCEPT !.node[n].fan[p] = Nobody]
             M   == Unplug(K, s, sp, n, p)
             W   == [M EXCEPT !.node[sum].ins = [i \in DOMAIN @ |-> Silent]]
  <1>0. /\ Wired(G) /\ G \in Graph /\ Shapes(G) /\ OneHost(G) /\ Acyclic(G)
        /\ Silent \in EdgeId \cup {Silent} /\ Silent \notin EdgeId /\ Nobody \notin Slot
    BY Constants0 DEF Leaving, Wired
  <1>1. CASE e = Silent
    <2>1. H = G
      BY <1>1 DEF ClearInput
    <2> HIDE DEF H
    <2> QED
      BY <1>1, <2>1, SparedSelf DEF H
  <1>2. CASE e # Silent
    <2>1. e \in EdgeId /\ G.node[n].ins[p] = e
      BY <1>0, <1>2, PortsOf
    <2> HIDE DEF e
    <2>2. s \in Slot /\ s \in Sources(G, n)
      BY <1>0, <2>1, FeederIs
    <2>3. s # n /\ s # Nobody
      BY <1>0, <2>2, NoLoop
    <2>4. CASE sum = Nobody
      <3>1. H = D
        BY <1>2, <2>3, <2>4 DEF ClearInput, e
      <3>2. FanIs(G, G, n, p, Nobody)
        BY <2>4, SelfKept, FanIsNobody
      <3>3. /\ Leaving(D, n) /\ InsAre(G, D, n, p, Silent) /\ KeepsFan(G, D) /\ KeepsRest(G, D) /\ D.watch = G.watch
            /\ AsManyOuts(G, D) /\ Tagged(G, D)
        BY <1>0, <2>1, <2>3, <3>2, UnplugHere
      <3> HIDE DEF D, H
      <3>4. \A x \in Slot : /\ DOMAIN D.node[x].ins = DOMAIN G.node[x].ins
                            /\ \A q \in DOMAIN G.node[x].ins :
                                  D.node[x].ins[q] = IF x = n /\ q = p THEN Silent ELSE G.node[x].ins[q]
        BY <1>0, <3>3, InsAreAt
      <3>5. Spared(G, D, n)
        <4>1. DOMAIN D.node[n].fan = DOMAIN G.node[n].fan
          BY <3>3 DEF KeepsFan
        <4>2. \A x \in Slot \ {n} : D.node[x].ins = G.node[x].ins
          BY <3>3 DEF InsAre
        <4>3. Quieter(G, D)
          BY <1>0, <3>3, SilencingIsQuieter
        <4> QED
          BY <3>3, <3>4, <4>1, <4>2, <4>3 DEF Spared
      <3>6. ~IsHosted(D, n)
        BY <3>3, FanKept, HostedNot
      <3> QED
        BY <3>1, <3>3, <3>4, <3>5, <3>6 DEF H
    <2>5. CASE sum # Nobody
      <3>1. H = W
        BY <1>2, <2>3, <2>5, Zenon DEF ClearInput, e
      <3>2. n \in User
        <4>1. n \in Sums => sum = Nobody
          BY <1>0 DEF Shapes
        <4> QED
          BY <2>5, <4>1 DEF Slot
      <3>3. p \in DOMAIN G.node[n].fan
        BY <1>0, <3>2, PortsOf DEF Shapes
      <3>4. sum \in Sums /\ sum \in Slot /\ sum # n
        <4>1. sum \in Sums
          BY <1>0, <2>5, <3>3, PortsOf
        <4> QED
          BY <3>2, <4>1, Constants0
      <3>5. K = SetFan(G, n, p, Nobody)
        BY Zenon DEF SetFan
      <3>6. Nobody \in Sums \cup {Nobody}
        OBVIOUS
      <3> HIDE DEF K
      <3>7. /\ K \in Graph /\ FanIs(G, K, n, p, Nobody)
            /\ KeepsIns(G, K) /\ KeepsOuts(G, K) /\ KeepsLinks(G, K) /\ KeepsEdges(G, K) /\ KeepsRest(G, K)
            /\ K.watch = G.watch
        BY <1>0, <3>3, <3>5, <3>6, SetFanIs
      <3>8. /\ Leaving(M, n) /\ InsAre(G, M, n, p, Silent) /\ KeepsFan(K, M) /\ KeepsRest(G, M) /\ M.watch = K.watch
            /\ AsManyOuts(G, M)
        BY <1>0, <2>1, <2>3, <3>7, UnplugLeaving
      <3> HIDE DEF M
      <3>9. FanIs(G, M, n, p, Nobody)
        BY <3>7, <3>8 DEF FanIs, KeepsFan
      <3>10. ~IsHosted(M, n) /\ ~IsHosted(M, sum)
        <4>1. ~IsHosted(M, n)
          BY <3>9, FanIsFewer, HostedNot
        <4>2. ASSUME NEW x \in User, NEW q \in DOMAIN M.node[x].fan, M.node[x].fan[q] = sum
              PROVE  FALSE
          <5>1. x \in Slot
            BY Constants0
          <5>2. q \in DOMAIN G.node[x].fan /\ M.node[x].fan[q] = IF x = n /\ q = p THEN Nobody ELSE G.node[x].fan[q]
            BY <3>9, <5>1 DEF FanIs
          <5>3. ~(x = n /\ q = p) /\ G.node[x].fan[q] = sum
            BY <2>5, <4>2, <5>2
          <5> HIDE DEF sum
          <5>4. G.node[n].fan[p] = sum
            BY DEF sum
          <5> QED
            BY <1>0, <3>2, <3>3, <3>4, <5>2, <5>3, <5>4 DEF OneHost
        <4> HIDE DEF sum
        <4>3. ~IsHosted(M, sum)
          BY <4>2 DEF IsHosted
        <4> QED
          BY <4>1, <4>3
      <3>11. \A x \in Slot : /\ DOMAIN M.node[x].ins = DOMAIN G.node[x].ins
                             /\ \A q \in DOMAIN G.node[x].ins :
                                   M.node[x].ins[q] = IF x = n /\ q = p THEN Silent ELSE G.node[x].ins[q]
        BY <1>0, <3>8, InsAreAt
      <3> DEFINE w == [i \in DOMAIN M.node[sum].ins |-> Silent]
      <3>12. M \in Graph
        BY <3>8 DEF Leaving, Wired
      <3>13. w \in Seq(EdgeId \cup {Silent}) /\ Len(w) = Len(M.node[sum].ins) /\ \A i \in DOMAIN w : w[i] = Silent
        <4> DEFINE k == Len(M.node[sum].ins)
        <4>1. k \in Nat /\ DOMAIN M.node[sum].ins = 1..k
          BY <3>4, <3>12, PortsOf
        <4> HIDE DEF k
        <4>2. w \in [1..k -> EdgeId \cup {Silent}] /\ \A i \in 1..k : w[i] = Silent
          BY <4>1
        <4> HIDE DEF w
        <4>3. w \in Seq(EdgeId \cup {Silent}) /\ Len(w) = k
          BY <4>1, <4>2, FunctionIsSeq
        <4>4. DOMAIN w = 1..k
          BY <4>2
        <4> QED
          BY <4>2, <4>3, <4>4 DEF k
      <3>14. W = [M EXCEPT !.node = [M.node EXCEPT ![sum] = [M.node[sum] EXCEPT !.ins = w]]]
        BY Zenon
      <3> HIDE DEF w, W
      <3>15. /\ W \in Graph /\ InsBecome(M, W, sum, w)
             /\ KeepsFan(M, W) /\ KeepsOuts(M, W) /\ KeepsLinks(M, W) /\ KeepsEdges(M, W) /\ KeepsRest(M, W)
             /\ W.watch = M.watch
        BY <3>4, <3>12, <3>13, <3>14, NewInsIs, Zenon
      <3>16. Leaving(W, n)
        <4> HIDE DEF sum
        <4> QED
          BY <3>4, <3>8, <3>10, <3>13, <3>15, WipedLeaving
      <3>17. ~IsHosted(W, n)
        BY <3>10, <3>15, FanKept, HostedNot
      <3>18. W.node[n].ins = M.node[n].ins
        BY <3>4, <3>15 DEF InsBecome
      <3>19. Spared(G, W, n)
        <4>1. KeepsRest(G, W) /\ W.watch = G.watch
          BY <3>7, <3>8, <3>15 DEF KeepsRest
        <4>2. AsManyOuts(G, W)
          BY <3>8, <3>15 DEF KeepsOuts, AsManyOuts
        <4>3. DOMAIN W.node[n].ins = DOMAIN G.node[n].ins
          BY <3>11, <3>18
        <4>4. DOMAIN W.node[n].fan = DOMAIN G.node[n].fan
          BY <3>9, <3>15 DEF FanIs, KeepsFan
        <4>5. n \notin Sums
          BY <3>2, Constants0
        <4> QED
          BY <4>1, <4>2, <4>3, <4>4, <4>5 DEF Spared
      <3>20. \A q \in DOMAIN G.node[n].ins : W.node[n].ins[q] = IF q = p THEN Silent ELSE G.node[n].ins[q]
        BY <3>11, <3>18
      <3> HIDE DEF H
      <3> QED
        BY <3>1, <3>16, <3>17, <3>19, <3>20 DEF H
    <2> QED
      BY <2>4, <2>5
  <1> QED
    BY <1>1, <1>2

LEMMA SparedOn ==
  ASSUME NEW G, NEW H, NEW K, NEW n \in Slot, Spared(G, H, n), Spared(H, K, n)
  PROVE  Spared(G, K, n)
  <1>1. KeepsRest(G, K) /\ K.watch = G.watch /\ AsManyOuts(G, K)
    BY DEF Spared, KeepsRest, AsManyOuts
  <1>2. DOMAIN K.node[n].ins = DOMAIN G.node[n].ins /\ DOMAIN K.node[n].fan = DOMAIN G.node[n].fan
    BY DEF Spared
  <1>3. ASSUME n \in Sums
        PROVE  (\A x \in Slot \ {n} : K.node[x].ins = G.node[x].ins) /\ Quieter(G, K) /\ Tagged(G, K)
    <2>1. /\ \A x \in Slot \ {n} : H.node[x].ins = G.node[x].ins
          /\ \A x \in Slot \ {n} : K.node[x].ins = H.node[x].ins
          /\ Quieter(G, H) /\ Quieter(H, K) /\ Tagged(G, H) /\ Tagged(H, K)
      BY <1>3 DEF Spared
    <2>2. Quieter(G, K)
      BY <2>1 DEF Quieter
    <2>3. Tagged(G, K)
      <3> SUFFICES ASSUME NEW f \in EdgeId, ReadersOf(K, f) # {}
                   PROVE  K.edge[f].src = G.edge[f].src /\ K.edge[f].port = G.edge[f].port
        BY DEF Tagged
      <3>1. ReadersOf(H, f) # {}
        BY <2>1, QuieterReaders
      <3> QED
        BY <2>1, <3>1 DEF Tagged
    <2> QED
      BY <2>1, <2>2, <2>3
  <1> QED
    BY <1>1, <1>2, <1>3 DEF Spared

LEMMA InputsClearedIs ==
  ASSUME NEW G, NEW n \in Slot, Leaving(G, n), ~IsHosted(G, n),
         n \in Sums => DOMAIN G.node[n].ins \subseteq DOMAIN G.node[n].fan
  PROVE  LET H == InputsCleared(G, n)
         IN  /\ Leaving(H, n) /\ ~IsHosted(H, n) /\ Spared(G, H, n)
             /\ \A p \in DOMAIN G.node[n].ins : H.node[n].ins[p] = Silent
  <1> DEFINE N == Len(G.node[n].ins)
             D == {H \in Graph : Leaving(H, n) /\ ~IsHosted(H, n) /\ Spared(G, H, n)}
             Rec(f) == f = [k \in 0..N |-> IF k = 0 THEN G ELSE ClearInput(f[k - 1], n, k)]
             after == CHOOSE f : Rec(f)
             T == {k \in 0..N : after[k] \in D /\ \A p \in 1..k : after[k].node[n].ins[p] = Silent}
  <1>1. InputsCleared(G, n) = after[N]
    BY DEF InputsCleared
  <1>2. G \in Graph /\ N \in Nat /\ DOMAIN G.node[n].ins = 1..N
    BY PortsOf DEF Leaving, Wired
  <1> HIDE DEF N
  <1>3. ASSUME NEW H \in D, NEW k \in 1..N
        PROVE  /\ ClearInput(H, n, k) \in D
               /\ \A q \in 1..N : ClearInput(H, n, k).node[n].ins[q] = IF q = k THEN Silent ELSE H.node[n].ins[q]
    <2>1. Leaving(H, n) /\ ~IsHosted(H, n) /\ Spared(G, H, n)
      OBVIOUS
    <2>2. DOMAIN H.node[n].ins = 1..N /\ DOMAIN H.node[n].fan = DOMAIN G.node[n].fan
      BY <1>2, <2>1 DEF Spared
    <2> DEFINE C == ClearInput(H, n, k)
    <2>3. /\ Leaving(C, n) /\ ~IsHosted(C, n) /\ Spared(H, C, n)
          /\ \A q \in 1..N : C.node[n].ins[q] = IF q = k THEN Silent ELSE H.node[n].ins[q]
      BY <1>2, <2>1, <2>2, ClearInputIs
    <2> HIDE DEF C
    <2>4. Spared(G, C, n) /\ C \in Graph
      BY <2>1, <2>3, SparedOn DEF Leaving, Wired
    <2> QED
      BY <2>3, <2>4 DEF C
  <1>4. G \in D
    BY <1>2, SparedSelf
  <1>5. Rec(after)
    <2> DEFINE F == [k \in 1..N |-> [H \in D |-> ClearInput(H, n, k)]]
    <2>1. StaysWithin(F, N, D)
      BY <1>3 DEF StaysWithin
    <2> HIDE DEF D
    <2>2. \A k \in 1..N : \A H \in D : F[k][H] = ClearInput(H, n, k)
      OBVIOUS
    <2> HIDE DEF F
    <2>3. PICK f : Iterates(f, F, G, N, D)
      BY <1>2, <1>4, <2>1, RecursionExists
    <2>4. \A k \in 0..N : k # 0 => k \in 1..N /\ k - 1 \in 0..N /\ f[k - 1] \in D
      BY <1>2, <2>3 DEF Iterates
    <2>5. \A k \in 0..N : f[k] = IF k = 0 THEN G ELSE ClearInput(f[k - 1], n, k)
      BY <2>2, <2>3, <2>4 DEF Iterates
    <2>6. Rec(f)
      <3> DEFINE b == [k \in 0..N |-> IF k = 0 THEN G ELSE ClearInput(f[k - 1], n, k)]
      <3>1. f = [k \in 0..N |-> f[k]] /\ b = [k \in 0..N |-> b[k]]
        BY <2>3 DEF Iterates
      <3>2. \A k \in 0..N : f[k] = b[k]
        BY <2>5
      <3> HIDE DEF b
      <3>3. f = b
        BY <3>1, <3>2
      <3> QED
        BY <3>3 DEF b
    <2> HIDE DEF Rec
    <2> QED
      BY <2>6
  <1> HIDE DEF after, D
  <1>6. after[0] = G /\ \A k \in 1..N : after[k] = ClearInput(after[k - 1], n, k)
    <2>1. 0 \in 0..N /\ \A k \in 1..N : k \in 0..N /\ k # 0
      BY <1>2
    <2> QED
      BY <1>5, <2>1
  <1>7. 0 \in T
    BY <1>2, <1>4, <1>6
  <1>8. ASSUME NEW k \in 1..N, k - 1 \in T PROVE k \in T
    <2>1. after[k - 1] \in D /\ \A p \in 1..k - 1 : after[k - 1].node[n].ins[p] = Silent
      BY <1>8
    <2>2. /\ after[k] \in D
          /\ \A q \in 1..N : after[k].node[n].ins[q] = IF q = k THEN Silent ELSE after[k - 1].node[n].ins[q]
      BY <1>3, <1>6, <2>1
    <2>3. \A p \in 1..k : p \in 1..N /\ (p = k \/ p \in 1..k - 1)
      BY <1>2
    <2>4. k \in 0..N
      BY <1>2
    <2> QED
      BY <2>1, <2>2, <2>3, <2>4
  <1>9. T = 0..N
    <2>1. T \in SUBSET (0..N)
      OBVIOUS
    <2> HIDE DEF T
    <2> QED
      BY <1>2, <1>7, <1>8, <2>1, IndexInduction
  <1>10. N \in T
    BY <1>2, <1>9
  <1> QED
    BY <1>1, <1>2, <1>10 DEF D

-----------------------------------------------------------------------------
(* Delete: its outputs.                                                     *)

Quieted(G, R) ==
    [d \in Slot |-> [G.node[d] EXCEPT !.ins = [i \in DOMAIN @ |-> IF <<d, i>> \in R THEN Silent ELSE @[i]]]]

LEMMA NodesChanged ==
  ASSUME NEW G \in Graph, NEW f \in [Slot -> Node]
  PROVE  LET H == [G EXCEPT !.node = f]
         IN  H \in Graph /\ H.node = f /\ KeepsEdges(G, H) /\ KeepsRest(G, H) /\ H.watch = G.watch
  BY DEF Graph, KeepsEdges, KeepsRest

LEMMA QuietedIs ==
  ASSUME NEW G \in Graph, NEW R
  PROVE  LET H == [G EXCEPT !.node = Quieted(G, R)]
         IN  /\ H \in Graph
             /\ \A x \in Slot : /\ DOMAIN H.node[x].ins = DOMAIN G.node[x].ins
                                /\ Len(H.node[x].ins) = Len(G.node[x].ins)
                                /\ \A q \in DOMAIN G.node[x].ins :
                                      H.node[x].ins[q] = IF <<x, q>> \in R THEN Silent ELSE G.node[x].ins[q]
             /\ KeepsFan(G, H) /\ KeepsOuts(G, H) /\ KeepsLinks(G, H) /\ KeepsEdges(G, H) /\ KeepsRest(G, H)
             /\ H.watch = G.watch
  <1> DEFINE s(x) == [i \in DOMAIN G.node[x].ins |-> IF <<x, i>> \in R THEN Silent ELSE G.node[x].ins[i]]
             f == [x \in Slot |-> [G.node[x] EXCEPT !.ins = s(x)]]
             H == [G EXCEPT !.node = f]
  <1>1. Quieted(G, R) = f
    BY DEF Quieted
  <1>2. ASSUME NEW x \in Slot
        PROVE  /\ s(x) \in Seq(EdgeId \cup {Silent}) /\ DOMAIN s(x) = DOMAIN G.node[x].ins
               /\ Len(s(x)) = Len(G.node[x].ins)
               /\ \A q \in DOMAIN G.node[x].ins : s(x)[q] = IF <<x, q>> \in R THEN Silent ELSE G.node[x].ins[q]
    <2>1. /\ Len(G.node[x].ins) \in Nat /\ DOMAIN G.node[x].ins = 1..Len(G.node[x].ins)
          /\ \A q \in DOMAIN G.node[x].ins : G.node[x].ins[q] \in EdgeId \cup {Silent}
      BY PortsOf
    <2>2. s(x) \in [1..Len(G.node[x].ins) -> EdgeId \cup {Silent}]
      BY <2>1
    <2>3. DOMAIN s(x) = DOMAIN G.node[x].ins
          /\ \A q \in DOMAIN G.node[x].ins : s(x)[q] = IF <<x, q>> \in R THEN Silent ELSE G.node[x].ins[q]
      OBVIOUS
    <2> HIDE DEF s
    <2>4. s(x) \in Seq(EdgeId \cup {Silent}) /\ Len(s(x)) = Len(G.node[x].ins)
      BY <2>1, <2>2, FunctionIsSeq
    <2> QED
      BY <2>3, <2>4
  <1> HIDE DEF s
  <1>3. ASSUME NEW x \in Slot
        PROVE  /\ f[x] \in Node /\ f[x].ins = s(x) /\ f[x].fan = G.node[x].fan /\ f[x].outs = G.node[x].outs
               /\ f[x].succ = G.node[x].succ /\ f[x].indeg = G.node[x].indeg
    <2>1. G.node[x] \in Node /\ s(x) \in Seq(EdgeId \cup {Silent})
      BY <1>2, NodeOf
    <2>2. LET r == [G.node[x] EXCEPT !.ins = s(x)]
          IN  /\ r \in Node /\ r.ins = s(x) /\ r.fan = G.node[x].fan /\ r.outs = G.node[x].outs
              /\ r.succ = G.node[x].succ /\ r.indeg = G.node[x].indeg
      BY <2>1, NodeWithIns
    <2> QED
      BY <2>2
  <1>4. f \in [Slot -> Node]
    <2>1. f = [x \in Slot |-> f[x]]
      OBVIOUS
    <2> HIDE DEF f
    <2> QED
      BY <1>3, <2>1
  <1> HIDE DEF f
  <1>5. H \in Graph /\ H.node = f /\ KeepsEdges(G, H) /\ KeepsRest(G, H) /\ H.watch = G.watch
    BY <1>4, NodesChanged
  <1> HIDE DEF H
  <1>6. KeepsFan(G, H) /\ KeepsOuts(G, H) /\ KeepsLinks(G, H)
    BY <1>3, <1>5 DEF KeepsFan, KeepsOuts, KeepsLinks
  <1>7. \A x \in Slot : /\ DOMAIN H.node[x].ins = DOMAIN G.node[x].ins
                        /\ Len(H.node[x].ins) = Len(G.node[x].ins)
                        /\ \A q \in DOMAIN G.node[x].ins :
                              H.node[x].ins[q] = IF <<x, q>> \in R THEN Silent ELSE G.node[x].ins[q]
    BY <1>2, <1>3, <1>5
  <1> QED
    BY <1>1, <1>5, <1>6, <1>7 DEF H

\* H is G with some outputs of n given up and their readers silent.
Hushes(G, H, n) ==
    /\ Wired(H) /\ KeepsFan(G, H) /\ KeepsLinks(G, H) /\ KeepsRest(G, H) /\ H.watch = G.watch
    /\ \A x \in Slot : /\ DOMAIN H.node[x].ins = DOMAIN G.node[x].ins
                       /\ \A q \in DOMAIN G.node[x].ins :
                             H.node[x].ins[q] # G.node[x].ins[q] =>
                                H.node[x].ins[q] = Silent /\ G.edge[G.node[x].ins[q]].src = n
    /\ AsManyOuts(G, H) /\ \A x \in Slot \ {n} : H.node[x].outs = G.node[x].outs
    /\ \A f \in EdgeId : G.edge[f].src # n => H.edge[f].src = G.edge[f].src /\ H.edge[f].port = G.edge[f].port

LEMMA HushesSelf ==
  ASSUME NEW G, Wired(G), NEW n
  PROVE  Hushes(G, G, n)
  BY DEF Hushes, KeepsFan, KeepsLinks, KeepsRest, AsManyOuts

LEMMA HushesOn ==
  ASSUME NEW G, NEW H, NEW K, NEW n \in Slot, Wired(G), Hushes(G, H, n), Hushes(H, K, n)
  PROVE  Hushes(G, K, n)
  <1>1. /\ Wired(K) /\ KeepsFan(G, K) /\ KeepsLinks(G, K) /\ KeepsRest(G, K) /\ K.watch = G.watch
        /\ AsManyOuts(G, K) /\ \A x \in Slot \ {n} : K.node[x].outs = G.node[x].outs
    BY DEF Hushes, KeepsFan, KeepsLinks, KeepsRest, AsManyOuts
  <1>2. \A f \in EdgeId : G.edge[f].src # n => K.edge[f].src = G.edge[f].src /\ K.edge[f].port = G.edge[f].port
    BY DEF Hushes
  <1>3. ASSUME NEW x \in Slot, NEW q \in DOMAIN G.node[x].ins, K.node[x].ins[q] # G.node[x].ins[q]
        PROVE  K.node[x].ins[q] = Silent /\ G.edge[G.node[x].ins[q]].src = n
    <2>1. CASE H.node[x].ins[q] # G.node[x].ins[q]
      BY <1>3, <2>1 DEF Hushes
    <2>2. CASE H.node[x].ins[q] = G.node[x].ins[q]
      <3>1. q \in DOMAIN H.node[x].ins
        BY DEF Hushes
      <3>2. K.node[x].ins[q] = Silent /\ H.edge[G.node[x].ins[q]].src = n
        BY <1>3, <2>2, <3>1, SMTT(60) DEF Hushes
      <3>3. G.node[x].ins[q] \in EdgeId
        BY <1>3, <3>2, PortsOf DEF Wired
      <3> QED
        BY <3>2, <3>3 DEF Hushes
    <2> QED
      BY <2>1, <2>2
  <1>4. \A x \in Slot : DOMAIN K.node[x].ins = DOMAIN G.node[x].ins
    BY DEF Hushes
  <1> QED
    BY <1>1, <1>2, <1>3, <1>4, Zenon DEF Hushes

Deaf(G, n) == \A q \in DOMAIN G.node[n].ins : G.node[n].ins[q] = Silent

LEMMA ClearOutputIs ==
  ASSUME NEW G, Wired(G), NEW n \in Slot, Deaf(G, n),
         NEW p \in DOMAIN G.node[n].outs
  PROVE  LET H == ClearOutput(G, n, p)
         IN  /\ Hushes(G, H, n)
             /\ \A q \in DOMAIN G.node[n].outs : H.node[n].outs[q] = IF q = p THEN Silent ELSE G.node[n].outs[q]
  <1> DEFINE e == G.node[n].outs[p]
             R == {r \in ReadersOf(G, e) : r[1] # n}
             left == Floor(G.edge[e].ref - Cardinality(R))
             A == [G EXCEPT !.node = Quieted(G, R)]
             B == [A EXCEPT !.edge = [A.edge EXCEPT ![e] = [A.edge[e] EXCEPT !.ref = left]]]
             C == IF left = 0 THEN Retire(B, e) ELSE B
             H == ClearOutput(G, n, p)
  <1>1. CASE e = Silent
    <2>1. H = G
      BY <1>1 DEF ClearOutput
    <2> HIDE DEF H
    <2> QED
      BY <1>1, <2>1, HushesSelf DEF H
  <1>2. CASE e # Silent
    <2>1. /\ G \in Graph /\ e \in EdgeId /\ Written(G, e) /\ G.edge[e].used /\ G.edge[e].src = n /\ G.edge[e].port = p
          /\ Silent \notin EdgeId /\ Silent \in EdgeId \cup {Silent}
      <3>1. e \in EdgeId /\ Written(G, e) /\ G.edge[e].src = n /\ G.edge[e].port = p
        BY <1>2, OwnedWritten
      <3> HIDE DEF e
      <3> QED
        BY <3>1, Constants0 DEF Wired, Written
    <2>2. H = SetOut(C, n, p, Silent)
      <3> DEFINE X == [G EXCEPT !.node = [d \in Slot |-> [G.node[d] EXCEPT !.ins = [i \in DOMAIN @ |->
                                                    IF <<d, i>> \in R THEN Silent ELSE @[i]]]], !.edge[e].ref = left]
      <3>1. X = B
        BY DEF Quieted
      <3>2. H = SetOut(IF left = 0 THEN Retire(X, e) ELSE X, n, p, Silent)
        BY <1>2 DEF ClearOutput
      <3> HIDE DEF X, B, H, left, R, e, A
      <3> QED
        BY <3>1, <3>2
    <2>3. R = ReadersOf(G, e)
      BY <1>2, ReadersAre DEF Deaf
    <2>4. left \in Nat
      <3>1. Cardinality(R) \in Nat /\ G.edge[e].ref \in Nat
        BY <2>1, <2>3, ReadersFinite, EdgeOf, Zenon
      <3> HIDE DEF R, e
      <3>2. G.edge[e].ref - Cardinality(R) \in Int
        BY <3>1
      <3> QED
        BY <3>2, FloorIs
    <2> HIDE DEF left, H, R
    <2>5. /\ A \in Graph /\ A.watch = G.watch
          /\ \A x \in Slot : /\ DOMAIN A.node[x].ins = DOMAIN G.node[x].ins
                             /\ \A q \in DOMAIN G.node[x].ins :
                                   A.node[x].ins[q] = IF <<x, q>> \in R THEN Silent ELSE G.node[x].ins[q]
          /\ KeepsFan(G, A) /\ KeepsOuts(G, A) /\ KeepsLinks(G, A) /\ KeepsEdges(G, A) /\ KeepsRest(G, A)
      BY <2>1, QuietedIs, SMTT(60)
    <2> HIDE DEF A
    <2> HIDE DEF e
    <2>6. \A x \in Slot : \A q \in DOMAIN G.node[x].ins :
            A.node[x].ins[q] = IF G.node[x].ins[q] = e THEN Silent ELSE G.node[x].ins[q]
      <3>1. \A x \in Slot : \A q \in DOMAIN G.node[x].ins : <<x, q>> \in R <=> G.node[x].ins[q] = e
        BY <2>3, ReadersAre
      <3> QED
        BY <2>5, <3>1
    <2>7. Wired(A)
      <3>1. Quieter(G, A) /\ KeepsWriters(G, A)
        BY <2>5, <2>6, OutsAreWriters DEF Quieter
      <3> QED
        BY <2>5, <3>1, WiredQuieter DEF KeepsRest
    <2>8. ReadersOf(A, e) = {}
      BY <2>1, <2>5, <2>6, ReadersAre
    <2>9. /\ B \in Graph /\ B.node = A.node /\ B.free = A.free
          /\ RefIs(A, B, e, left) /\ KeepsRest(A, B) /\ B.watch = A.watch
      BY <2>1, <2>4, <2>5, RefChanged
    <2> HIDE DEF B
    <2>10. Wired(B)
      <3>1. KeepsIns(A, B) /\ KeepsOuts(A, B)
        BY <2>9 DEF KeepsIns, KeepsOuts
      <3>2. left >= Cardinality(ReadersOf(A, e))
        BY <2>4, <2>8, NoneCounted
      <3> QED
        BY <2>1, <2>4, <2>7, <2>9, <3>1, <3>2, WiredRecount DEF KeepsRest
    <2>11. /\ C \in Graph /\ C.node = B.node /\ KeepsRest(B, C) /\ C.watch = B.watch
           /\ KeepsEdges(B, C) \/ (EdgeIs(B, C, e, Unused) /\ C.free = <<e>> \o B.free)
      <3>1. CASE left = 0
        BY <2>1, <2>9, <3>1, RetireIs
      <3>2. CASE left # 0
        BY <2>9, <3>2 DEF KeepsRest, KeepsEdges
      <3> QED
        BY <3>1, <3>2
    <2> HIDE DEF C
    <2>12. p \in DOMAIN C.node[n].outs
      BY <2>5, <2>9, <2>11 DEF KeepsOuts
    <2>13. /\ H \in Graph /\ OutsAre(C, H, n, p, Silent)
           /\ KeepsFan(C, H) /\ KeepsIns(C, H) /\ KeepsLinks(C, H) /\ KeepsEdges(C, H) /\ KeepsRest(C, H)
           /\ H.watch = C.watch
      BY <2>1, <2>2, <2>11, <2>12, SetOutIs
    <2>14. \A x \in Slot : /\ DOMAIN H.node[x].outs = DOMAIN G.node[x].outs /\ Len(H.node[x].outs) = Len(G.node[x].outs)
                           /\ \A q \in DOMAIN G.node[x].outs :
                                 H.node[x].outs[q] = IF x = n /\ q = p THEN Silent ELSE G.node[x].outs[q]
      <3>1. KeepsOuts(G, C)
        BY <2>5, <2>9, <2>11 DEF KeepsOuts
      <3>2. OutsAre(G, H, n, p, Silent)
        BY <2>13, <3>1 DEF KeepsOuts, OutsAre
      <3> QED
        BY <2>1, <3>2, OutsAreAt
    <2>15. Wired(H)
      <3>1. \A x \in Slot : B.node[x].outs = G.node[x].outs
        BY <2>5, <2>9 DEF KeepsOuts
      <3>2. \A x \in Slot : \A q \in DOMAIN G.node[x].outs : G.node[x].outs[q] = e => x = n /\ q = p
        BY <2>1 DEF Wired, Owned
      <3>3. G.node[n].outs[p] = e
        BY DEF e
      <3>4. Muted(B, H, e)
        BY <2>1, <2>14, <3>1, <3>2, <3>3, SMTT(60) DEF Muted
      <3>5. KeepsIns(B, H) /\ H.pool = B.pool
        BY <2>11, <2>13 DEF KeepsIns, KeepsRest
      <3>6. ReadersOf(B, e) = {}
        BY <2>8, <2>9 DEF ReadersOf
      <3>7. B.edge[e].used
        BY <2>1, <2>5, <2>9 DEF RefIs, KeepsEdges
      <3>8. KeepsEdges(B, H) \/ (EdgeIs(B, H, e, Unused) /\ H.free = <<e>> \o B.free)
        BY <2>11, <2>13 DEF KeepsEdges, EdgeIs
      <3> QED
        BY <2>1, <2>10, <2>13, <3>4, <3>5, <3>6, <3>7, <3>8, WiredDropped
    <2>16. \A f \in EdgeId : f # e => H.edge[f].src = G.edge[f].src /\ H.edge[f].port = G.edge[f].port
      BY <2>5, <2>9, <2>11, <2>13 DEF RefIs, KeepsEdges, EdgeIs
    <2>17. KeepsFan(G, H) /\ KeepsLinks(G, H) /\ KeepsRest(G, H) /\ H.watch = G.watch
      BY <2>5, <2>9, <2>11, <2>13 DEF KeepsFan, KeepsLinks, KeepsRest
    <2>18. \A x \in Slot : H.node[x].ins = A.node[x].ins
      BY <2>9, <2>11, <2>13 DEF KeepsIns
    <2>19. \A x \in Slot : /\ DOMAIN H.node[x].ins = DOMAIN G.node[x].ins
                           /\ \A q \in DOMAIN G.node[x].ins :
                                 H.node[x].ins[q] # G.node[x].ins[q] =>
                                    H.node[x].ins[q] = Silent /\ G.edge[G.node[x].ins[q]].src = n
      BY <2>1, <2>5, <2>6, <2>18
    <2>20. \A x \in Slot \ {n} : H.node[x].outs = G.node[x].outs
      BY <2>5, <2>9, <2>11, <2>13 DEF OutsAre, KeepsOuts
    <2>21. Hushes(G, H, n)
      BY <2>1, <2>14, <2>15, <2>16, <2>17, <2>19, <2>20 DEF Hushes, AsManyOuts
    <2>22. \A q \in DOMAIN G.node[n].outs : H.node[n].outs[q] = IF q = p THEN Silent ELSE G.node[n].outs[q]
      BY <2>14
    <2> QED
      BY <2>21, <2>22 DEF H
  <1> QED
    BY <1>1, <1>2

LEMMA OutputsClearedIs ==
  ASSUME NEW G, Wired(G), NEW n \in Slot, Deaf(G, n)
  PROVE  LET H == OutputsCleared(G, n)
         IN  Hushes(G, H, n) /\ \A q \in DOMAIN G.node[n].outs : H.node[n].outs[q] = Silent
  <1> DEFINE N == Len(G.node[n].outs)
             D == {H \in Graph : Hushes(G, H, n)}
             Rec(f) == f = [k \in 0..N |-> IF k = 0 THEN G ELSE ClearOutput(f[k - 1], n, k)]
             after == CHOOSE f : Rec(f)
             T == {k \in 0..N : after[k] \in D /\ \A p \in 1..k : after[k].node[n].outs[p] = Silent}
  <1>1. OutputsCleared(G, n) = after[N]
    BY DEF OutputsCleared
  <1>2. G \in Graph /\ N \in Nat /\ DOMAIN G.node[n].outs = 1..N
    BY PortsOf DEF Wired
  <1> HIDE DEF N
  <1>3. ASSUME NEW H \in D, NEW k \in 1..N
        PROVE  /\ ClearOutput(H, n, k) \in D
               /\ \A q \in 1..N : ClearOutput(H, n, k).node[n].outs[q] = IF q = k THEN Silent ELSE H.node[n].outs[q]
    <2>1. H \in Graph /\ Wired(H) /\ Hushes(G, H, n)
      BY DEF Hushes
    <2>2. DOMAIN H.node[n].outs = 1..N
      <3>1. Len(H.node[n].outs) = Len(G.node[n].outs)
        BY <2>1 DEF Hushes, AsManyOuts
      <3> QED
        BY <1>2, <2>1, <3>1, PortsOf
    <2>3. Deaf(H, n) /\ k \in DOMAIN H.node[n].outs
      BY <2>1, <2>2 DEF Hushes, Deaf
    <2> DEFINE C == ClearOutput(H, n, k)
    <2>4. Hushes(H, C, n) /\ \A q \in DOMAIN H.node[n].outs : C.node[n].outs[q] = IF q = k THEN Silent ELSE H.node[n].outs[q]
      BY <2>1, <2>3, ClearOutputIs
    <2> HIDE DEF C
    <2>5. Hushes(G, C, n)
      BY <2>1, <2>4, HushesOn
    <2>6. C \in Graph
      BY <2>5 DEF Hushes, Wired
    <2> QED
      BY <2>2, <2>4, <2>5, <2>6 DEF C
  <1>4. G \in D
    BY <1>2, HushesSelf
  <1>5. Rec(after)
    <2> DEFINE F == [k \in 1..N |-> [H \in D |-> ClearOutput(H, n, k)]]
    <2>1. StaysWithin(F, N, D)
      BY <1>3 DEF StaysWithin
    <2> HIDE DEF D
    <2>2. \A k \in 1..N : \A H \in D : F[k][H] = ClearOutput(H, n, k)
      OBVIOUS
    <2> HIDE DEF F
    <2>3. PICK f : Iterates(f, F, G, N, D)
      BY <1>2, <1>4, <2>1, RecursionExists
    <2>4. \A k \in 0..N : k # 0 => k \in 1..N /\ k - 1 \in 0..N /\ f[k - 1] \in D
      BY <1>2, <2>3 DEF Iterates
    <2>5. \A k \in 0..N : f[k] = IF k = 0 THEN G ELSE ClearOutput(f[k - 1], n, k)
      BY <2>2, <2>3, <2>4 DEF Iterates
    <2>6. Rec(f)
      <3> DEFINE b == [k \in 0..N |-> IF k = 0 THEN G ELSE ClearOutput(f[k - 1], n, k)]
      <3>1. f = [k \in 0..N |-> f[k]] /\ b = [k \in 0..N |-> b[k]]
        BY <2>3 DEF Iterates
      <3>2. \A k \in 0..N : f[k] = b[k]
        BY <2>5
      <3> HIDE DEF b
      <3>3. f = b
        BY <3>1, <3>2
      <3> QED
        BY <3>3 DEF b
    <2> HIDE DEF Rec
    <2> QED
      BY <2>6
  <1> HIDE DEF after, D
  <1>6. after[0] = G /\ \A k \in 1..N : after[k] = ClearOutput(after[k - 1], n, k)
    <2>1. 0 \in 0..N /\ \A k \in 1..N : k \in 0..N /\ k # 0
      BY <1>2
    <2> QED
      BY <1>5, <2>1
  <1>7. 0 \in T
    BY <1>2, <1>4, <1>6
  <1>8. ASSUME NEW k \in 1..N, k - 1 \in T PROVE k \in T
    <2>1. after[k - 1] \in D /\ \A p \in 1..k - 1 : after[k - 1].node[n].outs[p] = Silent
      BY <1>8
    <2>2. /\ after[k] \in D
          /\ \A q \in 1..N : after[k].node[n].outs[q] = IF q = k THEN Silent ELSE after[k - 1].node[n].outs[q]
      BY <1>3, <1>6, <2>1
    <2>3. \A p \in 1..k : p \in 1..N /\ (p = k \/ p \in 1..k - 1)
      BY <1>2
    <2>4. k \in 0..N
      BY <1>2
    <2> QED
      BY <2>1, <2>2, <2>3, <2>4
  <1>9. T = 0..N
    <2>1. T \in SUBSET (0..N)
      OBVIOUS
    <2> HIDE DEF T
    <2> QED
      BY <1>2, <1>7, <1>8, <2>1, IndexInduction
  <1>10. N \in T
    BY <1>2, <1>9
  <1> QED
    BY <1>1, <1>2, <1>10 DEF D

\* When n has given up all its outputs, nothing reads it.
LEMMA HushedSources ==
  ASSUME NEW G, Wired(G), NEW n \in Slot, NEW H, Hushes(G, H, n), \A q \in DOMAIN G.node[n].outs : H.node[n].outs[q] = Silent
  PROVE  /\ \A f \in EdgeId : ReadersOf(H, f) # {} =>
               G.edge[f].src # n /\ H.edge[f].src = G.edge[f].src /\ H.edge[f].port = G.edge[f].port
         /\ \A d \in Slot : Sources(H, d) = Sources(G, d) \ {n}
         /\ Quieter(G, H)
  <1>0. G \in Graph /\ H \in Graph /\ Wired(H) /\ Silent \notin EdgeId
    BY Constants0 DEF Hushes, Wired
  <1>1. ASSUME NEW f \in EdgeId, ReadersOf(H, f) # {}
        PROVE  G.edge[f].src # n /\ H.edge[f].src = G.edge[f].src /\ H.edge[f].port = G.edge[f].port
    <2>1. PICK r : r \in ReadersOf(H, f)
      BY <1>1
    <2>2. r[1] \in Slot /\ r[2] \in DOMAIN H.node[r[1]].ins /\ H.node[r[1]].ins[r[2]] = f
      BY <2>1, ReadersAre
    <2> DEFINE t == H.edge[f].src
               p == H.edge[f].port
    <2>3. t \in Slot /\ p \in DOMAIN H.node[t].outs /\ H.node[t].outs[p] = f
      BY <1>0, <2>2, FeederIs, SMTT(60) DEF Written
    <2>4. DOMAIN H.node[n].outs = DOMAIN G.node[n].outs
      <3>1. Len(H.node[n].outs) = Len(G.node[n].outs)
        BY DEF Hushes, AsManyOuts
      <3> QED
        BY <1>0, <3>1, PortsOf
    <2>5. t # n
      BY <1>0, <2>3, <2>4
    <2>6. p \in DOMAIN G.node[t].outs /\ G.node[t].outs[p] = f
      BY <2>3, <2>5, Zenon DEF Hushes
    <2> HIDE DEF t, p
    <2>7. G.edge[f].src = t
      BY <2>3, <2>6, WriterIs
    <2> QED
      BY <2>5, <2>7 DEF Hushes
  <1>2. Quieter(G, H)
    BY DEF Hushes, Quieter
  <1>3. ASSUME NEW d \in Slot PROVE Sources(H, d) = Sources(G, d) \ {n}
    <2>1. ASSUME NEW s \in Sources(H, d) PROVE s \in Sources(G, d) /\ s # n
      <3>1. PICK p \in DOMAIN H.node[d].ins, e \in EdgeId : H.node[d].ins[p] = e /\ H.edge[e].src = s
        BY <1>0, SourcesAre
      <3>2. p \in DOMAIN G.node[d].ins /\ G.node[d].ins[p] = e
        BY <1>0, <1>2, <3>1 DEF Quieter
      <3>3. ReadersOf(H, e) # {}
        <4>1. <<d, p>> \in ReadersOf(H, e)
          BY <3>1, ReadersAre
        <4> QED
          BY <4>1
      <3>4. G.edge[e].src = s /\ s # n
        BY <1>1, <3>1, <3>3
      <3>5. s # Nobody
        BY <1>0, SourcesInSlot
      <3> QED
        BY <1>0, <3>2, <3>4, <3>5, SourcesAre
    <2>2. ASSUME NEW s \in Sources(G, d), s # n PROVE s \in Sources(H, d)
      <3>1. PICK p \in DOMAIN G.node[d].ins, e \in EdgeId : G.node[d].ins[p] = e /\ G.edge[e].src = s
        BY <1>0, SourcesAre
      <3>2. p \in DOMAIN H.node[d].ins /\ H.node[d].ins[p] = e
        BY <2>2, <3>1 DEF Hushes
      <3>3. H.edge[e].src = s
        BY <2>2, <3>1 DEF Hushes
      <3>4. s # Nobody
        BY <1>0, SourcesInSlot
      <3> QED
        BY <1>0, <3>2, <3>3, <3>4, SourcesAre
    <2> QED
      BY <2>1, <2>2
  <1> QED
    BY <1>1, <1>2, <1>3

LEMMA HushedLeaving ==
  ASSUME NEW G, NEW n \in Slot, Leaving(G, n), ~IsHosted(G, n), NEW H, Hushes(G, H, n),
         \A q \in DOMAIN G.node[n].outs : H.node[n].outs[q] = Silent
  PROVE  /\ Wired(H) /\ Unborn(H) /\ Shapes(H) /\ Hosted(H) /\ OneHost(H) /\ ForHosts(H) /\ Acyclic(H)
         /\ Covered(H, n) /\ Kept(H) = Kept(G) /\ ~IsHosted(H, n) /\ Given(H) = Given(G)
         /\ \A d \in Slot : Preds(H, d) = Preds(G, d) /\ H.node[d].indeg = G.node[d].indeg
  <1>1. /\ Wired(G) /\ Unborn(G) /\ Shapes(G) /\ Hosted(G) /\ OneHost(G) /\ ForHosts(G) /\ Acyclic(G)
        /\ Covered(G, n) /\ G \in Graph
    BY DEF Leaving, Wired
  <1>2. Wired(H) /\ H \in Graph /\ KeepsFan(G, H) /\ KeepsLinks(G, H) /\ KeepsRest(G, H) /\ AsManyOuts(G, H)
    BY DEF Hushes, Wired
  <1>3. /\ \A f \in EdgeId : ReadersOf(H, f) # {} => G.edge[f].src # n /\ H.edge[f].src = G.edge[f].src
        /\ \A d \in Slot : Sources(H, d) = Sources(G, d) \ {n}
        /\ Quieter(G, H)
    BY <1>1, HushedSources
  <1>4. Alike(G, H) /\ FanFewer(G, H)
    <2>1. ASSUME NEW x \in Slot PROVE Len(H.node[x].ins) = Len(G.node[x].ins)
      <3>1. DOMAIN H.node[x].ins = DOMAIN G.node[x].ins
        BY DEF Hushes
      <3>2. /\ Len(H.node[x].ins) \in Nat /\ DOMAIN H.node[x].ins = 1..Len(H.node[x].ins)
            /\ Len(G.node[x].ins) \in Nat /\ DOMAIN G.node[x].ins = 1..Len(G.node[x].ins)
        BY <1>1, <1>2, PortsOf
      <3> QED
        BY <3>1, <3>2, SameInterval
    <2>2. \A x \in Slot : H.node[x].fan = G.node[x].fan /\ Len(H.node[x].outs) = Len(G.node[x].outs)
      BY <1>2 DEF KeepsFan, AsManyOuts
    <2>3. FanFewer(G, H)
      BY <1>2, FanKept
    <2>4. \A x \in Sums : x \in Slot
      BY Constants0
    <2> QED
      BY <1>2, <2>1, <2>2, <2>3, <2>4 DEF Alike
  <1>5. Unborn(H) /\ Shapes(H)
    BY <1>1, <1>2, <1>4, UnbornKept, UnbornLinks, AlikeShapes
  <1>6. Hosted(H)
    <2> SUFFICES ASSUME NEW x \in User, NEW t \in Sums, NEW i \in DOMAIN H.node[x].fan, H.node[x].fan[i] = t
                 PROVE  /\ H.node[x].ins[i] = G.node[x].ins[i] /\ H.node[t].outs[1] = G.node[t].outs[1]
                        /\ x \notin Sources(G, t) => x \notin Sources(H, t)
      BY <1>1, <1>2, <1>4, HostedKept
    <2>1. x \in Slot /\ t \in Slot /\ i \in DOMAIN G.node[x].fan /\ G.node[x].fan[i] = t
      BY <1>2, Constants0 DEF KeepsFan
    <2>2. t # n
      BY <2>1 DEF IsHosted
    <2>3. H.node[t].outs = G.node[t].outs
      BY <2>1, <2>2 DEF Hushes
    <2>4. H.node[x].ins[i] = G.node[x].ins[i]
      <3>1. i \in DOMAIN G.node[x].ins
        BY <1>1, <2>1, PortsOf DEF Shapes
      <3>2. G.node[x].ins[i] # Silent /\ G.node[x].ins[i] = G.node[t].outs[1] /\ Live(G, t)
        BY <1>1, <2>1 DEF Hosted
      <3>3. 1 \in DOMAIN G.node[t].outs
        BY <1>1, <3>2, SumsPort
      <3>4. G.edge[G.node[x].ins[i]].src = t
        BY <1>1, <2>1, <3>2, <3>3, OwnedWritten, SMTT(60)
      <3> QED
        BY <2>1, <2>2, <3>1, <3>4 DEF Hushes
    <2> QED
      BY <1>3, <2>1, <2>3, <2>4
  <1>7. OneHost(H)
    BY <1>1, <1>4, OneHostKept
  <1>8. ForHosts(H)
    <2> SUFFICES ASSUME NEW x \in Slot, NEW i \in DOMAIN H.node[x].ins, NEW f \in EdgeId, H.node[x].ins[i] = f,
                        H.edge[f].src \in Sums
                 PROVE  i \in DOMAIN H.node[x].fan /\ H.node[x].fan[i] = H.edge[f].src
      BY DEF ForHosts
    <2>1. <<x, i>> \in ReadersOf(H, f)
      BY ReadersAre
    <2>2. H.edge[f].src = G.edge[f].src
      BY <1>3, <2>1
    <2>3. i \in DOMAIN G.node[x].ins /\ G.node[x].ins[i] = f
      BY <1>3, Constants0 DEF Quieter
    <2> QED
      BY <1>1, <1>2, <2>2, <2>3 DEF ForHosts, KeepsFan
  <1>9. Acyclic(H)
    BY <1>1, <1>3, AcyclicFewer DEF Fewer
  <1>10. Covered(H, n)
    <2> SUFFICES ASSUME NEW x \in Slot \ {n}, NEW s \in Sources(H, x) PROVE x \in H.node[s].succ
      BY DEF Covered
    <2>1. s \in Sources(G, x) /\ s \in Slot
      BY <1>2, <1>3, SourcesInSlot
    <2> QED
      BY <1>1, <1>2, <2>1 DEF Covered, KeepsLinks
  <1>11. Kept(H) = Kept(G) /\ ~IsHosted(H, n)
    BY <1>2, KeptKept, Constants0 DEF KeepsFan
  <1>12. Given(H) = Given(G)
    BY <1>2 DEF Given, KeepsRest
  <1>13. \A d \in Slot : Preds(H, d) = Preds(G, d) /\ H.node[d].indeg = G.node[d].indeg
    BY <1>2 DEF Preds, KeepsLinks
  <1> QED
    BY <1>2, <1>5, <1>6, <1>7, <1>8, <1>9, <1>10, <1>11, <1>12, <1>13

\* At last the node itself: its ports and its links go, and those that heard it count one less.
Empties(G, H, n) ==
    /\ H.node[n].ins = <<>> /\ H.node[n].fan = <<>> /\ H.node[n].outs = <<>> /\ H.node[n].succ = {}
    /\ H.node[n].indeg = G.node[n].indeg
    /\ \A x \in Slot \ {n} : /\ H.node[x].ins = G.node[x].ins /\ H.node[x].fan = G.node[x].fan
                             /\ H.node[x].outs = G.node[x].outs /\ H.node[x].succ = G.node[x].succ

LEMMA EmptiedSound ==
  ASSUME NEW G, NEW n \in Slot, Wired(G), Unborn(G), Shapes(G), Hosted(G), OneHost(G), ForHosts(G), Acyclic(G),
         Covered(G, n), ~IsHosted(G, n), n \in Given(G), Deaf(G, n),
         \A q \in DOMAIN G.node[n].outs : G.node[n].outs[q] = Silent,
         \A d \in Slot : n \notin Sources(G, d),
         NEW H \in Graph, Empties(G, H, n), KeepsEdges(G, H), KeepsRest(G, H),
         \A d \in Kept(G) : /\ Preds(G, d) \ {n} = Sources(G, d)
                            /\ H.node[d].indeg = Cardinality(Sources(G, d)),
         \A d \in Slot \ Given(G) : H.node[d].indeg = G.node[d].indeg
  PROVE  Sound(H) /\ Quieter(G, H)
  <1>0. G \in Graph /\ Silent \notin EdgeId /\ DOMAIN <<>> = {}
    BY Constants0 DEF Wired
  <1>1. Quieter(G, H)
    BY <1>0 DEF Empties, Quieter
  <1>2. Wired(H)
    <2>1. KeepsWriters(G, H)
      <3> SUFFICES ASSUME NEW x \in Slot, NEW e \in EdgeId, NEW q
                   PROVE  (q \in DOMAIN G.node[x].outs /\ G.node[x].outs[q] = e)
                            <=> (q \in DOMAIN H.node[x].outs /\ H.node[x].outs[q] = e)
        BY DEF KeepsWriters
      <3>1. CASE x = n
        BY <1>0, <3>1 DEF Empties
      <3>2. CASE x # n
        BY <3>2 DEF Empties
      <3> QED
        BY <3>1, <3>2
    <2> QED
      BY <1>1, <2>1, WiredQuieter DEF KeepsRest
  <1>3. \A d \in Slot : Sources(H, d) = Sources(G, d)
    <2>1. \A d \in Slot \ {n} : Sources(H, d) = Sources(G, d)
      BY DEF Empties, KeepsEdges, Sources
    <2>2. Sources(H, n) = {}
      BY <1>0, SourcesAre DEF Empties
    <2>3. Sources(G, n) = {}
      BY <1>0, SourcesAre DEF Deaf
    <2> QED
      BY <2>1, <2>2, <2>3
  <1>4. \A d \in Slot : Preds(H, d) = Preds(G, d) \ {n}
    BY DEF Preds, Empties
  <1>5. FanFewer(G, H)
    BY <1>0 DEF FanFewer, Empties
  <1>6. Kept(H) \subseteq Kept(G) /\ Kept(G) \subseteq Slot
    BY <1>5, KeptFewer
  <1>7. Given(H) = Given(G)
    BY DEF Given, KeepsRest
  <1>8. Unborn(H)
    <2> SUFFICES ASSUME NEW x \in Slot \ Given(G)
                 PROVE  /\ H.node[x].ins = <<>> /\ H.node[x].outs = <<>> /\ H.node[x].succ = {} /\ H.node[x].indeg = 0
                        /\ \A s \in Slot : x \notin H.node[s].succ
      BY <1>7 DEF Unborn
    <2>1. x # n
      OBVIOUS
    <2>2. /\ G.node[x].ins = <<>> /\ G.node[x].outs = <<>> /\ G.node[x].succ = {} /\ G.node[x].indeg = 0
          /\ \A s \in Slot : x \notin G.node[s].succ
      BY DEF Unborn
    <2> QED
      BY <2>1, <2>2 DEF Empties
  <1>9. \A x \in Slot \ {n} : Live(H, x) <=> Live(G, x)
    BY DEF Live, Empties
  <1>10. Shapes(H)
    <2>1. ASSUME NEW x \in User PROVE Len(H.node[x].fan) = Len(H.node[x].ins)
      BY Constants0 DEF Shapes, Empties
    <2>2. ASSUME NEW x \in Sums
          PROVE  /\ \A p \in DOMAIN H.node[x].fan : H.node[x].fan[p] = Nobody
                 /\ Len(H.node[x].outs) <= 1
                 /\ Live(H, x) => Len(H.node[x].fan) = 2 /\ Len(H.node[x].outs) = 1
      <3>1. CASE x = n
        <4>1. Len(H.node[x].outs) = 0
          BY <3>1 DEF Empties
        <4>2. ~Live(H, x)
          BY <3>1 DEF Empties, Live
        <4>3. DOMAIN H.node[x].fan = {}
          BY <1>0, <3>1 DEF Empties
        <4> QED
          BY <4>1, <4>2, <4>3
      <3>2. CASE x # n
        BY <1>9, <3>2, Constants0 DEF Empties, Shapes
      <3> QED
        BY <3>1, <3>2
    <2> QED
      BY <2>1, <2>2 DEF Shapes
  <1>11. ASSUME NEW x \in User, NEW t \in Sums, NEW i \in DOMAIN H.node[x].fan, H.node[x].fan[i] = t
         PROVE  x # n /\ t # n /\ x \in Slot /\ t \in Slot /\ i \in DOMAIN G.node[x].fan /\ G.node[x].fan[i] = t
    <2>1. x \in Slot /\ t \in Slot
      BY Constants0
    <2>2. x # n
      BY <1>0 DEF Empties
    <2>3. i \in DOMAIN G.node[x].fan /\ G.node[x].fan[i] = t
      BY <1>11, <2>1, <2>2 DEF Empties
    <2> QED
      BY <2>1, <2>2, <2>3 DEF IsHosted
  <1>12. Hosted(H)
    <2> SUFFICES ASSUME NEW x \in User, NEW t \in Sums, NEW i \in DOMAIN H.node[x].fan, H.node[x].fan[i] = t
                 PROVE  /\ t < H.next /\ Live(H, t)
                        /\ H.node[x].ins[i] # Silent /\ H.node[x].ins[i] = H.node[t].outs[1]
                        /\ x \notin Sources(H, t)
      BY DEF Hosted
    <2>1. x # n /\ t # n /\ x \in Slot /\ t \in Slot /\ i \in DOMAIN G.node[x].fan /\ G.node[x].fan[i] = t
      BY <1>11
    <2>2. /\ t < G.next /\ Live(G, t) /\ G.node[x].ins[i] # Silent /\ G.node[x].ins[i] = G.node[t].outs[1]
          /\ x \notin Sources(G, t)
      BY <2>1 DEF Hosted
    <2>3. H.node[x].ins = G.node[x].ins /\ H.node[t].outs = G.node[t].outs /\ H.next = G.next
      BY <2>1 DEF Empties, KeepsRest
    <2> QED
      BY <1>3, <1>9, <2>1, <2>2, <2>3
  <1>13. OneHost(H)
    BY <1>5, OneHostKept
  <1>14. ForHosts(H)
    <2> SUFFICES ASSUME NEW x \in Slot, NEW i \in DOMAIN H.node[x].ins, NEW f \in EdgeId, H.node[x].ins[i] = f,
                        H.edge[f].src \in Sums
                 PROVE  i \in DOMAIN H.node[x].fan /\ H.node[x].fan[i] = H.edge[f].src
      BY DEF ForHosts
    <2>1. x # n
      BY <1>0 DEF Empties
    <2> QED
      BY <2>1 DEF ForHosts, Empties, KeepsEdges
  <1>15. Acyclic(H)
    BY <1>3, AcyclicFewer DEF Fewer
  <1>16. Covered(H, Nobody)
    <2> SUFFICES ASSUME NEW x \in Slot, NEW s \in Sources(H, x) PROVE x \in H.node[s].succ
      BY DEF Covered
    <2>1. s \in Sources(G, x) /\ s # n /\ s \in Slot
      BY <1>0, <1>3, SourcesInSlot
    <2>2. x # n
      BY <1>0, <2>1, SourcesAre DEF Deaf
    <2> QED
      BY <2>1, <2>2 DEF Covered, Empties
  <1>17. ASSUME NEW x \in Kept(H) PROVE Exact(H, Nobody, x)
    <2>1. x \in Kept(G) /\ x \in Slot
      BY <1>6
    <2>2. Preds(H, x) = Sources(H, x) /\ H.node[x].indeg = Cardinality(Sources(H, x))
      BY <1>3, <1>4, <2>1
    <2> QED
      BY <2>2 DEF Exact
  <1> QED
    BY <1>1, <1>2, <1>8, <1>10, <1>12, <1>13, <1>14, <1>15, <1>16, <1>17 DEF Sound, Leaving

\* What deleting the node n leaves, but for its watch.
Deletes(G, H, n) ==
    /\ H.watch = G.watch \ {n} /\ KeepsRest(G, H)
    /\ n \in Sums =>
         /\ Tagged(G, H)
         /\ \A x \in Slot \ {n} : \A p \in DOMAIN G.node[x].ins : \A e \in EdgeId :
               G.node[x].ins[p] = e /\ G.edge[e].src # n => p \in DOMAIN H.node[x].ins /\ H.node[x].ins[p] = e

LEMMA DeleteNodeSound ==
  ASSUME NEW G, NEW n \in Slot, Leaving(G, n), ~IsHosted(G, n), Live(G, n),
         n \in Sums => DOMAIN G.node[n].ins \subseteq DOMAIN G.node[n].fan
  PROVE  LET H == DeleteNode(G, n) IN Sound(H) /\ Deletes(G, H, n)
  <1> DEFINE W == [G EXCEPT !.watch = @ \ {n}]
             A == InputsCleared(W, n)
             B == OutputsCleared(A, n)
             Lost == {d \in Slot : StillConnected(A, n, d) /\ ~StillConnected(B, n, d)}
             gone == [Blank EXCEPT !.indeg = B.node[n].indeg]
             left(d) == [B.node[d] EXCEPT !.indeg = Floor(@ - 1)]
             f == [d \in Slot |-> IF d = n THEN gone ELSE IF d \in Lost THEN left(d) ELSE B.node[d]]
             H == DeleteNode(G, n)
  <1>1. H = [B EXCEPT !.node = f]
    BY DEF DeleteNode
  <1>2. G \in Graph /\ Unborn(G) /\ G.watch \in SUBSET User
    BY DEF Leaving, Wired, Graph
  <1>3. /\ Leaving(W, n) /\ W.watch = G.watch \ {n} /\ W.node = G.node /\ KeepsEdges(G, W) /\ KeepsRest(G, W)
    <2>1. G.watch \ {n} \in SUBSET User
      BY <1>2
    <2> QED
      BY <2>1, WatchedLeaving
  <1> HIDE DEF W
  <1>4. /\ Leaving(A, n) /\ ~IsHosted(A, n) /\ Spared(W, A, n) /\ Deaf(A, n)
    <2>1. ~IsHosted(W, n) /\ (n \in Sums => DOMAIN W.node[n].ins \subseteq DOMAIN W.node[n].fan)
      BY <1>3 DEF IsHosted
    <2>2. /\ Leaving(A, n) /\ ~IsHosted(A, n) /\ Spared(W, A, n)
          /\ \A p \in DOMAIN W.node[n].ins : A.node[n].ins[p] = Silent
      BY <1>3, <2>1, InputsClearedIs
    <2> QED
      BY <2>2 DEF Deaf, Spared
  <1> HIDE DEF A
  <1>5. Wired(A) /\ A \in Graph /\ Unborn(A) /\ Acyclic(A) /\ \A d \in Kept(A) : Exact(A, n, d)
    BY <1>4 DEF Leaving, Wired
  <1>6. Hushes(A, B, n) /\ \A q \in DOMAIN A.node[n].outs : B.node[n].outs[q] = Silent
    BY <1>4, <1>5, OutputsClearedIs
  <1> HIDE DEF B
  <1>7. /\ Wired(B) /\ Unborn(B) /\ Shapes(B) /\ Hosted(B) /\ OneHost(B) /\ ForHosts(B) /\ Acyclic(B)
        /\ Covered(B, n) /\ Kept(B) = Kept(A) /\ ~IsHosted(B, n) /\ Given(B) = Given(A)
        /\ \A d \in Slot : Preds(B, d) = Preds(A, d) /\ B.node[d].indeg = A.node[d].indeg
    BY <1>4, <1>6, HushedLeaving
  <1>8. /\ \A e \in EdgeId : ReadersOf(B, e) # {} =>
               A.edge[e].src # n /\ B.edge[e].src = A.edge[e].src /\ B.edge[e].port = A.edge[e].port
        /\ \A d \in Slot : Sources(B, d) = Sources(A, d) \ {n}
        /\ Quieter(A, B)
    BY <1>5, <1>6, HushedSources
  <1>9. B \in Graph
    BY <1>7 DEF Wired
  <1>10. Lost = {d \in Slot : n \in Sources(A, d)}
    BY <1>5, <1>7, <1>8, StillIs
  <1> HIDE DEF Lost
  <1>11. n \notin Lost
    BY <1>5, <1>10, NoLoop
  <1>12. /\ gone \in Node /\ gone.ins = <<>> /\ gone.fan = <<>> /\ gone.outs = <<>> /\ gone.succ = {}
         /\ gone.indeg = B.node[n].indeg
    <2>1. B.node[n].indeg \in Nat
      BY <1>9, NodeOf
    <2>2. <<>> \in Seq(EdgeId \cup {Silent}) /\ <<>> \in Seq(Sums \cup {Nobody}) /\ {} \in SUBSET Slot
      OBVIOUS
    <2>3. Blank.ins = <<>> /\ Blank.fan = <<>> /\ Blank.outs = <<>> /\ Blank.succ = {} /\ Blank \in Node
      BY <2>2 DEF Blank, Node
    <2> DEFINE i == B.node[n].indeg
    <2> HIDE DEF i
    <2>4. LET r == [Blank EXCEPT !.indeg = i]
          IN  /\ r \in Node /\ r.ins = Blank.ins /\ r.fan = Blank.fan
              /\ r.outs = Blank.outs /\ r.succ = Blank.succ /\ r.indeg = i
      BY <2>1, <2>3, NodeWithIndeg DEF i
    <2>5. gone = [Blank EXCEPT !.indeg = i]
      BY DEF i
    <2> HIDE DEF gone
    <2> QED
      BY <2>3, <2>4, <2>5 DEF gone, i
  <1> HIDE DEF gone
  <1>13. ASSUME NEW d \in Slot
         PROVE  /\ left(d) \in Node /\ left(d).ins = B.node[d].ins /\ left(d).fan = B.node[d].fan
                /\ left(d).outs = B.node[d].outs /\ left(d).succ = B.node[d].succ
                /\ left(d).indeg = Floor(B.node[d].indeg - 1)
    <2>1. B.node[d] \in Node /\ B.node[d].indeg \in Nat
      BY <1>9, NodeOf
    <2>2. B.node[d].indeg - 1 \in Int
      BY <2>1
    <2>3. Floor(B.node[d].indeg - 1) \in Nat
      BY <2>2, FloorIs
    <2> DEFINE i == Floor(B.node[d].indeg - 1)
    <2> HIDE DEF i
    <2>4. LET r == [B.node[d] EXCEPT !.indeg = i]
          IN  /\ r \in Node /\ r.ins = B.node[d].ins /\ r.fan = B.node[d].fan
              /\ r.outs = B.node[d].outs /\ r.succ = B.node[d].succ /\ r.indeg = i
      BY <2>1, <2>3, NodeWithIndeg DEF i
    <2> QED
      BY <2>4 DEF i
  <1> HIDE DEF left
  <1>14. f \in [Slot -> Node]
    <2>1. \A d \in Slot : B.node[d] \in Node
      BY <1>9, NodeOf
    <2> QED
      BY <1>12, <1>13, <2>1
  <1>15. \A d \in Slot : f[d] = IF d = n THEN gone ELSE IF d \in Lost THEN left(d) ELSE B.node[d]
    OBVIOUS
  <1> HIDE DEF f
  <1>16. H \in Graph /\ H.node = f /\ KeepsEdges(B, H) /\ KeepsRest(B, H) /\ H.watch = B.watch
    BY <1>1, <1>9, <1>14, NodesChanged
  <1> HIDE DEF H
  <1>17. Empties(B, H, n)
    BY <1>12, <1>13, <1>15, <1>16 DEF Empties
  <1>18. n \in Given(B)
    <2>1. n \in Given(G)
      <3>1. G.node[n].ins # <<>> \/ G.node[n].outs # <<>>
        BY DEF Live
      <3> QED
        BY <1>2, <3>1 DEF Unborn
    <2>2. Given(A) = Given(G)
      BY <1>3, <1>4 DEF Spared, KeepsRest, Given
    <2> QED
      BY <1>7, <2>1, <2>2
  <1>19. Deaf(B, n) /\ \A q \in DOMAIN B.node[n].outs : B.node[n].outs[q] = Silent
    <2>1. Deaf(B, n)
      BY <1>4, <1>6 DEF Hushes, Deaf
    <2>2. DOMAIN B.node[n].outs = DOMAIN A.node[n].outs
      <3>1. Len(B.node[n].outs) = Len(A.node[n].outs)
        BY <1>6 DEF Hushes, AsManyOuts
      <3> QED
        BY <1>5, <1>9, <3>1, PortsOf
    <2> QED
      BY <1>6, <2>1, <2>2
  <1>20. \A d \in Slot : n \notin Sources(B, d)
    BY <1>8
  <1>21. ASSUME NEW d \in Kept(B)
         PROVE  /\ Preds(B, d) \ {n} = Sources(B, d)
                /\ H.node[d].indeg = Cardinality(Sources(B, d))
    <2>1. d \in Slot /\ Exact(A, n, d)
      BY <1>5, <1>7, Constants0 DEF Kept
    <2>2. Preds(B, d) \ {n} = Sources(B, d)
      BY <1>7, <1>8, <2>1 DEF Exact
    <2>3. IsFiniteSet(Sources(A, d)) /\ Cardinality(Sources(A, d)) \in Nat
      BY <1>5, <2>1, SourcesInSlot
    <2>4. B.node[d].indeg = Cardinality(Sources(A, d))
      BY <1>7, <2>1 DEF Exact
    <2>5. CASE d \in Lost
      <3>1. n \in Sources(A, d)
        BY <1>10, <2>5
      <3>2. Cardinality(Sources(A, d) \ {n}) = Cardinality(Sources(A, d)) - 1 /\ Cardinality(Sources(A, d) \ {n}) \in Nat
        BY <2>3, <3>1, FS_RemoveElement, FS_CardinalityType
      <3>3. H.node[d].indeg = Floor(Cardinality(Sources(A, d)) - 1)
        BY <1>11, <1>13, <1>15, <1>16, <2>1, <2>4, <2>5
      <3>4. Floor(Cardinality(Sources(A, d)) - 1) = Cardinality(Sources(A, d)) - 1
        BY <2>3, <3>2, FloorIs
      <3> QED
        BY <1>8, <2>1, <2>2, <3>2, <3>3, <3>4
    <2>6. CASE d \notin Lost
      <3>1. Sources(B, d) = Sources(A, d)
        BY <1>8, <1>10, <2>1, <2>6
      <3>2. H.node[d].indeg = B.node[d].indeg
        BY <1>12, <1>15, <1>16, <2>1, <2>6
      <3> QED
        BY <2>2, <2>4, <3>1, <3>2
    <2> QED
      BY <2>5, <2>6
  <1>22. ASSUME NEW d \in Slot \ Given(B) PROVE H.node[d].indeg = B.node[d].indeg
    <2>1. d # n
      BY <1>18
    <2>2. d \notin Lost
      <3>1. A.node[d].ins = <<>>
        BY <1>5, <1>7 DEF Unborn
      <3>2. DOMAIN A.node[d].ins = {}
        BY <3>1
      <3> QED
        BY <1>5, <1>10, <3>2, SourcesAre
    <2> QED
      BY <1>15, <1>16, <2>1, <2>2
  <1>23. Sound(H) /\ Quieter(B, H)
    BY <1>7, <1>16, <1>17, <1>18, <1>19, <1>20, <1>21, <1>22, EmptiedSound
  <1>24. H.watch = G.watch \ {n} /\ KeepsRest(G, H)
    BY <1>3, <1>4, <1>6, <1>16 DEF Spared, Hushes, KeepsRest
  <1>25. ASSUME n \in Sums PROVE Tagged(G, H)
    <2> SUFFICES ASSUME NEW e \in EdgeId, ReadersOf(H, e) # {}
                 PROVE  H.edge[e].src = G.edge[e].src /\ H.edge[e].port = G.edge[e].port
      BY DEF Tagged
    <2>1. ReadersOf(B, e) # {}
      BY <1>23, QuieterReaders
    <2>2. ReadersOf(A, e) # {}
      BY <1>8, <2>1, QuieterReaders
    <2>3. Tagged(W, A)
      BY <1>4, <1>25 DEF Spared
    <2> QED
      BY <1>3, <1>8, <1>16, <2>1, <2>2, <2>3 DEF Tagged, KeepsEdges
  <1>26. ASSUME n \in Sums, NEW x \in Slot \ {n}, NEW p \in DOMAIN G.node[x].ins, NEW e \in EdgeId,
                G.node[x].ins[p] = e, G.edge[e].src # n
         PROVE  p \in DOMAIN H.node[x].ins /\ H.node[x].ins[p] = e
    <2>1. A.node[x].ins = G.node[x].ins
      BY <1>3, <1>4, <1>26 DEF Spared
    <2>2. A.edge[e].src # n
      <3>1. <<x, p>> \in ReadersOf(A, e)
        BY <1>26, <2>1, ReadersAre
      <3>2. Tagged(W, A)
        BY <1>4, <1>26 DEF Spared
      <3> QED
        BY <1>3, <1>26, <3>1, <3>2 DEF Tagged, KeepsEdges
    <2>3. p \in DOMAIN B.node[x].ins /\ B.node[x].ins[p] = e
      BY <1>6, <1>26, <2>1, <2>2 DEF Hushes
    <2> QED
      BY <1>17, <2>3 DEF Empties
  <1>27. Deletes(G, H, n)
    BY <1>24, <1>25, <1>26 DEF Deletes
  <1> QED
    BY <1>23, <1>27 DEF H

-----------------------------------------------------------------------------
(* A SUM that loses an input: it shrinks or is dissolved.                   *)

LEMMA WiredReshaped ==
  ASSUME NEW G, Wired(G), NEW H \in Graph, KeepsOuts(G, H), KeepsEdges(G, H), KeepsRest(G, H),
         \A x \in Slot : \A e \in EdgeId : \A p \in DOMAIN H.node[x].ins : H.node[x].ins[p] = e =>
            \E q \in DOMAIN G.node[x].ins : G.node[x].ins[q] = e,
         \A e \in EdgeId : Cardinality(ReadersOf(H, e)) <= Cardinality(ReadersOf(G, e))
  PROVE  Wired(H)
  <1>1. G \in Graph /\ Fed(G) /\ Owned(G) /\ Counted(G) /\ Pooled(G)
    BY DEF Wired
  <1>2. Fed(H)
    <2> SUFFICES ASSUME NEW d \in Slot, NEW p \in DOMAIN H.node[d].ins, NEW e \in EdgeId, H.node[d].ins[p] = e
                 PROVE  Written(H, e)
      BY DEF Fed
    <2>1. PICK q \in DOMAIN G.node[d].ins : G.node[d].ins[q] = e
      OBVIOUS
    <2>2. Written(G, e)
      BY <1>1, <2>1 DEF Fed
    <2> QED
      BY <2>2 DEF Written, KeepsEdges, KeepsOuts
  <1>3. Owned(H)
    BY <1>1 DEF Owned, KeepsOuts, KeepsEdges
  <1>4. Counted(H)
    <2> SUFFICES ASSUME NEW e \in EdgeId PROVE H.edge[e].ref >= Cardinality(ReadersOf(H, e))
      BY DEF Counted
    <2>1. /\ G.edge[e].ref >= Cardinality(ReadersOf(G, e)) /\ H.edge[e].ref = G.edge[e].ref
          /\ Cardinality(ReadersOf(H, e)) <= Cardinality(ReadersOf(G, e))
      BY <1>1 DEF Counted, KeepsEdges
    <2>2. G.edge[e].ref \in Nat /\ Cardinality(ReadersOf(G, e)) \in Nat /\ Cardinality(ReadersOf(H, e)) \in Nat
      BY <1>1, EdgeOf, ReadersFinite
    <2> QED
      BY <2>1, <2>2
  <1>5. Pooled(H)
    BY <1>1 DEF Pooled, UsedEdges, KeepsEdges, KeepsRest
  <1> QED
    BY <1>2, <1>3, <1>4, <1>5 DEF Wired

LEMMA ReadersMoved ==
  ASSUME NEW G \in Graph, NEW n \in Slot, NEW i \in DOMAIN G.node[n].ins, G.node[n].ins[i] = Silent,
         NEW H \in Graph, InsBecome(G, H, n, RemoveAt(G.node[n].ins, i)), NEW e \in EdgeId
  PROVE  Cardinality(ReadersOf(H, e)) <= Cardinality(ReadersOf(G, e))
  <1> DEFINE s == G.node[n].ins
             q == RemoveAt(s, i)
             f == [r \in ReadersOf(H, e) |-> <<r[1], IF r[1] = n /\ r[2] >= i THEN r[2] + 1 ELSE r[2]>>]
  <1>1. /\ Len(s) \in Nat /\ DOMAIN s = 1..Len(s) /\ s \in Seq(EdgeId \cup {Silent}) /\ i \in Nat /\ i \in 1..Len(s)
    BY NodeOf, PortsOf
  <1>2. /\ q \in Seq(EdgeId \cup {Silent}) /\ Len(q) = Len(s) - 1
        /\ \A k \in 1..Len(s) - 1 : q[k] = IF k < i THEN s[k] ELSE s[k + 1]
    BY <1>1, RemoveAtProperties
  <1> HIDE DEF q
  <1>3. H.node[n].ins = q /\ \A x \in Slot \ {n} : H.node[x].ins = G.node[x].ins
    BY DEF InsBecome, q
  <1>4. DOMAIN q = 1..Len(s) - 1
    BY <1>1, <1>2
  <1>5. ASSUME NEW r \in ReadersOf(H, e)
        PROVE  /\ f[r] \in ReadersOf(G, e)
               /\ r = <<r[1], r[2]>> /\ r[2] \in Nat
               /\ f[r] = <<r[1], IF r[1] = n /\ r[2] >= i THEN r[2] + 1 ELSE r[2]>>
    <2>1. r = <<r[1], r[2]>> /\ r[1] \in Slot /\ r[2] \in DOMAIN H.node[r[1]].ins /\ H.node[r[1]].ins[r[2]] = e
      BY ReadersAre
    <2>2. f[r] = <<r[1], IF r[1] = n /\ r[2] >= i THEN r[2] + 1 ELSE r[2]>>
      OBVIOUS
    <2> DEFINE x == r[1]
               k == r[2]
    <2>3. r = <<x, k>> /\ x \in Slot /\ k \in DOMAIN H.node[x].ins /\ H.node[x].ins[k] = e
          /\ f[r] = <<x, IF x = n /\ k >= i THEN k + 1 ELSE k>>
      BY <2>1, <2>2
    <2> HIDE DEF x, k, f
    <2>4. CASE x = n
      <3>1. k \in 1..Len(s) - 1 /\ q[k] = e
        BY <1>3, <1>4, <2>3, <2>4
      <3>2. k < i => k \in DOMAIN s /\ s[k] = e
        BY <1>1, <1>2, <3>1
      <3>3. k >= i => k + 1 \in DOMAIN s /\ s[k + 1] = e
        BY <1>1, <1>2, <3>1
      <3>4. k < i => <<n, k>> \in ReadersOf(G, e)
        BY <3>2, ReadersAre
      <3>5. k >= i => <<n, k + 1>> \in ReadersOf(G, e)
        BY <3>3, ReadersAre
      <3>6. k \in Nat /\ (k >= i \/ k < i)
        BY <1>1, <3>1
      <3> QED
        BY <2>1, <2>2, <2>3, <2>4, <3>4, <3>5, <3>6 DEF x, k
    <2>5. CASE x # n
      <3>1. k \in DOMAIN G.node[x].ins /\ G.node[x].ins[k] = e
        BY <1>3, <2>3, <2>5
      <3>2. k \in Nat
        BY <2>3, <3>1, PortsOf
      <3>3. <<x, k>> \in ReadersOf(G, e)
        BY <2>3, <3>1, ReadersAre
      <3> QED
        BY <2>1, <2>2, <2>3, <2>5, <3>2, <3>3 DEF x, k
    <2> QED
      BY <2>4, <2>5
  <1>6. ASSUME NEW r \in ReadersOf(H, e), NEW t \in ReadersOf(H, e), f[r] = f[t]
        PROVE  r = t
    <2>1. /\ r = <<r[1], r[2]>> /\ r[2] \in Nat /\ f[r] = <<r[1], IF r[1] = n /\ r[2] >= i THEN r[2] + 1 ELSE r[2]>>
          /\ t = <<t[1], t[2]>> /\ t[2] \in Nat /\ f[t] = <<t[1], IF t[1] = n /\ t[2] >= i THEN t[2] + 1 ELSE t[2]>>
      BY <1>5
    <2> HIDE DEF f
    <2> DEFINE a == IF r[1] = n /\ r[2] >= i THEN r[2] + 1 ELSE r[2]
               b == IF t[1] = n /\ t[2] >= i THEN t[2] + 1 ELSE t[2]
    <2>2. <<r[1], a>> = <<t[1], b>>
      BY <1>6, <2>1
    <2> HIDE DEF a, b
    <2>3. r[1] = t[1] /\ a = b
      BY <2>2
    <2>4. r[2] = t[2]
      BY <1>1, <2>1, <2>3 DEF a, b
    <2> QED
      BY <2>1, <2>3, <2>4
  <1>7. DOMAIN f = ReadersOf(H, e)
    OBVIOUS
  <1>8. f = [r \in ReadersOf(H, e) |-> f[r]]
    OBVIOUS
  <1> HIDE DEF f
  <1>9. f \in Injection(ReadersOf(H, e), ReadersOf(G, e))
    <2>1. f \in [ReadersOf(H, e) -> ReadersOf(G, e)]
      BY <1>5, <1>8
    <2>2. \A r, t \in ReadersOf(H, e) : f[r] = f[t] => r = t
      BY <1>6
    <2> QED
      BY <2>1, <2>2 DEF Injection, IsInjective
  <1> QED
    BY <1>9, ReadersFinite, FS_Injection

LEMMA ShrunkSound ==
  ASSUME NEW G, Sound(G), NEW sum \in Sums, Live(G, sum), NEW i \in DOMAIN G.node[sum].ins,
         G.node[sum].ins[i] = Silent
  PROVE  LET H == [G EXCEPT !.node[sum].ins = RemoveAt(@, i)]
         IN  /\ Sound(H) /\ H.watch = G.watch /\ KeepsFan(G, H) /\ KeepsOuts(G, H) /\ KeepsRest(G, H)
             /\ \A x \in Slot : Sources(H, x) = Sources(G, x)
             /\ \A x \in Slot \ {sum} : H.node[x].ins = G.node[x].ins
             /\ H.node[sum].ins \in Seq(EdgeId \cup {Silent})
  <1> DEFINE s == G.node[sum].ins
             q == RemoveAt(s, i)
             H == [G EXCEPT !.node = [G.node EXCEPT ![sum] = [G.node[sum] EXCEPT !.ins = q]]]
  <1>0. Wired(G) /\ G \in Graph /\ sum \in Slot /\ Silent \notin EdgeId
    BY Constants0 DEF Sound, Leaving, Wired
  <1>1. [G EXCEPT !.node[sum].ins = RemoveAt(@, i)] = H
    BY Zenon
  <1>2. Len(s) \in Nat /\ DOMAIN s = 1..Len(s) /\ s \in Seq(EdgeId \cup {Silent}) /\ i \in 1..Len(s) /\ i \in Nat
    BY <1>0, NodeOf, PortsOf
  <1>3. /\ q \in Seq(EdgeId \cup {Silent}) /\ Len(q) = Len(s) - 1
        /\ \A k \in 1..Len(s) - 1 : q[k] = IF k < i THEN s[k] ELSE s[k + 1]
    BY <1>2, RemoveAtProperties
  <1> HIDE DEF q
  <1>4. /\ H \in Graph /\ InsBecome(G, H, sum, q)
        /\ KeepsFan(G, H) /\ KeepsOuts(G, H) /\ KeepsLinks(G, H) /\ KeepsEdges(G, H) /\ KeepsRest(G, H)
        /\ H.watch = G.watch
    BY <1>0, <1>3, NewInsIs
  <1> HIDE DEF H
  <1>5. H.node[sum].ins = q /\ \A x \in Slot \ {sum} : H.node[x].ins = G.node[x].ins
    BY <1>0, <1>4 DEF InsBecome
  <1>6. DOMAIN q = 1..Len(s) - 1
    BY <1>2, <1>3
  <1>7. \A e \in EdgeId : \A k \in DOMAIN q : q[k] = e => \E j \in DOMAIN s : s[j] = e
    <2> SUFFICES ASSUME NEW e \in EdgeId, NEW k \in DOMAIN q, q[k] = e PROVE \E j \in DOMAIN s : s[j] = e
      OBVIOUS
    <2>1. k \in 1..Len(s) - 1 /\ k \in DOMAIN s /\ k + 1 \in DOMAIN s
      BY <1>2, <1>6
    <2>2. q[k] = s[k] \/ q[k] = s[k + 1]
      BY <1>3, <2>1
    <2> QED
      BY <2>1, <2>2
  <1>8. \A e \in EdgeId : \A j \in DOMAIN s : s[j] = e => \E k \in DOMAIN q : q[k] = e
    <2> SUFFICES ASSUME NEW e \in EdgeId, NEW j \in DOMAIN s, s[j] = e PROVE \E k \in DOMAIN q : q[k] = e
      OBVIOUS
    <2>1. j # i
      BY <1>0
    <2>2. CASE j < i
      <3>1. j \in 1..Len(s) - 1
        BY <1>2, <2>2
      <3> QED
        BY <1>3, <1>6, <2>2, <3>1
    <2>3. CASE j > i
      <3>1. j - 1 \in 1..Len(s) - 1 /\ ~(j - 1 < i) /\ (j - 1) + 1 = j
        BY <1>2, <2>3
      <3>2. q[j - 1] = s[j]
        BY <1>3, <3>1
      <3> QED
        BY <1>6, <3>1, <3>2
    <2>4. j < i \/ j > i
      BY <1>2, <2>1
    <2> QED
      BY <2>2, <2>3, <2>4
  <1>9. SameHeard(G.node[sum].ins, H.node[sum].ins)
    BY <1>5, <1>7, <1>8 DEF SameHeard
  <1>10. Wired(H)
    <2>1. \A e \in EdgeId : Cardinality(ReadersOf(H, e)) <= Cardinality(ReadersOf(G, e))
      BY <1>0, <1>4, ReadersMoved DEF q
    <2>2. \A x \in Slot : \A e \in EdgeId : \A p \in DOMAIN H.node[x].ins : H.node[x].ins[p] = e =>
            \E j \in DOMAIN G.node[x].ins : G.node[x].ins[j] = e
      BY <1>5, <1>7
    <2> QED
      BY <1>0, <1>4, <2>1, <2>2, WiredReshaped
  <1>11. Sound(H) /\ \A x \in Slot : Sources(H, x) = Sources(G, x)
    BY <1>4, <1>5, <1>9, <1>10, ReshapedSound DEF KeepsEdges
  <1> QED
    BY <1>1, <1>3, <1>4, <1>5, <1>11

LEMMA DissolveSound ==
  ASSUME NEW G, Sound(G), NEW d \in User, NEW dp \in DOMAIN G.node[d].fan, NEW sum \in Sums,
         G.node[d].fan[dp] = sum, DOMAIN G.node[sum].ins \subseteq DOMAIN G.node[sum].fan
  PROVE  LET H == Dissolve(G, sum, d, dp) IN Sound(H) /\ H.watch = G.watch
  <1> DEFINE e == G.node[d].ins[dp]
             K == SetIn(G, d, dp, Silent)
             F == SetFan(K, d, dp, Nobody)
             Q == Unlink(F, sum, d)
             H == DeleteNode(Q, sum)
  <1>1. Dissolve(G, sum, d, dp) = H
    <2>1. [SetIn(G, d, dp, Silent) EXCEPT !.node[d].fan[dp] = Nobody] = SetFan(SetIn(G, d, dp, Silent), d, dp, Nobody)
      BY Zenon DEF SetFan
    <2> QED
      BY <2>1, Zenon DEF Dissolve
  <1>2. /\ Wired(G) /\ G \in Graph /\ Shapes(G) /\ Hosted(G) /\ OneHost(G) /\ Leaving(G, Nobody)
        /\ d \in Slot /\ sum \in Slot /\ sum # d /\ sum # Nobody /\ sum \notin User
        /\ Silent \notin EdgeId /\ Silent \in EdgeId \cup {Silent} /\ Nobody \in Sums \cup {Nobody}
    BY Constants0 DEF Sound, Leaving, Wired
  <1>3. dp \in DOMAIN G.node[d].ins
    BY <1>2, PortsOf DEF Shapes
  <1>4. /\ e \in EdgeId /\ G.edge[e].src = sum /\ Live(G, sum)
    <2>1. e # Silent /\ e = G.node[sum].outs[1] /\ Live(G, sum)
      BY <1>2 DEF Hosted
    <2> HIDE DEF e
    <2>2. 1 \in DOMAIN G.node[sum].outs
      BY <1>2, <2>1, SumsPort
    <2> DEFINE i == 1
    <2> HIDE DEF i
    <2>3. i \in DOMAIN G.node[sum].outs /\ G.node[sum].outs[i] = e /\ G.node[sum].outs[i] # Silent
      BY <2>1, <2>2 DEF i
    <2> QED
      BY <1>2, <2>1, <2>3, OwnedWritten, SMTT(60)
  <1>5. G.node[d].ins[dp] = e
    OBVIOUS
  <1> HIDE DEF e
  <1>6. /\ K \in Graph /\ InsAre(G, K, d, dp, Silent)
        /\ KeepsFan(G, K) /\ KeepsOuts(G, K) /\ KeepsLinks(G, K) /\ KeepsEdges(G, K) /\ KeepsRest(G, K)
        /\ K.watch = G.watch
    BY <1>2, <1>3, SetInIs
  <1> HIDE DEF K
  <1>7. dp \in DOMAIN K.node[d].fan
    BY <1>2, <1>6 DEF KeepsFan
  <1>8. /\ F \in Graph /\ FanIs(K, F, d, dp, Nobody)
        /\ KeepsIns(K, F) /\ KeepsOuts(K, F) /\ KeepsLinks(K, F) /\ KeepsEdges(K, F) /\ KeepsRest(K, F)
        /\ F.watch = K.watch
    BY <1>2, <1>6, <1>7, SetFanIs
  <1> HIDE DEF F
  <1>9. /\ InsAre(G, F, d, dp, Silent) /\ FanIs(G, F, d, dp, Nobody)
        /\ KeepsOuts(G, F) /\ KeepsLinks(G, F) /\ KeepsEdges(G, F) /\ KeepsRest(G, F)
    BY <1>6, <1>8 DEF InsAre, KeepsIns, FanIs, KeepsFan, KeepsOuts, KeepsLinks, KeepsEdges, KeepsRest
  <1>10. Wired(F)
    <2>1. Quieter(G, F) /\ KeepsWriters(G, F)
      BY <1>2, <1>3, <1>9, SilencingIsQuieter, OutsAreWriters
    <2> QED
      BY <1>2, <1>8, <1>9, <2>1, WiredQuieter DEF KeepsRest
  <1>11. /\ Wired(Q) /\ Silenced(G, Q, sum, d, dp)
         /\ KeepsIns(F, Q) /\ KeepsFan(F, Q) /\ KeepsOuts(F, Q) /\ KeepsEdges(F, Q) /\ KeepsRest(F, Q)
         /\ Q.watch = F.watch
    BY <1>2, <1>9, <1>10, UnlinkSilenced
  <1> HIDE DEF Q
  <1>12. \A f \in EdgeId : Q.edge[f].src = G.edge[f].src
    BY <1>9, <1>11 DEF KeepsEdges
  <1>13. Sound(Q)
    BY <1>2, <1>3, <1>4, <1>5, <1>11, <1>12, SilencedLeaving DEF Sound
  <1>14. Leaving(Q, sum)
    BY <1>2, <1>13, SoundLeaving
  <1>15. ~IsHosted(Q, sum)
    <2> SUFFICES ASSUME NEW x \in User, NEW q \in DOMAIN Q.node[x].fan, Q.node[x].fan[q] = sum PROVE FALSE
      BY DEF IsHosted
    <2>1. x \in Slot
      BY Constants0
    <2>2. q \in DOMAIN G.node[x].fan /\ sum = IF x = d /\ q = dp THEN Nobody ELSE G.node[x].fan[q]
      BY <1>11, <2>1 DEF Silenced, FanIs
    <2>3. ~(x = d /\ q = dp) /\ G.node[x].fan[q] = sum
      BY <1>2, <2>2
    <2> QED
      BY <1>2, <2>2, <2>3 DEF OneHost
  <1>16. Q.node[sum].ins = G.node[sum].ins /\ Q.node[sum].outs = G.node[sum].outs /\ DOMAIN Q.node[sum].fan = DOMAIN G.node[sum].fan
    <2>1. Q.node[sum].ins = G.node[sum].ins
      <3>1. F.node[sum].ins = G.node[sum].ins
        BY <1>2, <1>9 DEF InsAre
      <3> QED
        BY <1>2, <1>11, <3>1 DEF KeepsIns
    <2>2. Q.node[sum].outs = G.node[sum].outs
      BY <1>2, <1>9, <1>11 DEF KeepsOuts
    <2>3. DOMAIN Q.node[sum].fan = DOMAIN G.node[sum].fan
      <3>1. DOMAIN F.node[sum].fan = DOMAIN G.node[sum].fan
        BY <1>2, <1>9 DEF FanIs
      <3> QED
        BY <1>2, <1>11, <3>1 DEF KeepsFan
    <2> QED
      BY <2>1, <2>2, <2>3
  <1>17. Live(Q, sum) /\ DOMAIN Q.node[sum].ins \subseteq DOMAIN Q.node[sum].fan
    BY <1>4, <1>16 DEF Live
  <1>18. Sound(H) /\ Deletes(Q, H, sum)
    BY <1>2, <1>14, <1>15, <1>17, DeleteNodeSound
  <1> HIDE DEF H
  <1>19. H.watch = G.watch
    <2>1. Q.watch = G.watch /\ G.watch \in SUBSET User
      BY <1>2, <1>6, <1>8, <1>11 DEF Graph
    <2> QED
      BY <1>2, <1>18, <2>1 DEF Deletes
  <1> QED
    BY <1>1, <1>18, <1>19

\* A write of what is there already changes nothing.
LEMMA RecordsSame ==
  ASSUME NEW G \in Graph, NEW n \in Slot
  PROVE  /\ [G EXCEPT !.node = G.node] = G /\ [G.node EXCEPT ![n] = G.node[n]] = G.node
         /\ [G.node[n] EXCEPT !.outs = G.node[n].outs] = G.node[n]
         /\ [G.node[n] EXCEPT !.ins = G.node[n].ins] = G.node[n]
         /\ G.node = [x \in Slot |-> G.node[x]]
  <1>1. G.node \in [Slot -> Node] /\ G.node[n] \in Node
    BY DEF Graph
  <1>2. [G EXCEPT !.node = G.node] = G
    BY DEF Graph
  <1> QED
    BY <1>1, <1>2 DEF Node

LEMMA SetOutSame ==
  ASSUME NEW G \in Graph, NEW n \in Slot, NEW p \in DOMAIN G.node[n].outs, NEW e, G.node[n].outs[p] = e
  PROVE  SetOut(G, n, p, e) = G
  <1>1. [G.node[n].outs EXCEPT ![p] = e] = G.node[n].outs
    BY NodeOf, SMTT(60)
  <1>2. SetOut(G, n, p, e)
          = [G EXCEPT !.node = [G.node EXCEPT ![n] = [G.node[n] EXCEPT !.outs = [G.node[n].outs EXCEPT ![p] = e]]]]
    BY DEF SetOut
  <1> DEFINE q == [G.node[n].outs EXCEPT ![p] = e]
             r == [G.node[n] EXCEPT !.outs = q]
             N == [G.node EXCEPT ![n] = r]
  <1>3. q = G.node[n].outs
    BY <1>1
  <1>4. SetOut(G, n, p, e) = [G EXCEPT !.node = N]
    BY <1>2, Zenon
  <1> HIDE DEF q
  <1>5. r = G.node[n]
    BY <1>3, RecordsSame, Zenon
  <1> HIDE DEF r
  <1>6. N = G.node
    BY <1>5, RecordsSame, Zenon
  <1> HIDE DEF N
  <1> QED
    BY <1>4, <1>6, RecordsSame, Zenon

LEMMA SetInSame ==
  ASSUME NEW G \in Graph, NEW n \in Slot, NEW p \in DOMAIN G.node[n].ins, NEW e, G.node[n].ins[p] = e
  PROVE  SetIn(G, n, p, e) = G
  <1>1. [G.node[n].ins EXCEPT ![p] = e] = G.node[n].ins
    BY NodeOf, SMTT(60)
  <1>2. SetIn(G, n, p, e)
          = [G EXCEPT !.node = [G.node EXCEPT ![n] = [G.node[n] EXCEPT !.ins = [G.node[n].ins EXCEPT ![p] = e]]]]
    BY DEF SetIn
  <1> DEFINE q == [G.node[n].ins EXCEPT ![p] = e]
             r == [G.node[n] EXCEPT !.ins = q]
             N == [G.node EXCEPT ![n] = r]
  <1>3. q = G.node[n].ins
    BY <1>1
  <1>4. SetIn(G, n, p, e) = [G EXCEPT !.node = N]
    BY <1>2, Zenon
  <1> HIDE DEF q
  <1>5. r = G.node[n]
    BY <1>3, RecordsSame, Zenon
  <1> HIDE DEF r
  <1>6. N = G.node
    BY <1>5, RecordsSame, Zenon
  <1> HIDE DEF N
  <1> QED
    BY <1>4, <1>6, RecordsSame, Zenon

\* Where every edge that is read is written by the port it is noted under, there is nothing to repoint.
LEMMA RepointedSame ==
  ASSUME NEW G, Wired(G), NEW sum \in Slot
  PROVE  Repointed(G, sum) = G
  <1> DEFINE E(n, p) == {e \in ToSet(G.node[sum].ins) \ {Silent} :
                           G.edge[e].used /\ G.edge[e].src = n /\ G.edge[e].port = p}
             Outs(n) == [p \in DOMAIN G.node[n].outs |-> IF E(n, p) = {} \/ n = sum THEN G.node[n].outs[p]
                                                         ELSE CHOOSE e \in E(n, p) : TRUE]
  <1>1. G \in Graph /\ Fed(G)
    BY DEF Wired
  <1>2. Repointed(G, sum) = [G EXCEPT !.node = [n \in Slot |-> [G.node[n] EXCEPT !.outs = Outs(n)]]]
    BY DEF Repointed
  <1>3. ASSUME NEW n \in Slot, NEW p \in DOMAIN G.node[n].outs, NEW e \in E(n, p)
        PROVE  e = G.node[n].outs[p]
    <2>1. PICK i \in DOMAIN G.node[sum].ins : G.node[sum].ins[i] = e
      BY DEF ToSet
    <2>2. e \in EdgeId /\ G.edge[e].src = n /\ G.edge[e].port = p
      BY <1>1, <2>1, PortsOf
    <2> QED
      BY <1>1, <2>1, <2>2 DEF Fed, Written
  <1> HIDE DEF E
  <1>4. ASSUME NEW n \in Slot PROVE Outs(n) = G.node[n].outs
    <2>1. ASSUME NEW p \in DOMAIN G.node[n].outs
          PROVE  (IF E(n, p) = {} \/ n = sum THEN G.node[n].outs[p] ELSE CHOOSE e \in E(n, p) : TRUE) = G.node[n].outs[p]
      BY <1>3
    <2>2. G.node[n].outs = [p \in DOMAIN G.node[n].outs |-> G.node[n].outs[p]]
      BY <1>1, NodeOf
    <2> QED
      BY <2>1, <2>2
  <1> HIDE DEF Outs
  <1>5. ASSUME NEW n \in Slot PROVE [G.node[n] EXCEPT !.outs = Outs(n)] = G.node[n]
    <2>1. Outs(n) = G.node[n].outs
      BY <1>4
    <2>2. [G.node[n] EXCEPT !.outs = G.node[n].outs] = G.node[n]
      BY <1>1, RecordsSame
    <2> QED
      BY <2>1, <2>2, Zenon
  <1>6. [n \in Slot |-> [G.node[n] EXCEPT !.outs = Outs(n)]] = [n \in Slot |-> G.node[n]]
    BY <1>5
  <1> QED
    BY <1>1, <1>2, <1>6, RecordsSame
-----------------------------------------------------------------------------
(* A SUM with one source left collapses.                                    *)

\* A SUM with one source left goes: its reader hears the source itself.
Rejoined(G, H, s, d, sum) ==
    \A x \in Slot : /\ H.node[x].succ = IF x = s THEN (G.node[x].succ \cup {d}) \ {sum} ELSE G.node[x].succ
                    /\ H.node[x].indeg = IF x = d /\ d \in G.node[s].succ
                                         THEN Floor(G.node[x].indeg - 1) ELSE G.node[x].indeg

LEMMA NewSuccIs ==
  ASSUME NEW G \in Graph, NEW n \in Slot, NEW q \in SUBSET Slot
  PROVE  LET H == [G EXCEPT !.node = [G.node EXCEPT ![n] = [G.node[n] EXCEPT !.succ = q]]]
         IN  /\ H \in Graph
             /\ \A x \in Slot : /\ H.node[x].succ = IF x = n THEN q ELSE G.node[x].succ
                                /\ H.node[x].indeg = G.node[x].indeg
             /\ KeepsIns(G, H) /\ KeepsFan(G, H) /\ KeepsOuts(G, H) /\ KeepsEdges(G, H) /\ KeepsRest(G, H)
             /\ H.watch = G.watch
  <1> DEFINE r == [G.node[n] EXCEPT !.succ = q]
             H == [G EXCEPT !.node = [G.node EXCEPT ![n] = r]]
  <1>1. /\ r \in Node /\ r.ins = G.node[n].ins /\ r.fan = G.node[n].fan /\ r.outs = G.node[n].outs
        /\ r.succ = q /\ r.indeg = G.node[n].indeg
    BY NodeOf, NodeWithSucc
  <1> HIDE DEF r
  <1>2. /\ H \in Graph /\ \A x \in Slot : H.node[x] = IF x = n THEN r ELSE G.node[x]
        /\ KeepsEdges(G, H) /\ KeepsRest(G, H) /\ H.watch = G.watch
    BY <1>1, NodeChanged
  <1> HIDE DEF H
  <1>3. KeepsIns(G, H) /\ KeepsFan(G, H) /\ KeepsOuts(G, H)
    BY <1>1, <1>2 DEF KeepsIns, KeepsFan, KeepsOuts
  <1>4. \A x \in Slot : H.node[x].succ = (IF x = n THEN q ELSE G.node[x].succ) /\ H.node[x].indeg = G.node[x].indeg
    BY <1>1, <1>2
  <1> QED
    BY <1>2, <1>3, <1>4 DEF H, r

LEMMA NewIndegIs ==
  ASSUME NEW G \in Graph, NEW n \in Slot, NEW q \in Nat
  PROVE  LET H == [G EXCEPT !.node = [G.node EXCEPT ![n] = [G.node[n] EXCEPT !.indeg = q]]]
         IN  /\ H \in Graph
             /\ \A x \in Slot : /\ H.node[x].indeg = IF x = n THEN q ELSE G.node[x].indeg
                                /\ H.node[x].succ = G.node[x].succ
             /\ KeepsIns(G, H) /\ KeepsFan(G, H) /\ KeepsOuts(G, H) /\ KeepsEdges(G, H) /\ KeepsRest(G, H)
             /\ H.watch = G.watch
  <1> DEFINE r == [G.node[n] EXCEPT !.indeg = q]
             H == [G EXCEPT !.node = [G.node EXCEPT ![n] = r]]
  <1>1. /\ r \in Node /\ r.ins = G.node[n].ins /\ r.fan = G.node[n].fan /\ r.outs = G.node[n].outs
        /\ r.succ = G.node[n].succ /\ r.indeg = q
    BY NodeOf, NodeWithIndeg
  <1> HIDE DEF r
  <1>2. /\ H \in Graph /\ \A x \in Slot : H.node[x] = IF x = n THEN r ELSE G.node[x]
        /\ KeepsEdges(G, H) /\ KeepsRest(G, H) /\ H.watch = G.watch
    BY <1>1, NodeChanged
  <1> HIDE DEF H
  <1>3. KeepsIns(G, H) /\ KeepsFan(G, H) /\ KeepsOuts(G, H)
    BY <1>1, <1>2 DEF KeepsIns, KeepsFan, KeepsOuts
  <1>4. \A x \in Slot : H.node[x].indeg = (IF x = n THEN q ELSE G.node[x].indeg) /\ H.node[x].succ = G.node[x].succ
    BY <1>1, <1>2
  <1> QED
    BY <1>2, <1>3, <1>4 DEF H, r

LEMMA RejoinIs ==
  ASSUME NEW G \in Graph, NEW s \in Slot, NEW d \in Slot, NEW sum \in Slot
  PROVE  LET H == [Rejoin(G, s, d) EXCEPT !.node[s].succ = @ \ {sum}]
         IN  /\ H \in Graph /\ Rejoined(G, H, s, d, sum)
             /\ KeepsIns(G, H) /\ KeepsFan(G, H) /\ KeepsOuts(G, H) /\ KeepsEdges(G, H) /\ KeepsRest(G, H)
             /\ H.watch = G.watch
  <1> DEFINE J == Rejoin(G, s, d)
             q == J.node[s].succ \ {sum}
             H == [J EXCEPT !.node = [J.node EXCEPT ![s] = [J.node[s] EXCEPT !.succ = q]]]
  <1>1. [Rejoin(G, s, d) EXCEPT !.node[s].succ = @ \ {sum}] = H
    OBVIOUS
  <1>2. /\ J \in Graph
        /\ \A x \in Slot : /\ J.node[x].succ = IF x = s THEN G.node[x].succ \cup {d} ELSE G.node[x].succ
                           /\ J.node[x].indeg = IF x = d /\ d \in G.node[s].succ
                                                THEN Floor(G.node[x].indeg - 1) ELSE G.node[x].indeg
        /\ KeepsIns(G, J) /\ KeepsFan(G, J) /\ KeepsOuts(G, J) /\ KeepsEdges(G, J) /\ KeepsRest(G, J)
        /\ J.watch = G.watch
    <2>1. CASE d \notin G.node[s].succ
      <3> DEFINE k == G.node[s].succ \cup {d}
      <3>1. k \in SUBSET Slot
        BY NodeOf
      <3> DEFINE K == [G EXCEPT !.node = [G.node EXCEPT ![s] = [G.node[s] EXCEPT !.succ = k]]]
      <3>2. J = K
        BY <2>1 DEF Rejoin
      <3> HIDE DEF k, J
      <3>3. /\ K \in Graph
            /\ \A x \in Slot : K.node[x].succ = (IF x = s THEN k ELSE G.node[x].succ) /\ K.node[x].indeg = G.node[x].indeg
            /\ KeepsIns(G, K) /\ KeepsFan(G, K) /\ KeepsOuts(G, K) /\ KeepsEdges(G, K) /\ KeepsRest(G, K)
            /\ K.watch = G.watch
        BY <3>1, NewSuccIs, ZenonT(60)
      <3> HIDE DEF K
      <3> QED
        BY <2>1, <3>2, <3>3 DEF k
    <2>2. CASE d \in G.node[s].succ
      <3> DEFINE k == Floor(G.node[d].indeg - 1)
      <3>1. k \in Nat
        BY NodeOf, FloorIs
      <3>2. J = [G EXCEPT !.node = [G.node EXCEPT ![d] = [G.node[d] EXCEPT !.indeg = k]]]
        BY <2>2 DEF Rejoin
      <3> HIDE DEF k, J
      <3>3. /\ J \in Graph
            /\ \A x \in Slot : J.node[x].indeg = (IF x = d THEN k ELSE G.node[x].indeg) /\ J.node[x].succ = G.node[x].succ
            /\ KeepsIns(G, J) /\ KeepsFan(G, J) /\ KeepsOuts(G, J) /\ KeepsEdges(G, J) /\ KeepsRest(G, J)
            /\ J.watch = G.watch
        BY <3>1, <3>2, NewIndegIs
      <3>4. G.node[s].succ \cup {d} = G.node[s].succ
        BY <2>2
      <3> QED
        BY <2>2, <3>3, <3>4 DEF k
    <2> QED
      BY <2>1, <2>2
  <1> HIDE DEF J
  <1>3. q \in SUBSET Slot
    BY <1>2, NodeOf
  <1> HIDE DEF q
  <1>4. /\ H \in Graph
        /\ \A x \in Slot : H.node[x].succ = (IF x = s THEN q ELSE J.node[x].succ) /\ H.node[x].indeg = J.node[x].indeg
        /\ KeepsIns(J, H) /\ KeepsFan(J, H) /\ KeepsOuts(J, H) /\ KeepsEdges(J, H) /\ KeepsRest(J, H)
        /\ H.watch = J.watch
    BY <1>2, <1>3, NewSuccIs
  <1> HIDE DEF H
  <1>5. Rejoined(G, H, s, d, sum)
    <2>1. \A x \in Slot : H.node[x].succ = IF x = s THEN (G.node[x].succ \cup {d}) \ {sum} ELSE G.node[x].succ
      BY <1>2, <1>4 DEF q
    <2>2. \A x \in Slot : H.node[x].indeg = IF x = d /\ d \in G.node[s].succ
                                            THEN Floor(G.node[x].indeg - 1) ELSE G.node[x].indeg
      BY <1>2, <1>4
    <2> QED
      BY <2>1, <2>2 DEF Rejoined
  <1>6. KeepsIns(G, H) /\ KeepsFan(G, H) /\ KeepsOuts(G, H) /\ KeepsEdges(G, H) /\ KeepsRest(G, H) /\ H.watch = G.watch
    BY <1>2, <1>4 DEF KeepsIns, KeepsFan, KeepsOuts, KeepsEdges, KeepsRest
  <1> QED
    BY <1>1, <1>4, <1>5, <1>6
\* The SUM before d.dp has one input left, which reads the edge f of s.
LastSource(G, f, s, d, dp, sum) ==
    /\ Sound(G) /\ d \in User /\ sum \in Sums /\ dp \in DOMAIN G.node[d].ins /\ dp \in DOMAIN G.node[d].fan
    /\ G.node[d].fan[dp] = sum
    /\ DOMAIN G.node[sum].ins = {1} /\ f \in EdgeId /\ G.node[sum].ins[1] = f /\ G.edge[f].src = s
Collapsed(G, H, f, s, d, dp, sum) ==
    /\ InsAre(G, H, d, dp, f) /\ RefIs(G, H, f, G.edge[f].ref + 1) /\ FanIs(G, H, d, dp, Nobody)
    /\ Rejoined(G, H, s, d, sum) /\ KeepsOuts(G, H) /\ H.free = G.free /\ KeepsRest(G, H)

LEMMA LastSourceIs ==
  ASSUME NEW G, NEW f, NEW s, NEW d, NEW dp, NEW sum, LastSource(G, f, s, d, dp, sum)
  PROVE  /\ Wired(G) /\ Unborn(G) /\ Shapes(G) /\ Hosted(G) /\ OneHost(G) /\ ForHosts(G) /\ Acyclic(G)
         /\ Covered(G, Nobody) /\ \A x \in Kept(G) : Exact(G, Nobody, x)
         /\ G \in Graph /\ d \in Slot /\ sum \in Slot /\ s \in User /\ s \in Slot
         /\ s # d /\ s # sum /\ sum # d /\ sum # Nobody
         /\ Written(G, f) /\ s \in Sources(G, sum) /\ Live(G, sum) /\ sum \in Sources(G, d)
         /\ \A p \in DOMAIN G.node[d].ins : \A e \in EdgeId :
               G.node[d].ins[p] = e => (G.edge[e].src = sum <=> p = dp)
  <1>1. /\ Wired(G) /\ Unborn(G) /\ Shapes(G) /\ Hosted(G) /\ OneHost(G) /\ ForHosts(G) /\ Acyclic(G)
        /\ Covered(G, Nobody) /\ \A x \in Kept(G) : Exact(G, Nobody, x)
    BY DEF LastSource, Sound, Leaving
  <1>2. /\ G \in Graph /\ d \in User /\ d \in Slot /\ sum \in Slot /\ sum \in Sums /\ sum # d /\ sum # Nobody
        /\ Nobody \notin Sums /\ f \in EdgeId
        /\ dp \in DOMAIN G.node[d].ins /\ dp \in DOMAIN G.node[d].fan /\ G.node[d].fan[dp] = sum
    BY <1>1, Constants0 DEF LastSource, Wired
  <1> DEFINE i == 1
  <1>3. i \in DOMAIN G.node[sum].ins /\ G.node[sum].ins[i] = f /\ G.edge[f].src = s
    BY DEF LastSource
  <1> HIDE DEF i
  <1>4. Written(G, f) /\ s \in Slot /\ s \in Sources(G, sum)
    BY <1>1, <1>2, <1>3, FeederIs
  <1>5. Live(G, sum) /\ d \notin Sources(G, sum) /\ G.node[d].ins[dp] # Silent /\ G.node[d].ins[dp] = G.node[sum].outs[1]
    BY <1>1, <1>2 DEF Hosted
  <1>6. s # d /\ s # sum
    BY <1>1, <1>2, <1>4, <1>5, NoLoop
  <1>7. s \in User
    <2> SUFFICES ASSUME s \in Sums PROVE FALSE
      BY <1>4 DEF Slot
    <2>1. i \in DOMAIN G.node[sum].fan /\ G.node[sum].fan[i] = s
      BY <1>1, <1>2, <1>3 DEF ForHosts
    <2> QED
      BY <1>1, <1>2, <2>1 DEF Shapes
  <1>8. ASSUME NEW e \in EdgeId, G.node[d].ins[dp] = e PROVE G.edge[e].src = sum
    <2>1. 1 \in DOMAIN G.node[sum].outs
      BY <1>1, <1>2, <1>5, SumsPort
    <2>2. i \in DOMAIN G.node[sum].outs /\ G.node[sum].outs[i] = e
      BY <1>5, <1>8, <2>1 DEF i
    <2> QED
      BY <1>1, <1>2, <2>2, WriterIs
  <1>9. ASSUME NEW p \in DOMAIN G.node[d].ins, NEW e \in EdgeId, G.node[d].ins[p] = e, G.edge[e].src = sum
        PROVE  p = dp
    <2>1. p \in DOMAIN G.node[d].fan /\ G.node[d].fan[p] = sum
      BY <1>1, <1>2, <1>9 DEF ForHosts
    <2> QED
      BY <1>1, <1>2, <2>1 DEF OneHost
  <1>10. sum \in Sources(G, d)
    <2>1. G.node[d].ins[dp] \in EdgeId
      BY <1>2, <1>5, PortsOf
    <2> QED
      BY <1>2, <1>8, <2>1, SourcesAre
  <1> QED
    BY <1>1, <1>2, <1>4, <1>5, <1>6, <1>7, <1>8, <1>9, <1>10

LEMMA CollapsedSources ==
  ASSUME NEW G, NEW f, NEW s, NEW d, NEW dp, NEW sum, LastSource(G, f, s, d, dp, sum),
         NEW H \in Graph, Collapsed(G, H, f, s, d, dp, sum)
  PROVE  \A x \in Slot : Sources(H, x) = IF x = d THEN (Sources(G, d) \ {sum}) \cup {s} ELSE Sources(G, x)
  <1>1. /\ G \in Graph /\ d \in Slot /\ s \in Slot /\ sum # Nobody /\ s # sum /\ Nobody \notin Slot
        /\ \A p \in DOMAIN G.node[d].ins : \A e \in EdgeId : G.node[d].ins[p] = e => (G.edge[e].src = sum <=> p = dp)
    BY LastSourceIs, Constants0
  <1>2. f \in EdgeId /\ G.edge[f].src = s /\ dp \in DOMAIN G.node[d].ins /\ f \in EdgeId \cup {Silent}
    BY DEF LastSource
  <1>3. InsAre(G, H, d, dp, f) /\ \A e \in EdgeId : H.edge[e].src = G.edge[e].src
    BY DEF Collapsed, RefIs
  <1>4. \A x \in Slot : /\ DOMAIN H.node[x].ins = DOMAIN G.node[x].ins
                        /\ \A q \in DOMAIN G.node[x].ins :
                              H.node[x].ins[q] = IF x = d /\ q = dp THEN f ELSE G.node[x].ins[q]
    BY <1>1, <1>2, <1>3, InsAreAt
  <1>5. ASSUME NEW x \in Slot, x # d PROVE Sources(H, x) = Sources(G, x)
    <2>1. H.node[x].ins = G.node[x].ins
      BY <1>3, <1>5 DEF InsAre
    <2>2. \A t : t \in Sources(H, x) <=> t \in Sources(G, x)
      BY <1>1, <1>3, <2>1, SourcesAre
    <2> QED
      BY <2>2
  <1>6. ASSUME NEW t \in Sources(H, d) PROVE t \in (Sources(G, d) \ {sum}) \cup {s}
    <2>1. PICK p \in DOMAIN H.node[d].ins, e \in EdgeId : H.node[d].ins[p] = e /\ H.edge[e].src = t
      BY <1>1, SourcesAre
    <2>2. t # Nobody /\ G.edge[e].src = t
      BY <1>1, <1>3, <2>1, SourcesAre
    <2>3. p \in DOMAIN G.node[d].ins /\ e = IF p = dp THEN f ELSE G.node[d].ins[p]
      BY <1>1, <1>4, <2>1
    <2>4. CASE p = dp
      BY <1>2, <2>2, <2>3, <2>4
    <2>5. CASE p # dp
      <3>1. t \in Sources(G, d)
        BY <1>1, <2>2, <2>3, <2>5, SourcesAre
      <3> QED
        BY <1>1, <2>2, <2>3, <2>5, <3>1
    <2> QED
      BY <2>4, <2>5
  <1>7. s \in Sources(H, d)
    BY <1>1, <1>2, <1>3, <1>4, SourcesAre
  <1>8. ASSUME NEW t \in Sources(G, d) \ {sum} PROVE t \in Sources(H, d)
    <2>1. PICK p \in DOMAIN G.node[d].ins, e \in EdgeId : G.node[d].ins[p] = e /\ G.edge[e].src = t
      BY <1>1, SourcesAre
    <2>2. t # Nobody /\ p # dp
      BY <1>1, <2>1, SourcesAre
    <2>3. p \in DOMAIN H.node[d].ins /\ H.node[d].ins[p] = e /\ H.edge[e].src = t
      BY <1>1, <1>3, <1>4, <2>1, <2>2
    <2> QED
      BY <1>1, <2>2, <2>3, SourcesAre
  <1>9. Sources(H, d) = (Sources(G, d) \ {sum}) \cup {s}
    BY <1>6, <1>7, <1>8
  <1> QED
    BY <1>5, <1>9

LEMMA CollapsedLinks ==
  ASSUME NEW G, NEW f, NEW s, NEW d, NEW dp, NEW sum, LastSource(G, f, s, d, dp, sum),
         NEW H \in Graph, Collapsed(G, H, f, s, d, dp, sum)
  PROVE  /\ Covered(H, sum)
         /\ \A x \in Kept(G) \ {sum} : Exact(H, sum, x)
  <1>1. \A x \in Slot : Sources(H, x) = IF x = d THEN (Sources(G, d) \ {sum}) \cup {s} ELSE Sources(G, x)
    BY CollapsedSources
  <1>2. /\ G \in Graph /\ d \in Slot /\ s \in Slot /\ s # sum /\ s # d /\ sum # d /\ sum \in Sources(G, d)
        /\ Covered(G, Nobody) /\ (\A x \in Kept(G) : Exact(G, Nobody, x)) /\ Nobody \notin Slot /\ Kept(G) \subseteq Slot
    <2>1. Kept(G) \subseteq Slot /\ Nobody \notin Slot
      BY Constants0 DEF Kept
    <2> QED
      BY <2>1, LastSourceIs
  <1>3. Rejoined(G, H, s, d, sum)
    BY DEF Collapsed
  <1>4. Covered(H, sum)
    <2> SUFFICES ASSUME NEW x \in Slot \ {sum}, NEW t \in Sources(H, x) PROVE x \in H.node[t].succ
      BY DEF Covered
    <2>1. t \in Slot
      BY SourcesInSlot
    <2>2. t \in Sources(G, x) \/ (x = d /\ t = s)
      BY <1>1
    <2>3. x \in G.node[t].succ \/ (x = d /\ t = s)
      BY <1>2, <2>2 DEF Covered
    <2>4. H.node[t].succ = IF t = s THEN (G.node[t].succ \cup {d}) \ {sum} ELSE G.node[t].succ
      BY <1>3, <2>1 DEF Rejoined
    <2> QED
      BY <2>3, <2>4
  <1>5. ASSUME NEW x \in Kept(G), x # sum PROVE Exact(H, sum, x)
    <2>1. x \in Slot /\ Exact(G, Nobody, x)
      BY <1>2
    <2>2. /\ Preds(G, x) = Sources(G, x) /\ G.node[x].indeg = Cardinality(Sources(G, x))
          /\ IsFiniteSet(Sources(G, x)) /\ Cardinality(Sources(G, x)) \in Nat
      <3>1. Preds(G, x) \ {Nobody} = Sources(G, x) \ {Nobody} /\ G.node[x].indeg = Cardinality(Sources(G, x))
        BY <2>1 DEF Exact
      <3>2. Nobody \notin Preds(G, x) /\ Nobody \notin Sources(G, x)
        BY <1>2, <2>1, SourcesInSlot DEF Preds
      <3> QED
        BY <1>2, <2>1, <3>1, <3>2, SourcesInSlot
    <2>3. CASE x # d
      <3>1. Preds(H, x) = Preds(G, x)
        BY <1>3, <1>5, <2>1, <2>3 DEF Preds, Rejoined
      <3>2. H.node[x].indeg = G.node[x].indeg
        BY <1>3, <2>1, <2>3 DEF Rejoined
      <3>3. Sources(H, x) = Sources(G, x)
        BY <1>1, <2>1, <2>3
      <3> QED
        BY <2>2, <3>1, <3>2, <3>3 DEF Exact
    <2>4. CASE x = d
      <3>1. Preds(H, d) = Preds(G, d) \cup {s}
        BY <1>2, <1>3 DEF Preds, Rejoined
      <3>2. Sources(H, d) = (Sources(G, d) \ {sum}) \cup {s}
        BY <1>1, <1>2
      <3>3. Preds(H, d) \ {sum} = Sources(H, d) \ {sum}
        BY <1>2, <2>2, <2>4, <3>1, <3>2
      <3>4. Cardinality(Sources(G, d) \ {sum}) = Cardinality(Sources(G, d)) - 1 /\ IsFiniteSet(Sources(G, d) \ {sum})
            /\ Cardinality(Sources(G, d) \ {sum}) \in Nat
        BY <1>2, <2>2, <2>4, FS_RemoveElement, FS_CardinalityType
      <3>5. s \in Preds(G, d) <=> d \in G.node[s].succ
        BY <1>2 DEF Preds
      <3>6. CASE d \in G.node[s].succ
        <4>1. Sources(H, d) = Sources(G, d) \ {sum}
          BY <1>2, <2>2, <2>4, <3>2, <3>5, <3>6
        <4>2. H.node[d].indeg = Floor(G.node[d].indeg - 1)
          BY <1>2, <1>3, <3>6 DEF Rejoined
        <4>3. H.node[d].indeg = Cardinality(Sources(H, d))
          BY <2>2, <2>4, <3>4, <4>1, <4>2 DEF Floor
        <4> QED
          BY <2>4, <3>3, <4>3 DEF Exact
      <3>7. CASE d \notin G.node[s].succ
        <4>1. s \notin Sources(G, d) \ {sum}
          BY <2>2, <2>4, <3>5, <3>7
        <4>2. Cardinality(Sources(H, d)) = Cardinality(Sources(G, d) \ {sum}) + 1
          BY <3>2, <3>4, <4>1, FS_AddElement
        <4>3. H.node[d].indeg = G.node[d].indeg
          BY <1>2, <1>3, <3>7 DEF Rejoined
        <4>4. H.node[d].indeg = Cardinality(Sources(H, d))
          BY <2>2, <2>4, <3>4, <4>2, <4>3
        <4> QED
          BY <2>4, <3>3, <4>4 DEF Exact
      <3> QED
        BY <3>6, <3>7
    <2> QED
      BY <2>3, <2>4
  <1> QED
    BY <1>4, <1>5
LEMMA CollapsedLeaving ==
  ASSUME NEW G, NEW f, NEW s, NEW d, NEW dp, NEW sum, LastSource(G, f, s, d, dp, sum),
         NEW H, Wired(H), Collapsed(G, H, f, s, d, dp, sum)
  PROVE  /\ Leaving(H, sum) /\ ~IsHosted(H, sum) /\ Live(H, sum)
         /\ DOMAIN H.node[sum].ins \subseteq DOMAIN H.node[sum].fan
  <1>1. /\ Wired(G) /\ Unborn(G) /\ Shapes(G) /\ Hosted(G) /\ OneHost(G) /\ ForHosts(G) /\ Acyclic(G)
        /\ G \in Graph /\ d \in Slot /\ sum \in Slot /\ s \in User /\ s \in Slot
        /\ s # d /\ s # sum /\ sum # d /\ Written(G, f) /\ Live(G, sum)
    BY LastSourceIs
  <1>2. /\ d \in User /\ sum \in Sums /\ f \in EdgeId /\ f \in EdgeId \cup {Silent} /\ G.edge[f].src = s
        /\ dp \in DOMAIN G.node[d].ins /\ dp \in DOMAIN G.node[d].fan /\ G.node[d].fan[dp] = sum
        /\ Nobody \notin Sums /\ User \cap Sums = {} /\ User \subseteq Slot /\ Sums \subseteq Slot
    BY Constants0 DEF LastSource
  <1>3. H \in Graph
    BY DEF Wired
  <1>4. \A x \in Slot : Sources(H, x) = IF x = d THEN (Sources(G, d) \ {sum}) \cup {s} ELSE Sources(G, x)
    BY <1>3, CollapsedSources
  <1>5. Covered(H, sum) /\ \A x \in Kept(G) \ {sum} : Exact(H, sum, x)
    BY <1>3, CollapsedLinks
  <1>6. /\ InsAre(G, H, d, dp, f) /\ FanIs(G, H, d, dp, Nobody) /\ Rejoined(G, H, s, d, sum)
        /\ KeepsOuts(G, H) /\ KeepsRest(G, H) /\ \A e \in EdgeId : H.edge[e].src = G.edge[e].src
    BY DEF Collapsed, RefIs
  <1>7. \A x \in Slot : /\ DOMAIN H.node[x].ins = DOMAIN G.node[x].ins /\ Len(H.node[x].ins) = Len(G.node[x].ins)
                        /\ \A q \in DOMAIN G.node[x].ins :
                              H.node[x].ins[q] = IF x = d /\ q = dp THEN f ELSE G.node[x].ins[q]
    BY <1>1, <1>2, <1>6, InsAreAt
  <1>8. Alike(G, H)
    <2>1. /\ \A x \in Slot : Len(H.node[x].fan) = Len(G.node[x].fan)
          /\ \A x \in Sums : H.node[x].fan = G.node[x].fan
      BY <1>1, <1>3, <1>6, FanIsAlike
    <2> QED
      BY <1>6, <1>7, <2>1 DEF Alike, KeepsOuts
  <1>9. s \in Given(G) /\ d \in Given(G)
    <2>1. G.edge[f].port \in DOMAIN G.node[s].outs
      BY <1>1, <1>2 DEF Written
    <2> QED
      BY <1>1, <1>2, <2>1, GivenIs
  <1>10. Unborn(H)
    <2>1. ASSUME NEW x \in Slot \ Given(G)
          PROVE  /\ H.node[x].succ = {} /\ H.node[x].indeg = 0 /\ \A t \in Slot : x \notin H.node[t].succ
      <3>1. /\ G.node[x].succ = {} /\ G.node[x].indeg = 0 /\ x # s /\ x # d
            /\ \A t \in Slot : x \notin G.node[t].succ
        BY <1>1, <1>9 DEF Unborn
      <3> QED
        BY <1>6, <3>1 DEF Rejoined
    <2> QED
      BY <1>1, <1>3, <1>8, <2>1, UnbornKept
  <1>11. Shapes(H)
    BY <1>1, <1>3, <1>8, AlikeShapes
  <1>12. FanFewer(G, H)
    BY <1>6, FanIsFewer
  <1>13. Hosted(H)
    <2>1. ASSUME NEW x \in User, NEW t \in Sums, NEW q \in DOMAIN H.node[x].fan, H.node[x].fan[q] = t
          PROVE  /\ H.node[x].ins[q] = G.node[x].ins[q] /\ H.node[t].outs[1] = G.node[t].outs[1]
                 /\ x \notin Sources(G, t) => x \notin Sources(H, t)
      <3>1. x \in Slot /\ t \in Slot /\ t # d
        BY <1>2
      <3>2. q \in DOMAIN G.node[x].fan /\ ~(x = d /\ q = dp)
        BY <1>2, <1>6, <2>1, <3>1 DEF FanIs
      <3>3. q \in DOMAIN G.node[x].ins
        BY <1>1, <3>1, <3>2, PortsOf DEF Shapes
      <3>4. H.node[x].ins[q] = G.node[x].ins[q]
        BY <1>7, <3>1, <3>2, <3>3
      <3>5. H.node[t].outs = G.node[t].outs
        BY <1>6, <3>1 DEF KeepsOuts
      <3>6. Sources(H, t) = Sources(G, t)
        BY <1>4, <3>1
      <3> QED
        BY <3>4, <3>5, <3>6
    <2> QED
      BY <1>1, <1>3, <1>8, <1>12, <2>1, HostedKept
  <1>14. OneHost(H)
    BY <1>1, <1>12, OneHostKept
  <1>15. ForHosts(H)
    <2> SUFFICES ASSUME NEW x \in Slot, NEW q \in DOMAIN H.node[x].ins, NEW e \in EdgeId, H.node[x].ins[q] = e,
                        H.edge[e].src \in Sums
                 PROVE  q \in DOMAIN H.node[x].fan /\ H.node[x].fan[q] = H.edge[e].src
      BY DEF ForHosts
    <2>1. H.edge[e].src = G.edge[e].src
      BY <1>6
    <2>2. q \in DOMAIN G.node[x].ins /\ e = IF x = d /\ q = dp THEN f ELSE G.node[x].ins[q]
      BY <1>7
    <2>3. ~(x = d /\ q = dp)
      BY <1>1, <1>2, <2>1, <2>2
    <2>4. q \in DOMAIN G.node[x].fan /\ G.node[x].fan[q] = G.edge[e].src
      BY <1>1, <2>1, <2>2, <2>3, Zenon DEF ForHosts
    <2> QED
      BY <1>6, <2>1, <2>3, <2>4 DEF FanIs
  <1>16. Acyclic(H)
    <2>1. s \in Sources(G, sum) /\ sum \in Sources(G, d)
      BY LastSourceIs
    <2> SUFFICES ASSUME NEW X \in SUBSET Slot, X # {} PROVE \E n \in X : Sources(H, n) \cap X = {}
      BY DEF Acyclic
    <2>2. CASE d \in X /\ s \in X
      <3>1. X \cup {sum} \in SUBSET Slot /\ X \cup {sum} # {}
        BY <1>1
      <3>2. PICK n \in X \cup {sum} : Sources(G, n) \cap (X \cup {sum}) = {}
        BY <1>1, <3>1 DEF Acyclic
      <3>3. n # sum /\ n # d
        BY <2>1, <2>2, <3>2
      <3> QED
        BY <1>4, <3>2, <3>3
    <2>3. CASE ~(d \in X /\ s \in X)
      <3>1. PICK n \in X : Sources(G, n) \cap X = {}
        BY <1>1 DEF Acyclic
      <3> QED
        BY <1>4, <2>3, <3>1
    <2> QED
      BY <2>2, <2>3
  <1>17. ~IsHosted(H, sum)
    <2> SUFFICES ASSUME NEW x \in User, NEW q \in DOMAIN H.node[x].fan, H.node[x].fan[q] = sum PROVE FALSE
      BY DEF IsHosted
    <2>1. q \in DOMAIN G.node[x].fan /\ G.node[x].fan[q] = sum /\ ~(x = d /\ q = dp)
      <3>1. x \in Slot
        BY <1>2
      <3>2. q \in DOMAIN G.node[x].fan /\ sum = IF x = d /\ q = dp THEN Nobody ELSE G.node[x].fan[q]
        BY <1>6, <3>1 DEF FanIs
      <3> QED
        BY <1>2, <3>2
    <2> QED
      BY <1>1, <1>2, <2>1 DEF OneHost
  <1>18. \A x \in Kept(H) : Exact(H, sum, x)
    <2>1. Kept(H) \subseteq Kept(G)
      BY <1>12, KeptFewer
    <2>2. sum \notin Kept(H)
      BY <1>2, <1>17 DEF Kept
    <2> QED
      BY <1>5, <2>1, <2>2
  <1>19. Leaving(H, sum)
    BY <1>5, <1>10, <1>11, <1>13, <1>14, <1>15, <1>16, <1>18 DEF Leaving
  <1>20. Live(H, sum)
    BY <1>1, <1>3, <1>8, AlikeDomains
  <1>21. DOMAIN H.node[sum].ins \subseteq DOMAIN H.node[sum].fan
    <2>1. DOMAIN H.node[sum].ins = {1}
      <3>1. DOMAIN G.node[sum].ins = {1}
        BY DEF LastSource
      <3> QED
        BY <1>1, <1>7, <3>1
    <2>2. DOMAIN H.node[sum].fan = 1..2
      <3>1. Len(H.node[sum].fan) = 2
        BY <1>2, <1>11, <1>20 DEF Shapes
      <3> QED
        BY <1>1, <1>3, <3>1, PortsOf
    <2> QED
      BY <2>1, <2>2
  <1> QED
    BY <1>17, <1>19, <1>20, <1>21
\* The graph once the SUM is out of the way of d.dp, before it is deleted.
Bridged(G, f, s, d, dp) == SetFan(SetIn([G EXCEPT !.edge = [G.edge EXCEPT ![f] = [G.edge[f] EXCEPT !.ref = G.edge[f].ref + 1]]],
                                        d, dp, f), d, dp, Nobody)

Away(G, f, s, d, dp, sum) == [Rejoin(Bridged(G, f, s, d, dp), s, d) EXCEPT !.node[s].succ = @ \ {sum}]

LEMMA BridgedIs ==
  ASSUME NEW G, NEW f, NEW s, NEW d, NEW dp, NEW sum, LastSource(G, f, s, d, dp, sum)
  PROVE  LET H == Away(G, f, s, d, dp, sum)
         IN  Wired(H) /\ Collapsed(G, H, f, s, d, dp, sum) /\ H.watch = G.watch
  <1> DEFINE k == G.edge[f].ref + 1
             A == [G EXCEPT !.edge = [G.edge EXCEPT ![f] = [G.edge[f] EXCEPT !.ref = k]]]
             B == SetIn(A, d, dp, f)
             C == SetFan(B, d, dp, Nobody)
             H == [Rejoin(C, s, d) EXCEPT !.node[s].succ = @ \ {sum}]
  <1>1. /\ Wired(G) /\ G \in Graph /\ d \in Slot /\ sum \in Slot /\ s \in Slot /\ Written(G, f)
    BY LastSourceIs
  <1>2. /\ f \in EdgeId /\ f \in EdgeId \cup {Silent} /\ Nobody \in Sums \cup {Nobody}
        /\ dp \in DOMAIN G.node[d].ins /\ dp \in DOMAIN G.node[d].fan
    BY DEF LastSource
  <1>3. Bridged(G, f, s, d, dp) = C
    BY DEF Bridged
  <1>4. k \in Nat
    BY <1>1, <1>2, EdgeOf
  <1> HIDE DEF k
  <1>5. A \in Graph /\ A.node = G.node /\ A.free = G.free /\ RefIs(G, A, f, k) /\ KeepsRest(G, A) /\ A.watch = G.watch
    BY <1>1, <1>2, <1>4, RefChanged
  <1> HIDE DEF A
  <1>6. dp \in DOMAIN A.node[d].ins
    BY <1>2, <1>5
  <1>7. /\ B \in Graph /\ InsAre(A, B, d, dp, f)
        /\ KeepsFan(A, B) /\ KeepsOuts(A, B) /\ KeepsLinks(A, B) /\ KeepsEdges(A, B) /\ KeepsRest(A, B)
        /\ B.watch = A.watch
    BY <1>1, <1>2, <1>5, <1>6, SetInIs
  <1> HIDE DEF B
  <1>8. dp \in DOMAIN B.node[d].fan
    BY <1>1, <1>2, <1>5, <1>7 DEF KeepsFan
  <1>9. /\ C \in Graph /\ FanIs(B, C, d, dp, Nobody)
        /\ KeepsIns(B, C) /\ KeepsOuts(B, C) /\ KeepsLinks(B, C) /\ KeepsEdges(B, C) /\ KeepsRest(B, C)
        /\ C.watch = B.watch
    BY <1>1, <1>2, <1>7, <1>8, SetFanIs
  <1> HIDE DEF C
  <1>10. /\ H \in Graph /\ Rejoined(C, H, s, d, sum)
         /\ KeepsIns(C, H) /\ KeepsFan(C, H) /\ KeepsOuts(C, H) /\ KeepsEdges(C, H) /\ KeepsRest(C, H)
         /\ H.watch = C.watch
    BY <1>1, <1>9, RejoinIs
  <1> HIDE DEF H
  <1>11. InsAre(G, C, d, dp, f) /\ KeepsOuts(G, C) /\ KeepsLinks(G, C) /\ KeepsRest(G, C) /\ C.watch = G.watch
    BY <1>5, <1>7, <1>9 DEF InsAre, KeepsIns, KeepsOuts, KeepsLinks, KeepsRest
  <1>12. RefIs(G, C, f, k) /\ C.free = G.free
    BY <1>5, <1>7, <1>9 DEF RefIs, KeepsEdges
  <1>13. FanIs(G, C, d, dp, Nobody)
    BY <1>5, <1>7, <1>9 DEF FanIs, KeepsFan
  <1>14. Wired(C)
    <2>1. RefIs(G, C, f, G.edge[f].ref + 1)
      BY <1>12 DEF k
    <2>2. C.pool = G.pool
      BY <1>11 DEF KeepsRest
    <2> QED
      BY <1>1, <1>2, <1>9, <1>11, <1>12, <2>1, <2>2, WiredRead
  <1>15. Wired(H)
    <2>1. Quieter(C, H) /\ KeepsWriters(C, H)
      BY <1>10, InsAreQuieter, OutsAreWriters
    <2>2. H.pool = C.pool
      BY <1>10 DEF KeepsRest
    <2> QED
      BY <1>10, <1>14, <2>1, <2>2, WiredQuieter
  <1>16. Collapsed(G, H, f, s, d, dp, sum)
    <2>1. InsAre(G, H, d, dp, f) /\ KeepsOuts(G, H) /\ KeepsRest(G, H)
      BY <1>10, <1>11 DEF InsAre, KeepsIns, KeepsOuts, KeepsRest
    <2>2. RefIs(G, H, f, G.edge[f].ref + 1) /\ H.free = G.free
      BY <1>10, <1>12 DEF RefIs, KeepsEdges, k
    <2>3. FanIs(G, H, d, dp, Nobody)
      BY <1>10, <1>13 DEF FanIs, KeepsFan
    <2>4. Rejoined(G, H, s, d, sum)
      BY <1>1, <1>10, <1>11 DEF Rejoined, KeepsLinks
    <2> QED
      BY <2>1, <2>2, <2>3, <2>4 DEF Collapsed
  <1> QED
    BY <1>3, <1>10, <1>11, <1>15, <1>16 DEF H, Away

LEMMA CollapseSound ==
  ASSUME NEW G, NEW f, NEW s, NEW d, NEW dp, NEW sum, LastSource(G, f, s, d, dp, sum)
  PROVE  LET c == Collapse(G, sum, d, dp)
         IN  Sound(c.g) /\ c.g.watch = G.watch /\ c.ok \in BOOLEAN /\ (~c.ok => c.g = G)
  <1> DEFINE c == Collapse(G, sum, d, dp)
             p == G.edge[f].port
             B == Bridged(G, f, s, d, dp)
             H == Away(G, f, s, d, dp, sum)
             K == DeleteNode(H, sum)
             M == SetOut(SetIn(K, d, dp, f), s, p, f)
  <1>1. /\ Wired(G) /\ G \in Graph /\ d \in Slot /\ sum \in Slot /\ s \in Slot /\ s # sum /\ sum # d /\ Written(G, f)
        /\ sum # Nobody
    BY LastSourceIs
  <1>2. /\ f \in EdgeId /\ f # Silent /\ G.edge[f].src = s /\ G.node[sum].ins[1] = f /\ sum \in Sums /\ sum \notin User
        /\ dp \in DOMAIN G.node[d].ins /\ Sound(G)
    BY Constants0 DEF LastSource
  <1>3. G.node[s].outs[p] = f
    BY <1>1, <1>2 DEF Written
  <1>4. c = IF G.free = <<>> THEN Refused(G) ELSE Done(M)
    <2> DEFINE r     == G.edge[G.node[sum].ins[1]]
               own   == G.node[r.src].outs[r.port]
               e     == IF own # Silent THEN own ELSE Head(G.free)
               G1    == Rejoin(Bypass(G, e, r.src, r.port, d, dp), r.src, d)
               Here  == [G EXCEPT !.edge[f].ref = @ + 1]
    <2>1. c = IF G.free = <<>> THEN Refused(G) ELSE Done(Restored(G1, e, r.src, r.port, d, dp, sum))
      BY Zenon DEF Collapse
    <2>2. r.src = s /\ r.port = p /\ G.node[s].outs[p] = f
      BY <1>2, <1>3
    <2> HIDE DEF r, p
    <2>3. own = f
      BY <2>2, Zenon
    <2> HIDE DEF own
    <2>4. e = f
      BY <1>2, <2>3, Zenon
    <2> HIDE DEF e
    <2>5. Bypass(G, f, s, p, d, dp) = [SetIn(Here, d, dp, f) EXCEPT !.node[d].fan[dp] = Nobody]
      BY <1>2, <2>2, Zenon DEF Bypass
    <2>6. Here = [G EXCEPT !.edge = [G.edge EXCEPT ![f] = [G.edge[f] EXCEPT !.ref = G.edge[f].ref + 1]]]
      OBVIOUS
    <2> HIDE DEF Here
    <2>7. Bypass(G, f, s, p, d, dp) = SetFan(SetIn(Here, d, dp, f), d, dp, Nobody)
      BY <2>5 DEF SetFan
    <2>8. Bypass(G, f, s, p, d, dp) = B
      BY <2>6, <2>7, Zenon DEF Bridged
    <2> HIDE DEF B
    <2>9. G1 = Rejoin(B, s, d)
      BY <2>2, <2>4, <2>8, Zenon
    <2> HIDE DEF G1
    <2>10. Restored(G1, e, r.src, r.port, d, dp, sum) = Restored(Rejoin(B, s, d), f, s, p, d, dp, sum)
      BY <2>2, <2>4, <2>9, Zenon
    <2>11. Restored(Rejoin(B, s, d), f, s, p, d, dp, sum) = M
      BY Zenon DEF Restored, Away, B
    <2> HIDE DEF c, M
    <2> QED
      BY <2>1, <2>10, <2>11, Zenon
  <1>5. Wired(H) /\ Collapsed(G, H, f, s, d, dp, sum) /\ H.watch = G.watch
    BY BridgedIs
  <1> HIDE DEF H
  <1>6. /\ Leaving(H, sum) /\ ~IsHosted(H, sum) /\ Live(H, sum)
        /\ DOMAIN H.node[sum].ins \subseteq DOMAIN H.node[sum].fan
    BY <1>5, CollapsedLeaving
  <1>7. Sound(K) /\ Deletes(H, K, sum)
    BY <1>1, <1>6, DeleteNodeSound
  <1> HIDE DEF K, p
  <1>8. K \in Graph /\ Wired(K)
    BY <1>7 DEF Sound, Leaving, Wired
  <1>9. H.edge[f].src = s /\ H.edge[f].port = p
    BY <1>2, <1>5 DEF Collapsed, RefIs, p
  <1>10. dp \in DOMAIN H.node[d].ins /\ H.node[d].ins[dp] = f
    <2>1. InsAre(G, H, d, dp, f) /\ f \in EdgeId \cup {Silent}
      BY <1>2, <1>5 DEF Collapsed
    <2>2. \A x \in Slot : /\ DOMAIN H.node[x].ins = DOMAIN G.node[x].ins
                          /\ \A q \in DOMAIN G.node[x].ins :
                                H.node[x].ins[q] = IF x = d /\ q = dp THEN f ELSE G.node[x].ins[q]
      BY <1>1, <1>2, <2>1, InsAreAt
    <2> QED
      BY <1>1, <1>2, <2>2
  <1>11. dp \in DOMAIN K.node[d].ins /\ K.node[d].ins[dp] = f
    BY <1>1, <1>2, <1>7, <1>9, <1>10 DEF Deletes
  <1>12. K.edge[f].src = s /\ K.edge[f].port = p
    <2>1. <<d, dp>> \in ReadersOf(K, f)
      BY <1>1, <1>11, ReadersAre
    <2>2. ReadersOf(K, f) # {}
      BY <2>1
    <2> QED
      BY <1>2, <1>7, <1>9, <2>2 DEF Deletes, Tagged
  <1>13. p \in DOMAIN K.node[s].outs /\ K.node[s].outs[p] = f
    <2>1. Written(K, f)
      BY <1>1, <1>2, <1>8, <1>11, FeederIs
    <2> QED
      BY <1>12, <2>1 DEF Written
  <1>14. M = K
    <2>1. SetIn(K, d, dp, f) = K
      BY <1>1, <1>8, <1>11, SetInSame
    <2>2. SetOut(K, s, p, f) = K
      BY <1>1, <1>8, <1>13, SetOutSame
    <2> QED
      BY <2>1, <2>2, Zenon
  <1>15. K.watch = G.watch
    <2>1. G.watch \in SUBSET User
      BY <1>1 DEF Graph
    <2> QED
      BY <1>2, <1>5, <1>7, <2>1 DEF Deletes
  <1> HIDE DEF M, c
  <1>16. CASE G.free = <<>>
    <2>1. c.ok = FALSE /\ c.g = G
      BY <1>4, <1>16 DEF Refused
    <2> QED
      BY <1>2, <2>1 DEF c
  <1>17. CASE G.free # <<>>
    <2>1. c.ok = TRUE /\ c.g = K
      BY <1>4, <1>14, <1>17 DEF Done
    <2> QED
      BY <1>7, <1>15, <2>1 DEF c
  <1> QED
    BY <1>16, <1>17
-----------------------------------------------------------------------------
(* Disconnect.                                                              *)

LEMMA SelectIs ==
  ASSUME NEW S, NEW a \in Seq(S), NEW e
  PROVE  LET i == SelectInSeq(a, LAMBDA f : f = e) IN i = 0 \/ (i \in DOMAIN a /\ a[i] = e)
  <1> DEFINE I == {i \in 1..Len(a) : a[i] = e}
             m == CHOOSE x \in I : \A y \in I : x <= y
  <1>1. SelectInSeq(a, LAMBDA f : f = e) = IF I # {} THEN m ELSE 0
    BY DEF SelectInSeq, Min
  <1>2. Len(a) \in Nat /\ DOMAIN a = 1..Len(a)
    OBVIOUS
  <1>3. ASSUME I # {} PROVE m \in I
    <2>1. I \in SUBSET Nat
      BY <1>2
    <2> HIDE DEF I
    <2>2. \E x \in I : \A y \in I : x <= y
      BY <1>3, <2>1, LeastExists
    <2> QED
      BY <2>2
  <1> HIDE DEF m
  <1> QED
    BY <1>1, <1>2, <1>3

\* The input i of the SUM has let go of what s.sp writes, and is gone.
Shrunk(G, s, sp, sum, i) == [Unplug(G, s, sp, sum, i) EXCEPT !.node[sum].ins = RemoveAt(@, i)]

LEMMA UnpluggedSources ==
  ASSUME NEW G \in Graph, NEW H \in Graph, NEW d \in Slot, NEW p \in DOMAIN G.node[d].ins, InsAre(G, H, d, p, Silent),
         Tagged(G, H), NEW x \in Slot
  PROVE  Sources(H, x) \subseteq Sources(G, x)
  <1> SUFFICES ASSUME NEW t \in Sources(H, x) PROVE t \in Sources(G, x)
    OBVIOUS
  <1>1. PICK q \in DOMAIN H.node[x].ins, e \in EdgeId : H.node[x].ins[q] = e /\ H.edge[e].src = t
    BY SourcesAre
  <1>2. Quieter(G, H) /\ Silent \notin EdgeId
    BY SilencingIsQuieter, Constants0
  <1>3. q \in DOMAIN G.node[x].ins /\ G.node[x].ins[q] = e
    BY <1>1, <1>2 DEF Quieter
  <1>4. <<x, q>> \in ReadersOf(H, e)
    BY <1>1, ReadersAre
  <1>5. ReadersOf(H, e) # {}
    BY <1>4
  <1>6. G.edge[e].src = t
    BY <1>1, <1>5 DEF Tagged
  <1>7. t # Nobody
    BY SourcesInSlot
  <1> QED
    BY <1>3, <1>6, <1>7, SourcesAre

LEMMA ShrunkIs ==
  ASSUME NEW G, Sound(G), NEW s \in User, NEW sp \in DOMAIN G.node[s].outs, NEW sum \in Sums, Live(G, sum),
         NEW e \in EdgeId, G.node[s].outs[sp] = e, NEW i \in DOMAIN G.node[sum].ins, G.node[sum].ins[i] = e
  PROVE  LET H == Shrunk(G, s, sp, sum, i)
         IN  /\ Sound(H) /\ H.watch = G.watch /\ KeepsFan(G, H) /\ Trimmed(G, H) /\ Live(H, sum)
             /\ H.node[sum].ins \in Seq(EdgeId \cup {Silent})
  <1> DEFINE K == Unplug(G, s, sp, sum, i)
             H == [K EXCEPT !.node[sum].ins = RemoveAt(@, i)]
  <1>1. Shrunk(G, s, sp, sum, i) = H
    BY DEF Shrunk
  <1>2. /\ Leaving(G, Nobody) /\ Wired(G) /\ G \in Graph /\ Shapes(G) /\ sum \in Slot /\ s \in Slot /\ s # Nobody
        /\ Silent \in EdgeId \cup {Silent}
    BY Constants0 DEF Sound, Leaving, Wired
  <1>3. G.edge[e].src = s /\ G.edge[e].port = sp
    BY <1>2, WriterIs
  <1>4. FanIs(G, G, sum, i, Nobody)
    <2>1. i \in DOMAIN G.node[sum].fan => G.node[sum].fan[i] = Nobody
      BY <1>2 DEF Shapes
    <2> QED
      BY <1>2, <2>1, SelfKept, FanIsNobody
  <1>5. /\ Leaving(K, Nobody) /\ InsAre(G, K, sum, i, Silent) /\ KeepsFan(G, K) /\ KeepsRest(G, K) /\ K.watch = G.watch
        /\ AsManyOuts(G, K) /\ Tagged(G, K)
    <2> DEFINE J == Unplug(G, G.edge[e].src, G.edge[e].port, sum, i)
    <2>1. /\ Leaving(J, Nobody) /\ InsAre(G, J, sum, i, Silent) /\ KeepsFan(G, J) /\ KeepsRest(G, J) /\ J.watch = G.watch
          /\ AsManyOuts(G, J) /\ Tagged(G, J)
      BY <1>2, <1>3, <1>4, UnplugHere
    <2>2. J = K
      BY <1>3
    <2> HIDE DEF J, K
    <2> QED
      BY <2>1, <2>2
  <1> HIDE DEF K
  <1>6. Sound(K) /\ K \in Graph
    BY <1>5 DEF Sound, Leaving, Wired
  <1>7. i \in DOMAIN K.node[sum].ins /\ K.node[sum].ins[i] = Silent
    <2>1. \A x \in Slot : /\ DOMAIN K.node[x].ins = DOMAIN G.node[x].ins
                          /\ \A q \in DOMAIN G.node[x].ins :
                                K.node[x].ins[q] = IF x = sum /\ q = i THEN Silent ELSE G.node[x].ins[q]
      BY <1>2, <1>5, InsAreAt
    <2> QED
      BY <1>2, <2>1
  <1>8. Live(K, sum) /\ Len(K.node[sum].outs) # 0
    <2>1. Len(G.node[sum].outs) = 1
      BY <1>2 DEF Shapes
    <2>2. Len(K.node[sum].outs) = 1
      BY <1>2, <1>5, <2>1 DEF AsManyOuts
    <2> QED
      BY <1>2, <1>6, <2>2, EmptyIs
  <1>9. /\ Sound(H) /\ H.watch = K.watch /\ KeepsFan(K, H) /\ KeepsOuts(K, H) /\ KeepsRest(K, H)
        /\ \A x \in Slot : Sources(H, x) = Sources(K, x)
        /\ H.node[sum].ins \in Seq(EdgeId \cup {Silent})
    BY <1>6, <1>7, <1>8, ShrunkSound, Zenon
  <1> HIDE DEF H
  <1>10. H \in Graph
    BY <1>9 DEF Sound, Leaving, Wired
  <1>11. Live(H, sum)
    <2>1. Len(H.node[sum].outs) # 0
      BY <1>2, <1>8, <1>9 DEF KeepsOuts
    <2> QED
      BY <1>2, <1>10, <2>1, EmptyIs
  <1>12. KeepsFan(G, H)
    BY <1>5, <1>9 DEF KeepsFan
  <1>13. Trimmed(G, H)
    <2>1. ASSUME NEW x \in Slot PROVE Sources(H, x) \subseteq Sources(G, x)
      BY <1>2, <1>5, <1>6, <1>9, UnpluggedSources
    <2>2. Kept(H) = Kept(G)
      <3>1. \A x \in User : H.node[x].fan = G.node[x].fan
        BY <1>12, Constants0 DEF KeepsFan
      <3> QED
        BY <3>1, KeptKept
    <2>3. H.next = G.next /\ G.next <= G.next
      BY <1>2, <1>5, <1>9, NextIs DEF KeepsRest
    <2> QED
      BY <2>1, <2>2, <2>3 DEF Trimmed
  <1> QED
    BY <1>1, <1>5, <1>9, <1>11, <1>12, <1>13

LEMMA DisconnectFromSumSound ==
  ASSUME NEW G, Sound(G), NEW s \in User, NEW sp \in DOMAIN G.node[s].outs, NEW d \in User,
         NEW dp \in DOMAIN G.node[d].fan, NEW sum \in Sums, G.node[d].fan[dp] = sum, Live(G, sum)
  PROVE  LET c == DisconnectFromSum(G, s, sp, sum, d, dp)
         IN  Sound(c.g) /\ c.g.watch = G.watch /\ c.ok \in BOOLEAN /\ (~c.ok => Trimmed(G, c.g))
  <1> DEFINE c    == DisconnectFromSum(G, s, sp, sum, d, dp)
             e    == G.node[s].outs[sp]
             i    == SelectInSeq(G.node[sum].ins, LAMBDA f : f = e)
             H    == Shrunk(G, s, sp, sum, i)
             left == H.node[sum].ins
  <1>1. c = IF e = Silent THEN Refused(G)
            ELSE IF i = 0 THEN Refused(G)
            ELSE IF Len(left) >= 2 THEN Done(Repointed(H, sum))
            ELSE IF Len(left) = 0 THEN Done(Dissolve(H, sum, d, dp))
            ELSE IF left[1] = Silent \/ ~H.edge[left[1]].used THEN Done(Dissolve(H, sum, d, dp))
            ELSE Collapse(H, sum, d, dp)
    BY Zenon DEF DisconnectFromSum, Shrunk
  <1>2. G \in Graph /\ s \in Slot /\ sum \in Slot /\ d \in Slot
    BY Constants0 DEF Sound, Leaving, Wired
  <1>3. e \in EdgeId \cup {Silent}
    BY <1>2, PortsOf
  <1>4. i = 0 \/ (i \in DOMAIN G.node[sum].ins /\ G.node[sum].ins[i] = e)
    <2>1. G.node[sum].ins \in Seq(EdgeId \cup {Silent})
      BY <1>2, NodeOf
    <2> QED
      BY <2>1, SelectIs
  <1>5. CASE e = Silent \/ i = 0
    <2>1. c = Refused(G)
      BY <1>1, <1>5, Zenon
    <2> HIDE DEF c
    <2>2. c.ok = FALSE /\ c.g = G
      BY <2>1 DEF Refused
    <2> QED
      BY <1>2, <2>2, TrimmedSame DEF c
  <1>6. CASE e # Silent /\ i # 0
    <2>0. e \in EdgeId /\ i \in DOMAIN G.node[sum].ins /\ G.node[sum].ins[i] = e
      BY <1>3, <1>4, <1>6, Zenon
    <2>1. c = IF Len(left) >= 2 THEN Done(Repointed(H, sum))
              ELSE IF Len(left) = 0 THEN Done(Dissolve(H, sum, d, dp))
              ELSE IF left[1] = Silent \/ ~H.edge[left[1]].used THEN Done(Dissolve(H, sum, d, dp))
              ELSE Collapse(H, sum, d, dp)
      BY <1>1, <1>6, Zenon
    <2>2. G.node[s].outs[sp] = e
      OBVIOUS
    <2> HIDE DEF i, e, c
    <2>3. /\ Sound(H) /\ H.watch = G.watch /\ KeepsFan(G, H) /\ Trimmed(G, H) /\ Live(H, sum)
          /\ left \in Seq(EdgeId \cup {Silent})
      BY <2>0, <2>2, ShrunkIs
    <2>4. left = H.node[sum].ins
      OBVIOUS
    <2> HIDE DEF H, left
    <2>5. Wired(H) /\ H \in Graph /\ Shapes(H) /\ Len(left) \in Nat /\ DOMAIN left = 1..Len(left)
      BY <2>3 DEF Sound, Leaving, Wired
    <2>6. dp \in DOMAIN H.node[d].fan /\ H.node[d].fan[dp] = sum
      BY <1>2, <2>3 DEF KeepsFan
    <2>7. CASE Len(left) >= 2
      <3>1. c = Done(Repointed(H, sum))
        BY <2>1, <2>7
      <3>2. Repointed(H, sum) = H
        BY <1>2, <2>5, RepointedSame
      <3>3. c.ok = TRUE /\ c.g = H
        BY <3>1, <3>2 DEF Done
      <3> QED
        BY <2>3, <3>3 DEF c
    <2>8. CASE ~(Len(left) >= 2)
      <3> DEFINE D == Dissolve(H, sum, d, dp)
      <3>1. Len(left) = 0 \/ Len(left) = 1
        BY <2>5, <2>8
      <3>2. DOMAIN H.node[sum].ins \subseteq DOMAIN H.node[sum].fan
        <4>1. Len(H.node[sum].fan) = 2
          BY <2>3, <2>5 DEF Shapes
        <4>2. DOMAIN H.node[sum].fan = 1..2
          BY <1>2, <2>5, <4>1, PortsOf
        <4>3. DOMAIN left \subseteq 1..2
          BY <2>5, <3>1
        <4> QED
          BY <2>4, <4>2, <4>3
      <3>3. Sound(D) /\ D.watch = G.watch
        BY <2>3, <2>6, <3>2, DissolveSound
      <3> HIDE DEF D
      <3>4. CASE c = Done(D)
        <4>1. c.ok = TRUE /\ c.g = D
          BY <3>4 DEF Done
        <4> QED
          BY <3>3, <4>1 DEF c
      <3>5. CASE c # Done(D)
        <4>1. c = Collapse(H, sum, d, dp) /\ Len(left) = 1 /\ left[1] # Silent
          BY <2>1, <2>8, <3>1, <3>5 DEF D
        <4> DEFINE f == left[1]
                   t == H.edge[f].src
        <4>2. DOMAIN left = {1} /\ f \in EdgeId
          <5>1. 1 \in DOMAIN left
            BY <2>5, <4>1
          <5>2. left[1] \in EdgeId \cup {Silent}
            BY <2>3, <5>1
          <5>3. DOMAIN left = 1..1
            BY <2>5, <4>1
          <5>4. 1..1 = {1}
            OBVIOUS
          <5> QED
            BY <4>1, <5>2, <5>3, <5>4
        <4>3. H.node[sum].ins[1] = f
          BY <2>4
        <4>4. dp \in DOMAIN H.node[d].ins
          BY <1>2, <2>5, <2>6, PortsOf DEF Shapes
        <4> HIDE DEF f
        <4>5. LastSource(H, f, t, d, dp, sum)
          BY <2>3, <2>4, <2>6, <4>2, <4>3, <4>4 DEF LastSource
        <4> HIDE DEF t
        <4> DEFINE C == Collapse(H, sum, d, dp)
        <4>6. Sound(C.g) /\ C.g.watch = H.watch /\ C.ok \in BOOLEAN /\ (~C.ok => C.g = H)
          BY <4>5, CollapseSound
        <4> HIDE DEF C
        <4>7. c = C
          BY <4>1 DEF C
        <4> QED
          BY <2>3, <4>6, <4>7 DEF c
      <3> QED
        BY <3>4, <3>5
    <2> QED
      BY <2>7, <2>8
  <1> QED
    BY <1>5, <1>6

\* A caller's disconnection keeps the graph sound, refused or not.
LEMMA DisconnectSound ==
  ASSUME NEW G, Sound(G), NEW s \in User, NEW sp, NEW d \in User, NEW dp
  PROVE  LET c == Disconnect(G, s, sp, d, dp)
         IN  Sound(c.g) /\ c.g.watch = G.watch /\ c.ok \in BOOLEAN /\ (~c.ok => Trimmed(G, c.g))
  <1> DEFINE c   == Disconnect(G, s, sp, d, dp)
             sum == G.node[d].fan[dp]
  <1>1. c = IF ~HasPorts(G, s, sp, d, dp) THEN Refused(G)
            ELSE IF sum = Nobody THEN DisconnectDirect(G, s, sp, d, dp)
            ELSE IF ~Live(G, sum) THEN Done(G)
            ELSE DisconnectFromSum(G, s, sp, sum, d, dp)
    BY Zenon DEF Disconnect
  <1>2. G \in Graph /\ Shapes(G) /\ s \in Slot /\ d \in Slot
    BY Constants0 DEF Sound, Leaving, Wired
  <1> HIDE DEF c
  <1>3. CASE ~HasPorts(G, s, sp, d, dp)
    <2>1. c.ok = FALSE /\ c.g = G
      BY <1>1, <1>3 DEF Refused
    <2> QED
      BY <1>2, <2>1, TrimmedSame DEF c
  <1>4. CASE HasPorts(G, s, sp, d, dp)
    <2>1. sp \in DOMAIN G.node[s].outs /\ dp \in DOMAIN G.node[d].ins
      BY <1>4 DEF HasPorts
    <2>2. dp \in DOMAIN G.node[d].fan
      BY <1>2, <2>1, PortsOf DEF Shapes
    <2>3. sum \in Sums \cup {Nobody}
      BY <1>2, <2>2, PortsOf
    <2>4. CASE sum = Nobody
      <3> DEFINE C == DisconnectDirect(G, s, sp, d, dp)
      <3>1. c = C
        BY <1>1, <1>4, <2>4
      <3>2. Sound(C.g) /\ C.g.watch = G.watch /\ C.ok \in BOOLEAN /\ (~C.ok => C.g = G)
        BY <1>2, <2>1, <2>4, DisconnectDirectSound
      <3> HIDE DEF C
      <3> QED
        BY <1>2, <3>1, <3>2, TrimmedSame DEF c
    <2>5. CASE sum \in Sums /\ ~Live(G, sum)
      <3>1. sum # Nobody
        BY <2>5, Constants0
      <3>2. c = Done(G)
        BY <1>1, <1>4, <2>5, <3>1
      <3>3. c.ok = TRUE /\ c.g = G
        BY <3>2 DEF Done
      <3> QED
        BY <3>3 DEF c
    <2>6. CASE sum \in Sums /\ Live(G, sum)
      <3> DEFINE C == DisconnectFromSum(G, s, sp, sum, d, dp)
      <3>1. sum # Nobody
        BY <2>6, Constants0
      <3>2. c = C
        BY <1>1, <1>4, <2>6, <3>1
      <3>3. G.node[d].fan[dp] = sum
        OBVIOUS
      <3> HIDE DEF sum
      <3>4. Sound(C.g) /\ C.g.watch = G.watch /\ C.ok \in BOOLEAN /\ (~C.ok => Trimmed(G, C.g))
        BY <2>1, <2>2, <2>6, <3>3, DisconnectFromSumSound
      <3> HIDE DEF C
      <3> QED
        BY <3>2, <3>4 DEF c
    <2> QED
      BY <2>3, <2>4, <2>5, <2>6
  <1> QED
    BY <1>3, <1>4
-----------------------------------------------------------------------------
(* The links are rebuilt.                                                   *)

LEMMA RebuiltIs ==
  ASSUME NEW G, Wired(G), Acyclic(G)
  PROVE  LET H == Rebuilt(G)
         IN  /\ H \in Graph
             /\ KeepsIns(G, H) /\ KeepsFan(G, H) /\ KeepsOuts(G, H) /\ KeepsEdges(G, H) /\ KeepsRest(G, H)
             /\ H.watch = G.watch
             /\ \A x \in Slot : /\ H.node[x].succ = {d \in Slot : x \in Sources(G, d)}
                                /\ H.node[x].indeg = Cardinality(Sources(G, x))
  <1> DEFINE P(d) == {s \in Sources(G, d) : s # d /\ Live(G, s)}
             S(n) == {d \in Slot : n \in P(d)}
             k(n) == Cardinality(P(n))
             t(n) == [G.node[n] EXCEPT !.indeg = k(n)]
             r(n) == [t(n) EXCEPT !.succ = S(n)]
             f == [n \in Slot |-> r(n)]
             H == [G EXCEPT !.node = f]
  <1>1. Rebuilt(G) = H
    <2>1. \A n \in Slot : r(n) = [G.node[n] EXCEPT !.indeg = k(n), !.succ = S(n)]
      OBVIOUS
    <2> QED
      BY Zenon DEF Rebuilt
  <1>2. G \in Graph
    BY DEF Wired
  <1>3. ASSUME NEW d \in Slot PROVE P(d) = Sources(G, d)
    <2> SUFFICES ASSUME NEW s \in Sources(G, d) PROVE s # d /\ Live(G, s)
      OBVIOUS
    <2>1. s # d
      BY NoLoop
    <2>2. PICK p \in DOMAIN G.node[d].ins, e \in EdgeId : G.node[d].ins[p] = e /\ G.edge[e].src = s
      BY <1>2, SourcesAre
    <2>3. s \in Slot /\ G.edge[e].port \in DOMAIN G.node[s].outs
      BY <2>2, FeederIs DEF Written
    <2>4. Live(G, s)
      <3>1. Len(G.node[s].outs) # 0
        BY <1>2, <2>3, PortsOf
      <3> QED
        BY <1>2, <2>3, <3>1, EmptyIs
    <2> QED
      BY <2>1, <2>4
  <1> HIDE DEF P
  <1>4. ASSUME NEW n \in Slot
        PROVE  /\ r(n) \in Node /\ r(n).ins = G.node[n].ins /\ r(n).fan = G.node[n].fan /\ r(n).outs = G.node[n].outs
               /\ r(n).succ = S(n) /\ r(n).indeg = k(n)
    <2>1. k(n) \in Nat
      BY <1>2, <1>3, SourcesInSlot
    <2>2. G.node[n] \in Node /\ S(n) \in SUBSET Slot
      BY <1>2, NodeOf
    <2> HIDE DEF k, S
    <2>3. /\ t(n) \in Node /\ t(n).ins = G.node[n].ins /\ t(n).fan = G.node[n].fan /\ t(n).outs = G.node[n].outs
          /\ t(n).succ = G.node[n].succ /\ t(n).indeg = k(n)
      BY <2>1, <2>2, NodeWithIndeg
    <2> HIDE DEF t
    <2>4. /\ r(n) \in Node /\ r(n).ins = t(n).ins /\ r(n).fan = t(n).fan /\ r(n).outs = t(n).outs
          /\ r(n).succ = S(n) /\ r(n).indeg = t(n).indeg
      BY <2>2, <2>3, NodeWithSucc
    <2> HIDE DEF r
    <2> QED
      BY <2>3, <2>4
  <1> HIDE DEF r
  <1>5. f \in [Slot -> Node] /\ \A x \in Slot : f[x] = r(x)
    BY <1>4
  <1> HIDE DEF f
  <1>6. H \in Graph /\ H.node = f /\ KeepsEdges(G, H) /\ KeepsRest(G, H) /\ H.watch = G.watch
    BY <1>2, <1>5, NodesChanged
  <1> HIDE DEF H
  <1>7. KeepsIns(G, H) /\ KeepsFan(G, H) /\ KeepsOuts(G, H)
    BY <1>4, <1>5, <1>6 DEF KeepsIns, KeepsFan, KeepsOuts
  <1>8. ASSUME NEW x \in Slot
        PROVE  /\ H.node[x].succ = {d \in Slot : x \in Sources(G, d)}
               /\ H.node[x].indeg = Cardinality(Sources(G, x))
    <2>1. H.node[x] = r(x)
      BY <1>5, <1>6
    <2>2. H.node[x].succ = S(x) /\ H.node[x].indeg = k(x)
      BY <1>4, <2>1
    <2> QED
      BY <1>3, <2>2
  <1> QED
    BY <1>1, <1>6, <1>7, <1>8

LEMMA UpdatedSound ==
  ASSUME NEW G, Sound(G)
  PROVE  LET H == Updated(G)
         IN  /\ Sound(H) /\ H.watch = G.watch /\ H.next = G.next /\ Kept(H) = Kept(G)
             /\ \A x \in Slot : Sources(H, x) = Sources(G, x)
  <1> DEFINE H == Rebuilt(G)
  <1>1. /\ Wired(G) /\ Unborn(G) /\ Shapes(G) /\ Hosted(G) /\ OneHost(G) /\ ForHosts(G) /\ Acyclic(G)
        /\ Covered(G, Nobody) /\ G \in Graph
    BY DEF Sound, Leaving, Wired
  <1>2. /\ H \in Graph
        /\ KeepsIns(G, H) /\ KeepsFan(G, H) /\ KeepsOuts(G, H) /\ KeepsEdges(G, H) /\ KeepsRest(G, H)
        /\ H.watch = G.watch
        /\ \A x \in Slot : /\ H.node[x].succ = {d \in Slot : x \in Sources(G, d)}
                           /\ H.node[x].indeg = Cardinality(Sources(G, x))
    BY <1>1, RebuiltIs
  <1> HIDE DEF H
  <1>3. \A x \in Slot : Sources(H, x) = Sources(G, x)
    BY <1>2 DEF Sources, KeepsIns, KeepsEdges
  <1>4. Wired(H)
    <2>1. Quieter(G, H) /\ KeepsWriters(G, H)
      BY <1>2, InsAreQuieter, OutsAreWriters
    <2>2. H.pool = G.pool
      BY <1>2 DEF KeepsRest
    <2> QED
      BY <1>1, <1>2, <2>1, <2>2, WiredQuieter
  <1>5. Alike(G, H)
    BY <1>2, Constants0 DEF Alike, KeepsIns, KeepsFan, KeepsOuts
  <1>6. Unborn(H)
    <2>1. ASSUME NEW x \in Slot \ Given(G)
          PROVE  /\ H.node[x].succ = {} /\ H.node[x].indeg = 0 /\ \A s \in Slot : x \notin H.node[s].succ
      <3>1. Sources(G, x) = {}
        <4> SUFFICES ASSUME NEW s \in Sources(G, x) PROVE FALSE
          OBVIOUS
        <4>1. PICK p \in DOMAIN G.node[x].ins : TRUE
          BY <1>1, SourcesAre
        <4> QED
          BY <1>1, <4>1, GivenIs
      <3>2. ASSUME NEW d \in Slot, x \in Sources(G, d) PROVE FALSE
        <4>1. PICK p \in DOMAIN G.node[d].ins, e \in EdgeId : G.node[d].ins[p] = e /\ G.edge[e].src = x
          BY <1>1, <3>2, SourcesAre
        <4>2. G.edge[e].port \in DOMAIN G.node[x].outs
          BY <1>1, <4>1, FeederIs DEF Written
        <4> QED
          BY <1>1, <4>2, GivenIs
      <3>3. H.node[x].succ = {}
        BY <1>2, <3>2
      <3>4. H.node[x].indeg = 0
        BY <1>2, <3>1, NoneCounted
      <3>5. \A s \in Slot : x \notin H.node[s].succ
        BY <1>2, <3>1
      <3> QED
        BY <3>3, <3>4, <3>5
    <2> QED
      BY <1>1, <1>2, <1>5, <2>1, UnbornKept
  <1>7. Shapes(H)
    BY <1>1, <1>2, <1>5, AlikeShapes
  <1>8. FanFewer(G, H)
    BY <1>2, FanKept
  <1>9. Hosted(H)
    <2>1. ASSUME NEW d \in User, NEW sum \in Sums, NEW p \in DOMAIN H.node[d].fan, H.node[d].fan[p] = sum
          PROVE  /\ H.node[d].ins[p] = G.node[d].ins[p] /\ H.node[sum].outs[1] = G.node[sum].outs[1]
                 /\ d \notin Sources(G, sum) => d \notin Sources(H, sum)
      <3>1. d \in Slot /\ sum \in Slot
        BY Constants0
      <3>2. H.node[d].ins = G.node[d].ins /\ H.node[sum].outs = G.node[sum].outs
        BY <1>2, <3>1 DEF KeepsIns, KeepsOuts
      <3> QED
        BY <1>3, <3>1, <3>2
    <2> QED
      BY <1>1, <1>2, <1>5, <1>8, <2>1, HostedKept
  <1>10. OneHost(H)
    BY <1>1, <1>8, OneHostKept
  <1>11. ForHosts(H)
    BY <1>1, <1>2 DEF ForHosts, KeepsIns, KeepsFan, KeepsEdges
  <1>12. Acyclic(H)
    BY <1>1, <1>3, AcyclicFewer DEF Fewer
  <1>13. Covered(H, Nobody)
    <2> SUFFICES ASSUME NEW d \in Slot, NEW s \in Sources(G, d) PROVE d \in H.node[s].succ
      BY <1>3 DEF Covered
    <2>1. s \in Slot
      BY <1>1, SourcesInSlot
    <2> QED
      BY <1>2, <2>1
  <1>14. Kept(H) = Kept(G)
    <2>1. \A d \in User : H.node[d].fan = G.node[d].fan
      BY <1>2, Constants0 DEF KeepsFan
    <2> QED
      BY <2>1, KeptKept
  <1>15. ASSUME NEW x \in Slot PROVE Exact(H, Nobody, x)
    <2>1. Preds(H, x) = Sources(G, x)
      <3>1. Preds(H, x) = {s \in Slot : s \in Sources(G, x)}
        BY <1>2 DEF Preds
      <3> QED
        BY <1>1, <3>1, SourcesInSlot
    <2> QED
      BY <1>2, <1>3, <2>1 DEF Exact
  <1>16. Sound(H)
    <2>1. Kept(H) \subseteq Slot
      BY Constants0 DEF Kept
    <2> QED
      BY <1>4, <1>6, <1>7, <1>9, <1>10, <1>11, <1>12, <1>13, <1>15, <2>1 DEF Sound, Leaving
  <1>17. CASE DacHasInputs(G)
    <2>1. Updated(G) = H
      BY <1>17 DEF Updated, H
    <2>2. H.next = G.next
      BY <1>2 DEF KeepsRest
    <2> QED
      BY <1>2, <1>3, <1>14, <1>16, <2>1, <2>2
  <1>18. CASE ~DacHasInputs(G)
    <2>1. Updated(G) = G
      BY <1>18 DEF Updated
    <2> QED
      BY <2>1
  <1> QED
    BY <1>17, <1>18
-----------------------------------------------------------------------------
(* What runs: the walk up from the watched nodes.                           *)

\* What is heard: the nodes upstream of some.
Closed(G, Y) == \A d \in Y : Sources(G, d) \subseteq Y

LEMMA SourcesAreKept ==
  ASSUME NEW G, G \in Graph, Shapes(G), ForHosts(G), NEW d \in Slot
  PROVE  Sources(G, d) \subseteq Kept(G)
  <1> SUFFICES ASSUME NEW s \in Sources(G, d) PROVE s \in Kept(G)
    OBVIOUS
  <1>1. PICK p \in DOMAIN G.node[d].ins, e \in EdgeId : G.node[d].ins[p] = e /\ G.edge[e].src = s
    BY SourcesAre
  <1>2. s \in User \/ s \in Sums
    BY SourcesInSlot DEF Slot
  <1>3. CASE s \in Sums
    <2>1. p \in DOMAIN G.node[d].fan /\ G.node[d].fan[p] = s
      BY <1>1, <1>3 DEF ForHosts
    <2>2. d \in User
      BY <1>3, <2>1, Constants0 DEF Shapes, Slot
    <2> QED
      BY <1>3, <2>1, <2>2 DEF Kept, IsHosted
  <1> QED
    BY <1>2, <1>3 DEF Kept

LEMMA UpstreamIs ==
  ASSUME NEW G, G \in Graph, NEW K \in SUBSET Slot, Closed(G, K), NEW X \in SUBSET K
  PROVE  LET U == Upstream(G, X) IN U \subseteq K /\ X \subseteq U /\ Closed(G, U)
  <1> DEFINE N == Cardinality(Slot)
             E == [n \in Slot |-> Sources(G, n)]
             Rec(f) == f = [k \in 0..N |-> IF k = 0 THEN X ELSE f[k-1] \cup UNION {Sources(G, n) : n \in f[k-1]}]
             grown == CHOOSE f : Rec(f)
  <1>1. Upstream(G, X) = grown[N]
    BY DEF Upstream
  <1>2. N \in Nat
    BY Constants0, FS_CardinalityType
  <1> HIDE DEF N
  <1>3. E \in [Slot -> SUBSET Slot] /\ X \in SUBSET Slot /\ \A n \in Slot : E[n] = Sources(G, n)
    BY SourcesInSlot
  <1> HIDE DEF E
  <1>4. PICK f \in [0..N -> SUBSET Slot] : Grows(E, X, f)
    BY <1>3, GrowthExists DEF N
  <1>5. ASSUME NEW k \in 0..N, k # 0
        PROVE  UNION {E[n] : n \in f[k-1]} = UNION {Sources(G, n) : n \in f[k-1]}
    <2>1. k - 1 \in 0..N
      BY <1>2, <1>5
    <2>2. f[k-1] \subseteq Slot
      BY <2>1
    <2> QED
      BY <1>3, <2>2
  <1>6. Rec(f)
    <2>1. f = [k \in 0..N |-> IF k = 0 THEN X ELSE f[k-1] \cup UNION {E[n] : n \in f[k-1]}]
      BY <1>4 DEF Grows, N
    <2> QED
      BY <1>5, <2>1
  <1>7. Rec(grown)
    <2> HIDE DEF Rec
    <2> QED
      BY <1>6
  <1> HIDE DEF grown
  <1>8. GrowsBy(E, X, grown)
    <2>1. 0 \in 0..N /\ \A k \in 1..N : k \in 0..N /\ k # 0
      BY <1>2
    <2>2. grown[0] = X
      BY <1>7, <2>1
    <2>3. ASSUME NEW k \in 1..N, grown[k - 1] \in SUBSET Slot
          PROVE  grown[k] = grown[k - 1] \cup UNION {E[n] : n \in grown[k - 1]}
      <3>1. grown[k] = grown[k - 1] \cup UNION {Sources(G, n) : n \in grown[k - 1]}
        BY <1>7, <2>1
      <3>2. UNION {E[n] : n \in grown[k - 1]} = UNION {Sources(G, n) : n \in grown[k - 1]}
        BY <1>3, <2>3
      <3> QED
        BY <3>1, <3>2
    <2> QED
      BY <2>2, <2>3 DEF GrowsBy, N
  <1>9. ClosedUnder(E, K)
    BY <1>3 DEF ClosedUnder, Closed
  <1>10. grown[N] \subseteq K /\ X \subseteq grown[N] /\ ClosedUnder(E, grown[N])
    BY <1>3, <1>8, <1>9, GrowthCloses DEF N
  <1> QED
    BY <1>1, <1>3, <1>10 DEF ClosedUnder, Closed
-----------------------------------------------------------------------------
(* Nodes are removed, added and watched.                                    *)

LEMMA DeleteSound ==
  ASSUME NEW G, Sound(G), NEW n \in User
  PROVE  LET H == DeleteNode(G, n) IN Sound(H) /\ H.watch \subseteq G.watch
  <1> DEFINE H == DeleteNode(G, n)
  <1>1. n \in Slot /\ n \notin Sums /\ Nobody \notin Slot
    BY Constants0
  <1>2. CASE ~Live(G, n)
    <2>1. H = G
      BY <1>2 DEF DeleteNode
    <2> HIDE DEF H
    <2> QED
      BY <2>1 DEF H
  <1>3. CASE Live(G, n)
    <2>1. G \in Graph
      BY DEF Sound, Leaving, Wired
    <2>2. ~IsHosted(G, n)
      <3> SUFFICES ASSUME NEW d \in User, NEW p \in DOMAIN G.node[d].fan, G.node[d].fan[p] = n PROVE FALSE
        BY DEF IsHosted
      <3>1. d \in Slot
        BY Constants0
      <3>2. n \in Sums \cup {Nobody}
        BY <2>1, <3>1, PortsOf
      <3> QED
        BY <1>1, <3>2
    <2>3. Leaving(G, n)
      BY <1>1, SoundLeaving
    <2>4. Sound(H) /\ Deletes(G, H, n)
      BY <1>1, <1>3, <2>2, <2>3, DeleteNodeSound
    <2> HIDE DEF H
    <2> QED
      BY <2>4 DEF Deletes, H
  <1> QED
    BY <1>2, <1>3

LEMMA AddNodeSound ==
  ASSUME NEW G, Sound(G), NEW n \in User, n \notin G.born
  PROVE  LET H == [G EXCEPT !.born = @ \cup {n}, !.node[n] = NewNode(Shape[n].ins, Shape[n].outs)]
         IN  Sound(H) /\ H.watch = G.watch
  <1> DEFINE r == NewNode(Shape[n].ins, Shape[n].outs)
             f == [G.node EXCEPT ![n] = r]
             B == G.born \cup {n}
             H == [G EXCEPT !.born = B, !.node = f]
  <1>1. [G EXCEPT !.born = @ \cup {n}, !.node[n] = NewNode(Shape[n].ins, Shape[n].outs)] = H
    OBVIOUS
  <1>2. G \in Graph /\ n \in Slot /\ n \notin Sums
    BY Constants0 DEF Sound, Leaving, Wired
  <1> DEFINE i == Shape[n].ins
             o == Shape[n].outs
  <1>3. i \in Nat /\ o \in Nat
    BY ShapeAssumption
  <1>4. r = NewNode(i, o)
    OBVIOUS
  <1> HIDE DEF i, o
  <1>5. r \in Node
    BY <1>3, <1>4, NewNodeIs
  <1> HIDE DEF r
  <1>6. f \in [Slot -> Node] /\ \A x \in Slot : f[x] = IF x = n THEN r ELSE G.node[x]
    BY <1>2, <1>5 DEF Graph
  <1>7. B \in SUBSET User
    BY <1>2 DEF Graph
  <1> HIDE DEF f, B
  <1>8. /\ H \in Graph /\ H.node = f /\ H.born = B /\ H.edge = G.edge /\ H.free = G.free /\ H.next = G.next
        /\ H.pool = G.pool /\ H.watch = G.watch
    BY <1>2, <1>6, <1>7 DEF Graph
  <1> HIDE DEF H
  <1>9. NodeIs(G, H, n, NewNode(i, o)) /\ KeepsEdges(G, H)
    BY <1>4, <1>6, <1>8 DEF NodeIs, KeepsEdges
  <1>10. Given(H) = Given(G) \cup {n}
    BY <1>8 DEF Given, B
  <1>11. n \in Slot \ Given(G)
    BY <1>2 DEF Given
  <1>12. G.next <= H.next
    BY <1>2, <1>8, NextIs
  <1>13. Sound(H)
    BY <1>2, <1>3, <1>8, <1>9, <1>10, <1>11, <1>12, BornSound
  <1> QED
    BY <1>1, <1>8, <1>13

LEMMA WatchSound ==
  ASSUME NEW G, Sound(G), NEW W \in SUBSET User
  PROVE  LET H == [G EXCEPT !.watch = W] IN Sound(H) /\ H.watch = W
  BY WatchedLeaving, Zenon DEF Sound

-----------------------------------------------------------------------------
(* The graph the program starts from.                                       *)

Nodes0(there) == [n \in Slot |-> IF n \in there THEN NewNode(Shape[n].ins, Shape[n].outs) ELSE Blank]
Graph0(there, pool) == [Empty(pool) EXCEPT !.born = there, !.node = Nodes0(there)]

LEMMA BlankIs ==
  /\ Blank \in Node /\ Blank.ins = <<>> /\ Blank.fan = <<>> /\ Blank.outs = <<>>
  /\ Blank.succ = {} /\ Blank.indeg = 0 /\ DOMAIN <<>> = {} /\ Len(<<>>) = 0
  BY DEF Blank, Node

LEMMA Nodes0Are ==
  ASSUME NEW there \in SUBSET User, NEW n \in Slot
  PROVE  LET r == Nodes0(there)[n]
         IN  /\ r \in Node /\ r.succ = {} /\ r.indeg = 0 /\ Len(r.fan) = Len(r.ins)
             /\ \A p \in DOMAIN r.ins : r.ins[p] = Silent
             /\ \A p \in DOMAIN r.fan : r.fan[p] = Nobody
             /\ \A p \in DOMAIN r.outs : r.outs[p] = Silent
             /\ n \notin there => r = Blank
  <1> DEFINE r == Nodes0(there)[n]
  <1>1. r = IF n \in there THEN NewNode(Shape[n].ins, Shape[n].outs) ELSE Blank
    BY DEF Nodes0
  <1> HIDE DEF r
  <1>2. CASE n \in there
    <2> DEFINE i == Shape[n].ins
               o == Shape[n].outs
    <2>1. r = NewNode(i, o) /\ i \in Nat /\ o \in Nat
      BY <1>1, <1>2, ShapeAssumption
    <2> HIDE DEF i, o
    <2>2. /\ r \in Node /\ r.succ = {} /\ r.indeg = 0 /\ Len(r.ins) = i /\ Len(r.fan) = i /\ Len(r.outs) = o
          /\ DOMAIN r.ins = 1..i /\ DOMAIN r.fan = 1..i /\ DOMAIN r.outs = 1..o
          /\ \A p \in 1..i : r.ins[p] = Silent /\ r.fan[p] = Nobody
          /\ \A p \in 1..o : r.outs[p] = Silent
      BY <2>1, NewNodeIs
    <2> QED
      BY <1>2, <2>2 DEF r
  <1>3. CASE n \notin there
    <2>1. r = Blank
      BY <1>1, <1>3
    <2> QED
      BY <2>1, BlankIs DEF r
  <1> QED
    BY <1>2, <1>3

LEMMA Graph0Is ==
  ASSUME NEW there \in SUBSET User, NEW pool \in 0..Edges
  PROVE  LET H == Graph0(there, pool)
         IN  /\ H \in Graph /\ H.node = Nodes0(there) /\ H.edge = [e \in EdgeId |-> Unused]
             /\ H.free = [e \in 1..pool |-> e] /\ H.born = there /\ H.watch = {} /\ H.pool = pool
  <1> DEFINE N == Nodes0(there)
             E == [e \in EdgeId |-> Unused]
             f == [e \in 1..pool |-> e]
             m == Min(Sums)
  <1>1. N \in [Slot -> Node]
    <2>1. N = [n \in Slot |-> N[n]]
      BY DEF Nodes0
    <2>2. \A n \in Slot : N[n] \in Node
      BY Nodes0Are
    <2> HIDE DEF N
    <2> QED
      BY <2>1, <2>2
  <1>2. E \in [EdgeId -> Edge]
    BY DEF Unused, Edge
  <1>3. f \in Seq(EdgeId)
    <2>1. pool \in Nat /\ \A e \in 1..pool : e \in EdgeId
      BY PoolAssumption DEF EdgeId
    <2>2. f \in [1..pool -> EdgeId]
      BY <2>1
    <2> HIDE DEF f
    <2> QED
      BY <2>1, <2>2, FunctionIsSeq
  <1>4. m \in Nat
    <2>1. \E x \in Sums : \A y \in Sums : x <= y
      BY SumsAssumption, LeastExists
    <2>2. m \in Sums
      BY <2>1 DEF Min
    <2> QED
      BY <2>2, SumsAssumption
  <1>5. pool \in Nat
    BY PoolAssumption
  <1> DEFINE b == [n \in Slot |-> Blank]
             R == [node |-> b, edge |-> E, free |-> f, next |-> m, born |-> {}, watch |-> {}, pool |-> pool]
             H == [R EXCEPT !.born = there, !.node = N]
  <1>6. Graph0(there, pool) = H
    BY Zenon DEF Graph0, Empty
  <1>7. b \in [Slot -> Node]
    BY BlankIs
  <1> HIDE DEF N, E, f, m, b
  <1>8. /\ R \in Graph /\ R.edge = E /\ R.free = f /\ R.watch = {} /\ R.pool = pool
    BY <1>2, <1>3, <1>4, <1>5, <1>7 DEF Graph
  <1> HIDE DEF R
  <1>9. /\ H \in Graph /\ H.node = N /\ H.edge = R.edge /\ H.free = R.free /\ H.born = there
        /\ H.watch = R.watch /\ H.pool = R.pool
    BY <1>1, <1>8 DEF Graph
  <1> HIDE DEF H
  <1> QED
    BY <1>6, <1>8, <1>9 DEF N, E, f
LEMMA Graph0Sound ==
  ASSUME NEW there \in SUBSET User, NEW pool \in 0..Edges
  PROVE  Sound(Graph0(there, pool))
  <1> DEFINE H == Graph0(there, pool)
  <1>1. /\ H \in Graph /\ H.node = Nodes0(there) /\ H.edge = [e \in EdgeId |-> Unused]
        /\ H.free = [e \in 1..pool |-> e] /\ H.born = there /\ H.watch = {} /\ H.pool = pool
    BY Graph0Is
  <1>2. \A n \in Slot : /\ H.node[n].succ = {} /\ H.node[n].indeg = 0 /\ Len(H.node[n].fan) = Len(H.node[n].ins)
                        /\ \A p \in DOMAIN H.node[n].ins : H.node[n].ins[p] = Silent
                        /\ \A p \in DOMAIN H.node[n].fan : H.node[n].fan[p] = Nobody
                        /\ \A p \in DOMAIN H.node[n].outs : H.node[n].outs[p] = Silent
                        /\ n \notin there => H.node[n] = Blank
    BY <1>1, Nodes0Are
  <1> HIDE DEF H
  <1>3. /\ Silent \notin EdgeId /\ Nobody \notin Sums /\ User \subseteq Slot /\ Sums \subseteq Slot /\ User \cap Sums = {}
        /\ pool \in Nat
    BY Constants0, PoolAssumption
  <1>4. \A e \in EdgeId : H.edge[e] = Unused /\ ~H.edge[e].used /\ H.edge[e].ref = 0
    BY <1>1 DEF Unused
  <1>5. \A e \in EdgeId : ReadersOf(H, e) = {}
    <2> SUFFICES ASSUME NEW e \in EdgeId, NEW r \in ReadersOf(H, e) PROVE FALSE
      OBVIOUS
    <2>1. r[1] \in Slot /\ r[2] \in DOMAIN H.node[r[1]].ins /\ H.node[r[1]].ins[r[2]] = e
      BY ReadersAre
    <2> QED
      BY <1>2, <1>3, <2>1
  <1>6. Pooled(H)
    <2>1. DOMAIN H.free = 1..pool /\ \A i \in 1..pool : H.free[i] = i /\ i \in EdgeId
      BY <1>1, PoolAssumption DEF EdgeId
    <2>2. Len(H.free) = pool
      <3>1. Len(H.free) \in Nat /\ DOMAIN H.free = 1..Len(H.free)
        BY <1>1 DEF Graph
      <3> QED
        BY <1>3, <2>1, <3>1, SameInterval
    <2>3. UsedEdges(H) = {}
      BY <1>4 DEF UsedEdges
    <2>4. Len(H.free) + Cardinality(UsedEdges(H)) = H.pool
      BY <1>1, <1>3, <2>2, <2>3, NoneCounted
    <2> QED
      BY <1>4, <2>1, <2>4 DEF Pooled
  <1>7. Wired(H)
    <2>1. Fed(H)
      BY <1>2, <1>3 DEF Fed
    <2>2. Owned(H)
      BY <1>2, <1>3 DEF Owned
    <2>3. Counted(H)
      BY <1>4, <1>5, NoneCounted DEF Counted
    <2> QED
      BY <1>1, <1>6, <2>1, <2>2, <2>3 DEF Wired
  <1>8. Unborn(H)
    <2> SUFFICES ASSUME NEW n \in Slot \ Given(H)
                 PROVE  /\ H.node[n].ins = <<>> /\ H.node[n].outs = <<>> /\ H.node[n].succ = {} /\ H.node[n].indeg = 0
                        /\ \A s \in Slot : n \notin H.node[s].succ
      BY DEF Unborn
    <2>1. H.node[n] = Blank
      BY <1>1, <1>2 DEF Given
    <2> QED
      BY <1>2, <2>1, BlankIs
  <1>9. Shapes(H)
    <2>1. ASSUME NEW n \in Sums
          PROVE  /\ \A p \in DOMAIN H.node[n].fan : H.node[n].fan[p] = Nobody
                 /\ Len(H.node[n].outs) <= 1 /\ ~Live(H, n)
      <3>1. H.node[n] = Blank
        BY <1>2, <1>3
      <3> QED
        BY <1>2, <1>3, <3>1, BlankIs DEF Live
    <2>2. \A n \in User : Len(H.node[n].fan) = Len(H.node[n].ins)
      BY <1>2, <1>3
    <2> QED
      BY <2>1, <2>2 DEF Shapes
  <1>10. ASSUME NEW d \in Slot, NEW p \in DOMAIN H.node[d].fan, NEW sum \in Sums PROVE H.node[d].fan[p] # sum
    BY <1>2, <1>3
  <1>11. Hosted(H)
    BY <1>3, <1>10 DEF Hosted
  <1>12. OneHost(H)
    BY <1>3, <1>10 DEF OneHost
  <1>13. ForHosts(H)
    BY <1>2, <1>3 DEF ForHosts
  <1>14. \A d \in Slot : Sources(H, d) = {}
    <2> SUFFICES ASSUME NEW d \in Slot, NEW s \in Sources(H, d) PROVE FALSE
      OBVIOUS
    <2>1. PICK p \in DOMAIN H.node[d].ins, e \in EdgeId : H.node[d].ins[p] = e
      BY <1>1, SourcesAre
    <2> QED
      BY <1>2, <1>3, <2>1
  <1>15. Acyclic(H) /\ Covered(H, Nobody)
    BY <1>14 DEF Acyclic, Covered
  <1>16. \A d \in Slot : Exact(H, Nobody, d)
    BY <1>2, <1>14, NoneCounted DEF Exact, Preds
  <1>17. Kept(H) \subseteq Slot
    BY <1>3 DEF Kept
  <1> QED
    BY <1>7, <1>8, <1>9, <1>11, <1>12, <1>13, <1>15, <1>16, <1>17 DEF Sound, Leaving, H

LEMMA StartSound ==
  ASSUME NEW setup \in Setups
  PROVE  Sound(Start(setup))
  <1> DEFINE wired == setup.wired
             N == Len(wired)
             Built == Graph0(setup.there, setup.pool)
             Wire(G, w) == IF G.next \in Sums THEN Connect(G, w[1], w[2], w[3], w[4]).g ELSE G
             D == {G \in Graph : Sound(G)}
             Rec(f) == f = [k \in 0..N |-> IF k = 0 THEN Built ELSE Wire(f[k - 1], wired[k])]
             plugged == CHOOSE f : Rec(f)
             T == {k \in 0..N : plugged[k] \in D}
  <1>1. Start(setup) = Updated(plugged[N])
    BY Zenon DEF Start, Graph0, Nodes0
  <1>2. setup.there \in SUBSET User /\ setup.pool \in 0..Edges /\ wired \in Seq(User \X Nat \X User \X Nat)
    BY SetupAssumption
  <1>3. N \in Nat /\ \A k \in 1..N : wired[k][1] \in User /\ wired[k][3] \in User
    <2>1. N \in Nat /\ \A k \in 1..N : wired[k] \in User \X Nat \X User \X Nat
      BY <1>2
    <2> QED
      BY <2>1
  <1>4. Built \in D
    <2>1. Sound(Built)
      BY <1>2, Graph0Sound
    <2> HIDE DEF Built
    <2> QED
      BY <2>1 DEF Sound, Leaving, Wired
  <1> HIDE DEF Built, N, wired
  <1>5. ASSUME NEW G \in D, NEW k \in 1..N PROVE Wire(G, wired[k]) \in D
    <2> DEFINE w == wired[k]
               C == Connect(G, w[1], w[2], w[3], w[4])
    <2>1. w[1] \in User /\ w[3] \in User
      BY <1>3
    <2> HIDE DEF w
    <2>2. CASE G.next \in Sums
      <3>1. Sound(C.g)
        BY <2>1, <2>2, ConnectSound
      <3> HIDE DEF C
      <3>2. C.g \in D
        BY <3>1 DEF Sound, Leaving, Wired
      <3> QED
        BY <2>2, <3>2 DEF C, w
    <2>3. CASE G.next \notin Sums
      BY <2>3
    <2> QED
      BY <2>2, <2>3
  <1> HIDE DEF Wire
  <1>6. Rec(plugged)
    <2> DEFINE F == [k \in 1..N |-> [G \in D |-> Wire(G, wired[k])]]
    <2>1. StaysWithin(F, N, D)
      BY <1>5 DEF StaysWithin
    <2> HIDE DEF D
    <2>2. \A k \in 1..N : \A G \in D : F[k][G] = Wire(G, wired[k])
      OBVIOUS
    <2> HIDE DEF F
    <2>3. PICK f : Iterates(f, F, Built, N, D)
      BY <1>3, <1>4, <2>1, RecursionExists
    <2>4. \A k \in 0..N : k # 0 => k \in 1..N /\ k - 1 \in 0..N /\ f[k - 1] \in D
      BY <1>3, <2>3 DEF Iterates
    <2>5. \A k \in 0..N : f[k] = IF k = 0 THEN Built ELSE Wire(f[k - 1], wired[k])
      BY <2>2, <2>3, <2>4 DEF Iterates
    <2>6. Rec(f)
      <3> DEFINE b == [k \in 0..N |-> IF k = 0 THEN Built ELSE Wire(f[k - 1], wired[k])]
      <3>1. f = [k \in 0..N |-> f[k]] /\ b = [k \in 0..N |-> b[k]]
        BY <2>3 DEF Iterates
      <3>2. \A k \in 0..N : f[k] = b[k]
        BY <2>5
      <3> HIDE DEF b
      <3>3. f = b
        BY <3>1, <3>2
      <3> QED
        BY <3>3 DEF b
    <2> HIDE DEF Rec
    <2> QED
      BY <2>6
  <1> HIDE DEF plugged, D
  <1>7. plugged[0] = Built /\ \A k \in 1..N : plugged[k] = Wire(plugged[k - 1], wired[k])
    <2>1. 0 \in 0..N /\ \A k \in 1..N : k \in 0..N /\ k # 0
      BY <1>3
    <2> QED
      BY <1>6, <2>1
  <1>8. 0 \in T
    BY <1>3, <1>4, <1>7
  <1>9. ASSUME NEW k \in 1..N, k - 1 \in T PROVE k \in T
    <2>1. k \in 0..N /\ plugged[k - 1] \in D
      BY <1>3, <1>9
    <2> QED
      BY <1>5, <1>7, <2>1
  <1>10. T = 0..N
    <2>1. T \in SUBSET (0..N)
      OBVIOUS
    <2> HIDE DEF T
    <2> QED
      BY <1>3, <1>8, <1>9, <2>1, IndexInduction
  <1>11. plugged[N] \in D
    BY <1>3, <1>10
  <1> QED
    BY <1>1, <1>11, UpdatedSound DEF D
-----------------------------------------------------------------------------
(* The invariant holds at the start, and every command and the end of a drain keep it. *)

\* The inductive invariant.
GraphInv ==
    /\ Sound(g)
    /\ orphan \in [Slot -> BOOLEAN]
    /\ changed \in BOOLEAN
    /\ Settled
    /\ Noted

LEMMA NoCommandIs == NoCommand \in Command \X Named \X BOOLEAN
  <1>1. <<>> \in Named /\ "none" \in Command
    BY DEF Named, Command
  <1> QED
    BY <1>1 DEF NoCommand

\* A block starts from nodes of the graph and runs nodes of the graph.
LEMMA PlannedIs ==
  ASSUME NEW G, NEW o
  PROVE  Planned(G, o) \in [dirty : BOOLEAN, jobs : Nat, sources : SUBSET Slot]
  <1> DEFINE jobs == {n \in Active(G, o) : G.node[n].indeg > 0 \/ \E e \in ToSet(G.node[n].outs) : e # Silent}
             n == Cardinality(jobs)
             S == {k \in jobs : G.node[k].indeg = 0}
  <1>1. jobs \subseteq Slot
    BY DEF Active
  <1>2. n \in Nat
    <2>1. IsFiniteSet(Slot)
      BY Constants0
    <2>2. IsFiniteSet(jobs)
      BY <1>1, <2>1, FS_Subset
    <2> HIDE DEF jobs
    <2> QED
      BY <2>2, FS_CardinalityType
  <1>3. S \in SUBSET Slot
    BY <1>1
  <1>4. Planned(G, o) = [dirty |-> FALSE, jobs |-> n, sources |-> S]
    BY DEF Planned
  <1> HIDE DEF n, S
  <1> QED
    BY <1>2, <1>3, <1>4

LEMMA ReachedIs ==
  ASSUME NEW G, NEW o, NEW S
  PROVE  Reached(G, o, S) \subseteq Slot
  BY DEF Reached, Active

LEMMA OrphansAre ==
  ASSUME NEW G, Sound(G)
  PROVE  LET o == Orphans(G)
         IN  /\ o \in [Slot -> BOOLEAN]
             /\ \A d \in Slot : ~o[d] => d \in Kept(G) /\ \A s \in Sources(G, d) : ~o[s]
             /\ \A n \in Sums : n >= G.next => o[n]
  <1> DEFINE A == Upstream(G, G.watch)
             B == IF DacHasInputs(G) THEN Upstream(G, {Dac}) ELSE {}
             o == [n \in Slot |-> n \notin A \cup B]
  <1>1. Orphans(G) = o
    BY DEF Orphans
  <1>2. G \in Graph /\ Shapes(G) /\ ForHosts(G) /\ Hosted(G) /\ G.watch \subseteq User
    BY DEF Sound, Leaving, Wired, Graph
  <1> DEFINE K == Kept(G)
  <1>3. K \in SUBSET Slot /\ G.watch \in SUBSET K /\ {Dac} \in SUBSET K
    BY <1>2, Constants0 DEF Kept
  <1>4. Closed(G, K)
    BY <1>2, <1>3, SourcesAreKept DEF Closed
  <1> HIDE DEF K
  <1>5. A \subseteq K /\ Closed(G, A)
    BY <1>2, <1>3, <1>4, UpstreamIs
  <1>6. B \subseteq K /\ Closed(G, B)
    <2>1. CASE DacHasInputs(G)
      <3>1. Upstream(G, {Dac}) \subseteq K /\ Closed(G, Upstream(G, {Dac}))
        BY <1>2, <1>3, <1>4, UpstreamIs
      <3> QED
        BY <2>1, <3>1
    <2>2. CASE ~DacHasInputs(G)
      BY <2>2 DEF Closed
    <2> QED
      BY <2>1, <2>2
  <1> HIDE DEF A, B
  <1>7. \A d \in Slot : ~o[d] <=> d \in A \cup B
    OBVIOUS
  <1>8. ASSUME NEW d \in Slot, ~o[d] PROVE d \in K /\ \A s \in Sources(G, d) : ~o[s]
    <2>1. d \in A \cup B
      BY <1>7, <1>8
    <2>2. d \in K /\ Sources(G, d) \subseteq A \cup B
      BY <1>5, <1>6, <2>1 DEF Closed
    <2>3. Sources(G, d) \subseteq Slot
      BY <1>2, SourcesInSlot
    <2> QED
      BY <1>7, <2>2, <2>3
  <1>9. ASSUME NEW n \in Sums, n >= G.next PROVE o[n]
    <2>1. n \in Slot /\ n \notin User /\ n \in Nat /\ G.next \in Nat
      BY <1>2, Constants0, NextIs
    <2>2. n \notin K
      <3> SUFFICES ASSUME NEW d \in User, NEW p \in DOMAIN G.node[d].fan, G.node[d].fan[p] = n PROVE FALSE
        BY <2>1 DEF K, Kept, IsHosted
      <3>1. n < G.next
        BY <1>2 DEF Hosted
      <3> QED
        BY <1>9, <2>1, <3>1
    <2> QED
      BY <1>8, <2>1, <2>2
  <1>10. o \in [Slot -> BOOLEAN]
    OBVIOUS
  <1> QED
    BY <1>1, <1>8, <1>9, <1>10 DEF K

LEMMA GraphInit == Init => GraphInv
  <1> SUFFICES ASSUME Init PROVE GraphInv
    OBVIOUS
  <1>1. PICK setup \in Setups : g = Start(setup)
    BY DEF Init
  <1>2. Sound(g)
    BY <1>1, StartSound
  <1>3. orphan = Orphans(g) /\ changed = FALSE
    BY DEF Init
  <1>4. /\ Orphans(g) \in [Slot -> BOOLEAN]
        /\ \A d \in Slot : ~Orphans(g)[d] => d \in Kept(g) /\ \A s \in Sources(g, d) : ~Orphans(g)[s]
        /\ \A n \in Sums : n >= g.next => Orphans(g)[n]
    BY <1>2, OrphansAre
  <1>5. Noted
    <2>1. plan = Planned(g, orphan) /\ ran = Reached(g, orphan, plan.sources) /\ asked = NoCommand /\ hurt = {}
      BY DEF Init
    <2>2. NoCommand \in Command \X Named \X BOOLEAN
      BY NoCommandIs
    <2>3. plan \in [dirty : BOOLEAN, jobs : Nat, sources : SUBSET Slot]
      BY <2>1, PlannedIs
    <2>4. ran \subseteq Slot
      BY <2>1, ReachedIs
    <2> QED
      BY <2>1, <2>2, <2>3, <2>4 DEF Noted
  <1> QED
    BY <1>2, <1>3, <1>4, <1>5 DEF GraphInv, Settled

\* A command keeps the invariant, if it keeps the graph sound and leaves it be when refused.
LEMMA AppliedKeeps ==
  ASSUME GraphInv, NEW op \in Command, NEW at \in Named, NEW r, Applied(op, at, r),
         Sound(r.g), r.ok \in BOOLEAN, ~r.ok => Trimmed(g, r.g)
  PROVE  GraphInv'
  <1>1. g' = r.g /\ changed' = (changed \/ r.ok) /\ orphan' = orphan
    BY DEF Applied
  <1>2. Sound(g') /\ orphan' \in [Slot -> BOOLEAN] /\ changed' \in BOOLEAN
    BY <1>1 DEF GraphInv
  <1>3. ASSUME ~changed'
        PROVE  /\ \A d \in Slot : ~orphan'[d] => d \in Kept(g') /\ \A s \in Sources(g', d) : ~orphan'[s]
               /\ \A n \in Sums : n >= g'.next => orphan'[n]
    <2>1. ~changed /\ Trimmed(g, g')
      BY <1>1, <1>3
    <2>2. /\ \A d \in Slot : ~orphan[d] => d \in Kept(g) /\ \A s \in Sources(g, d) : ~orphan[s]
          /\ \A n \in Sums : n >= g.next => orphan[n]
      BY <2>1 DEF GraphInv, Settled
    <2>3. /\ \A d \in Slot : (d \in Sums /\ d >= g.next) \/ Sources(g', d) \subseteq Sources(g, d)
          /\ Kept(g) \subseteq Kept(g') /\ g.next <= g'.next
      BY <2>1 DEF Trimmed
    <2>4. ASSUME NEW d \in Slot, ~orphan[d] PROVE d \in Kept(g') /\ \A s \in Sources(g', d) : ~orphan[s]
      BY <2>2, <2>3, <2>4
    <2>5. ASSUME NEW n \in Sums, n >= g'.next PROVE orphan[n]
      <3>1. g \in Graph /\ g' \in Graph
        BY <1>2 DEF GraphInv, Sound, Leaving, Wired
      <3>2. g.next \in Nat /\ g'.next \in Nat /\ n \in Nat
        BY <3>1, NextIs, Constants0
      <3>3. n >= g.next
        BY <2>3, <2>5, <3>2
      <3> QED
        BY <2>2, <3>3
    <2> QED
      BY <1>1, <2>4, <2>5
  <1>4. Noted'
    <2>1. plan' = plan /\ ran' = ran
      BY DEF Applied
    <2>2. asked' \in {asked, <<op, at, r.ok>>}
      BY DEF Applied
    <2>3. hurt' \in {hurt, hurt \cup CutOff(r.g)} /\ CutOff(r.g) \subseteq User
      BY DEF Applied, CutOff
    <2>4. Noted
      BY DEF GraphInv
    <2> QED
      BY <2>1, <2>2, <2>3, <2>4 DEF Noted
  <1> QED
    BY <1>2, <1>3, <1>4 DEF GraphInv, Settled

LEMMA AcceptedKeeps ==
  ASSUME GraphInv, NEW op \in Command, NEW at \in Named, NEW H, Applied(op, at, Done(H)), Sound(H)
  PROVE  GraphInv'
  <1> DEFINE r == Done(H)
  <1>1. r.g = H /\ r.ok = TRUE
    BY DEF Done
  <1> HIDE DEF r
  <1>2. Applied(op, at, r)
    BY DEF r
  <1> QED
    BY <1>1, <1>2, AppliedKeeps

LEMMA RefusedKeeps ==
  ASSUME GraphInv, NEW op \in Command, NEW at \in Named, Applied(op, at, Refused(g))
  PROVE  GraphInv'
  <1> DEFINE r == Refused(g)
  <1>1. r.g = g /\ r.ok = FALSE
    BY DEF Refused
  <1> HIDE DEF r
  <1>2. Applied(op, at, r)
    BY DEF r
  <1>3. Sound(g) /\ Trimmed(g, g)
    <2>1. g \in Graph /\ Sound(g)
      BY DEF GraphInv, Sound, Leaving, Wired
    <2> QED
      BY <2>1, TrimmedSame
  <1> QED
    BY <1>1, <1>2, <1>3, AppliedKeeps

LEMMA EndDrainKeeps == GraphInv /\ EndDrain => GraphInv'
  <1> SUFFICES ASSUME GraphInv, EndDrain PROVE GraphInv'
    OBVIOUS
  <1>1. Sound(g) /\ orphan' = Orphans(g) /\ g' = Updated(g) /\ changed' = FALSE
    BY DEF EndDrain, GraphInv
  <1> DEFINE H == Updated(g)
             o == Orphans(g)
  <1>2. /\ Sound(H) /\ H.next = g.next /\ Kept(H) = Kept(g)
        /\ \A x \in Slot : Sources(H, x) = Sources(g, x)
    BY <1>1, UpdatedSound
  <1>3. /\ o \in [Slot -> BOOLEAN]
        /\ \A d \in Slot : ~o[d] => d \in Kept(g) /\ \A s \in Sources(g, d) : ~o[s]
        /\ \A n \in Sums : n >= g.next => o[n]
    BY <1>1, OrphansAre
  <1>4. g' = H /\ orphan' = o
    BY <1>1
  <1> HIDE DEF H, o
  <1>5. Noted'
    BY DEF EndDrain, GraphInv, Noted
  <1> QED
    BY <1>1, <1>2, <1>3, <1>4, <1>5 DEF GraphInv, Settled

LEMMA RunBlockKeeps == GraphInv /\ RunBlock => GraphInv'
  <1> SUFFICES ASSUME GraphInv, RunBlock PROVE GraphInv'
    OBVIOUS
  <1>1. g' = g /\ orphan' = orphan /\ changed' = changed
    BY DEF RunBlock
  <1>2. Noted'
    <2>1. /\ plan' \in {plan, Planned(g, orphan)} /\ ran' = Reached(g, orphan, plan'.sources)
          /\ asked' = NoCommand /\ hurt' \in {{}, hurt}
      BY DEF RunBlock
    <2>2. NoCommand \in Command \X Named \X BOOLEAN
      BY NoCommandIs
    <2>3. Noted
      BY DEF GraphInv
    <2> QED
      BY <2>1, <2>2, <2>3, PlannedIs, ReachedIs DEF Noted
  <1> QED
    BY <1>1, <1>2 DEF GraphInv, Settled

LEMMA NodeCommandKeeps ==
  ASSUME GraphInv, NEW n \in User, AddNode(n) \/ RemoveNode(n) \/ AddWatch(n) \/ RemoveWatch(n)
  PROVE  GraphInv'
  <1>1. Sound(g) /\ g.watch \in SUBSET User /\ <<n>> \in Named
    <2>1. Sound(g) /\ g.watch \in SUBSET User
      BY DEF GraphInv, Sound, Leaving, Wired, Graph
    <2>2. <<n>> \in Named
      BY Constants0 DEF Named
    <2> QED
      BY <2>1, <2>2
  <1>6. "add" \in Command /\ "remove" \in Command /\ "watch" \in Command /\ "unwatch" \in Command
    BY DEF Command
  <1>2. CASE AddNode(n)
    <2> DEFINE H == [g EXCEPT !.born = @ \cup {n}, !.node[n] = NewNode(Shape[n].ins, Shape[n].outs)]
    <2>1. n \notin g.born /\ Applied("add", <<n>>, Done(H))
      BY <1>2 DEF AddNode
    <2>2. Sound(H)
      BY <1>1, <2>1, AddNodeSound, Zenon
    <2> HIDE DEF H
    <2> QED
      BY <1>1, <1>6, <2>1, <2>2, AcceptedKeeps
  <1>3. CASE RemoveNode(n)
    <2>1. Applied("remove", <<n>>, Done(DeleteNode(g, n)))
      BY <1>3 DEF RemoveNode
    <2>2. Sound(DeleteNode(g, n))
      BY <1>1, DeleteSound
    <2> QED
      BY <1>1, <1>6, <2>1, <2>2, AcceptedKeeps
  <1>4. CASE AddWatch(n)
    <2> DEFINE W == g.watch \cup {n}
               H == [g EXCEPT !.watch = W]
    <2>1. Applied("watch", <<n>>, Done(H))
      BY <1>4 DEF AddWatch
    <2>2. W \in SUBSET User
      BY <1>1
    <2> HIDE DEF W
    <2>3. Sound(H)
      BY <1>1, <2>2, WatchSound
    <2> HIDE DEF H
    <2> QED
      BY <1>1, <1>6, <2>1, <2>3, AcceptedKeeps
  <1>5. CASE RemoveWatch(n)
    <2>1. CASE n \in g.watch
      <3> DEFINE W == g.watch \ {n}
                 H == [g EXCEPT !.watch = W]
      <3>1. Applied("unwatch", <<n>>, Done(H))
        BY <1>5, <2>1 DEF RemoveWatch
      <3>2. W \in SUBSET User
        BY <1>1
      <3> HIDE DEF W
      <3>3. Sound(H)
        BY <1>1, <3>2, WatchSound
      <3> HIDE DEF H
      <3> QED
        BY <1>1, <1>6, <3>1, <3>3, AcceptedKeeps
    <2>2. CASE n \notin g.watch
      <3>1. Applied("unwatch", <<n>>, Refused(g))
        BY <1>5, <2>2 DEF RemoveWatch
      <3> QED
        BY <1>1, <1>6, <3>1, RefusedKeeps
    <2> QED
      BY <2>1, <2>2
  <1> QED
    BY <1>2, <1>3, <1>4, <1>5

LEMMA PortCommandKeeps ==
  ASSUME GraphInv, NEW s \in User, NEW d \in User, NEW sp \in 1..Shape[s].outs, NEW dp \in 1..Shape[d].ins,
         ConnectPorts(s, sp, d, dp) \/ DisconnectPorts(s, sp, d, dp)
  PROVE  GraphInv'
  <1> DEFINE at == <<s, sp, d, dp>>
  <1>1. Sound(g)
    BY DEF GraphInv
  <1>4. at \in Named
    <2>1. s \in Nat /\ sp \in Nat /\ d \in Nat /\ dp \in Nat
      BY ShapeAssumption
    <2> QED
      BY <2>1 DEF Named
  <1>5. "connect" \in Command /\ "disconnect" \in Command
    BY DEF Command
  <1>2. CASE ConnectPorts(s, sp, d, dp)
    <2> DEFINE c == Connect(g, s, sp, d, dp)
    <2>1. g.next \in Sums /\ Applied("connect", at, c)
      BY <1>2 DEF ConnectPorts
    <2>2. Sound(c.g) /\ c.ok \in BOOLEAN /\ (~c.ok => Trimmed(g, c.g))
      BY <1>1, <2>1, ConnectSound
    <2> HIDE DEF c, at
    <2> QED
      BY <1>4, <1>5, <2>1, <2>2, AppliedKeeps
  <1>3. CASE DisconnectPorts(s, sp, d, dp)
    <2> DEFINE c == Disconnect(g, s, sp, d, dp)
    <2>1. Applied("disconnect", at, c)
      BY <1>3 DEF DisconnectPorts
    <2>2. Sound(c.g) /\ c.ok \in BOOLEAN /\ (~c.ok => Trimmed(g, c.g))
      BY <1>1, DisconnectSound
    <2> HIDE DEF c, at
    <2> QED
      BY <1>4, <1>5, <2>1, <2>2, AppliedKeeps
  <1> QED
    BY <1>2, <1>3

LEMMA GraphNext == GraphInv /\ [Next]_vars => GraphInv'
  <1> SUFFICES ASSUME GraphInv, [Next]_vars PROVE GraphInv'
    OBVIOUS
  <1>1. CASE EndDrain
    BY <1>1, EndDrainKeeps
  <1>2. CASE \E n \in User : AddNode(n) \/ RemoveNode(n) \/ AddWatch(n) \/ RemoveWatch(n)
    BY <1>2, NodeCommandKeeps
  <1>3. CASE \E s, d \in User : \E sp \in 1..Shape[s].outs, dp \in 1..Shape[d].ins :
                ConnectPorts(s, sp, d, dp) \/ DisconnectPorts(s, sp, d, dp)
    BY <1>3, PortCommandKeeps
  <1>4. CASE RunBlock
    BY <1>4, RunBlockKeeps
  <1>5. CASE UNCHANGED vars
    <2>1. g' = g /\ orphan' = orphan /\ changed' = changed
      BY <1>5 DEF vars
    <2>2. Noted'
      BY <1>5 DEF vars, GraphInv, Noted
    <2> QED
      BY <2>1, <2>2 DEF GraphInv, Settled
  <1> QED
    BY <1>1, <1>2, <1>3, <1>4, <1>5 DEF Next

\* The invariant holds in every reachable state.
THEOREM GraphInvHolds == Spec => []GraphInv
  BY GraphInit, GraphNext, PTL DEF Spec

-----------------------------------------------------------------------------
(* What the runs check.                                                     *)

\* The graph, the marks of what runs and the pending flag keep the shape that graph_edit.c gives
\* them, whatever commands a drain applies: ids stay in the pool and the node array, counts of
\* readers and predecessors never go below zero.
THEOREM TypeCorrect == Spec => []TypeOK
  <1>1. GraphInv => TypeOK
    <2> SUFFICES ASSUME GraphInv PROVE TypeOK
      OBVIOUS
    <2>1. g \in Graph /\ orphan \in [Slot -> BOOLEAN] /\ changed \in BOOLEAN
      BY DEF GraphInv, Sound, Leaving, Wired
    <2>2. /\ g.node \in [Slot -> Node] /\ g.edge \in [EdgeId -> Edge]
          /\ g.free \in Seq(EdgeId) /\ g.watch \subseteq User
      BY <2>1 DEF Graph
    <2>3. Noted
      BY DEF GraphInv
    <2> QED
      BY <2>1, <2>2, <2>3 DEF TypeOK, Node, Edge, Noted, Named
  <1> QED
    BY <1>1, GraphInvHolds, PTL

\* No input is left reading a buffer that was given back to the pool: whatever was connected,
\* summed, collapsed and deleted, every edge an input reads is in use and its noted port writes it.
THEOREM InputsAreFed == Spec => []InputsHaveProducers
  <1>1. GraphInv => InputsHaveProducers
    <2> SUFFICES ASSUME GraphInv, NEW d \in Slot, NEW e \in ToSet(g.node[d].ins) \ {Silent}
                 PROVE  LET edge == g.edge[e]
                        IN  /\ edge.used /\ Live(g, edge.src)
                            /\ edge.port \in DOMAIN g.node[edge.src].outs
                            /\ g.node[edge.src].outs[edge.port] = e
      BY DEF InputsHaveProducers
    <2>1. g \in Graph /\ Fed(g)
      BY DEF GraphInv, Sound, Leaving, Wired
    <2>2. PICK p \in DOMAIN g.node[d].ins : g.node[d].ins[p] = e
      BY DEF ToSet
    <2>3. e \in EdgeId
      BY <2>1, <2>2, PortsOf
    <2>4. Written(g, e)
      BY <2>1, <2>2, <2>3 DEF Fed
    <2> DEFINE s == g.edge[e].src
    <2>5. /\ g.edge[e].used /\ s \in Slot
          /\ g.edge[e].port \in DOMAIN g.node[s].outs /\ g.node[s].outs[g.edge[e].port] = e
      BY <2>4 DEF Written
    <2> HIDE DEF s
    <2>6. Live(g, s)
      <3>1. Len(g.node[s].outs) # 0
        BY <2>1, <2>5, PortsOf
      <3> QED
        BY <2>1, <2>5, <3>1, EmptyIs
    <2> QED
      BY <2>5, <2>6 DEF s
  <1> QED
    BY <1>1, GraphInvHolds, PTL

\* A sequence without repetition is as long as what it holds.
LEMMA OnceEachCounts ==
  ASSUME NEW S, NEW q \in Seq(S), \A i, j \in DOMAIN q : q[i] = q[j] => i = j
  PROVE  Len(q) = Cardinality(ToSet(q))
  <1>1. Len(q) \in Nat /\ DOMAIN q = 1..Len(q)
    OBVIOUS
  <1>2. q \in [1..Len(q) -> ToSet(q)] /\ \A t \in ToSet(q) : \E i \in 1..Len(q) : q[i] = t
    BY <1>1 DEF ToSet
  <1>3. q \in Bijection(1..Len(q), ToSet(q))
    BY <1>1, <1>2 DEF Bijection, Injection, IsInjective, Surjection
  <1> QED
    BY <1>1, <1>3, FS_CountingElements DEF ExistsBijection

\* The pool of edges is never corrupted: no edge goes back while an input reads it, none is on
\* the free list twice or while in use, and free and used edges together stay all there are.
THEOREM PoolStaysSound == Spec => []PoolIsSound
  <1>1. GraphInv => PoolIsSound
    <2> SUFFICES ASSUME GraphInv PROVE PoolIsSound
      OBVIOUS
    <2>1. g \in Graph /\ Counted(g) /\ Pooled(g)
      BY DEF GraphInv, Sound, Leaving, Wired
    <2>2. g.free \in Seq(EdgeId)
      BY <2>1 DEF Graph
    <2>3. Len(g.free) = Cardinality(ToSet(g.free))
      BY <2>1, <2>2, OnceEachCounts DEF Pooled
    <2>4. \A e \in ToSet(g.free) : ~g.edge[e].used
      BY <2>1 DEF Pooled, ToSet
    <2>5. Len(g.free) + Cardinality({e \in EdgeId : g.edge[e].used}) = g.pool
      BY <2>1 DEF Pooled, UsedEdges
    <2> QED
      BY <2>1, <2>3, <2>4, <2>5 DEF PoolIsSound, Counted
  <1> QED
    BY <1>1, GraphInvHolds, PTL

\* The check for cycles never misses a connection, in the middle of a drain either; and between
\* drains a node that is not orphaned counts each of its producers once and none of them is an
\* orphan, so that no block starts it early.
THEOREM LinksAgree == Spec => []LinksFollowEdges
  <1>1. GraphInv => LinksFollowEdges
    <2> SUFFICES ASSUME GraphInv PROVE LinksFollowEdges
      OBVIOUS
    <2>1. /\ Covered(g, Nobody) /\ Settled /\ g \in Graph
          /\ \A d \in Kept(g) : Exact(g, Nobody, d)
      BY DEF GraphInv, Sound, Leaving, Wired
    <2>2. \A d \in Slot : \A s \in Sources(g, d) : d \in g.node[s].succ
      BY <2>1, Constants0 DEF Covered
    <2>3. ASSUME ~changed, NEW d \in Slot, ~orphan[d]
          PROVE  /\ g.node[d].indeg = Cardinality(Sources(g, d))
                 /\ \A s \in Sources(g, d) : ~orphan[s]
      <3>1. d \in Kept(g) /\ \A s \in Sources(g, d) : ~orphan[s]
        BY <2>1, <2>3 DEF Settled
      <3> QED
        BY <2>1, <3>1 DEF Exact
    <2> QED
      BY <2>2, <2>3 DEF LinksFollowEdges
  <1> QED
    BY <1>1, GraphInvHolds, PTL

\* Nothing that the commands of a drain do, in whatever order and however often they add, share,
\* sum, collapse and delete, ever closes a cycle, so that every block can run to its end.
THEOREM NeverACycle == Spec => []NoCycles
  <1>1. GraphInv => NoCycles
    <2> SUFFICES ASSUME GraphInv, NEW d \in Slot, d \in Upstream(g, Sources(g, d)) PROVE FALSE
      BY DEF NoCycles
    <2>1. g \in Graph /\ Acyclic(g)
      BY DEF GraphInv, Sound, Leaving, Wired
    <2> DEFINE Up(n) == Upstream(g, {n})
               X == {n \in Slot : d \in Up(n)}
    <2>2. \A n \in Slot : Sources(g, n) \in SUBSET Slot
      BY <2>1, SourcesInSlot
    <2>3. Slot \in SUBSET Slot /\ Closed(g, Slot)
      BY <2>2 DEF Closed
    <2>4. \A n \in Slot : Up(n) \subseteq Slot /\ n \in Up(n) /\ Closed(g, Up(n))
      BY <2>1, <2>3, UpstreamIs
    <2>5. \A K \in SUBSET Slot : \A Y \in SUBSET K : Closed(g, K) => Upstream(g, Y) \subseteq K
      BY <2>1, UpstreamIs
    <2> HIDE DEF Up
    <2>6. ASSUME NEW n \in X PROVE Sources(g, n) \cap X # {}
      <3> DEFINE Q == UNION {Up(m) : m \in Sources(g, n)}
      <3>1. Q \in SUBSET Slot /\ Sources(g, n) \in SUBSET Q /\ Closed(g, Q)
        BY <2>2, <2>4 DEF Closed
      <3>2. CASE n = d
        <4> HIDE DEF Q
        <4>1. d \in Q
          BY <2>5, <3>1, <3>2
        <4> QED
          BY <2>2, <4>1 DEF Q
      <3>3. CASE n # d
        <4> DEFINE K == Q \cup {n}
        <4>1. K \in SUBSET Slot /\ {n} \in SUBSET K /\ Closed(g, K)
          BY <3>1 DEF Closed
        <4> HIDE DEF K
        <4>2. d \in K
          BY <2>5, <4>1 DEF Up
        <4>3. d \in Q
          BY <3>3, <4>2 DEF K
        <4> QED
          BY <2>2, <4>3
      <3> QED
        BY <3>2, <3>3
    <2>7. d \in X
      BY <2>4
    <2> QED
      BY <2>1, <2>6, <2>7 DEF Acyclic
  <1> QED
    BY <1>1, GraphInvHolds, PTL
=============================================================================
