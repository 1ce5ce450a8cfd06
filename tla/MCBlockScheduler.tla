--------------------------- MODULE MCBlockScheduler --------------------------
(* Model-checking instances of BlockScheduler. *)
EXTENDS BlockScheduler, TLC

CONSTANTS a, b, c, d

\* A diamond, a fan of three into one, one into three,
\* a branch that goes on, chains, and no job at all.
Diamond == a :> {} @@ b :> {a} @@ c :> {a} @@ d :> {b, c}
Fan == a :> {} @@ b :> {} @@ c :> {} @@ d :> {a, b, c}
Spray == a :> {} @@ b :> {a} @@ c :> {a} @@ d :> {a}
Branch == a :> {} @@ b :> {a} @@ c :> {a} @@ d :> {b}
Vee == a :> {} @@ b :> {a} @@ c :> {a}
Pair == a :> {} @@ b :> {a}
Empty == [n \in {} |-> {}]

\* Graphs the edits should never build: some job, or every job, waits for itself.
Knot == a :> {} @@ b :> {a, c} @@ c :> {b}
Loop == a :> {b} @@ b :> {a}

LargeGraphs == {Diamond, Fan, Spray, Branch, Knot}
EveryGraph == LargeGraphs \cup {Vee, Pair, Empty, Loop}

Setup(graphs, lengths, perWorker) ==
  [graphs |-> graphs, frames |-> lengths, jobsPerWorker |-> perWorker]

\* Blocks large enough for workers, of one length over many graphs and of two
\* lengths over one; and blocks too small for workers.
EverySetup == {Setup(LargeGraphs, {64}, 2), Setup({Diamond}, {32, 64}, 2),
               Setup(EveryGraph, {32, 64}, 5)}
\* Blocks with workers and blocks without, in turn.
MixedSetup == {Setup({Diamond, Pair}, {64}, 3)}
=============================================================================
