----------------------------- MODULE MCMpmcQueue -----------------------------
(* Model-checking instance of MpmcQueue. *)
EXTENDS MpmcQueue, TLC

Symmetry == Permutations(Threads) \cup Permutations(Values)
=============================================================================
