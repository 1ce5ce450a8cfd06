---------------------------- MODULE MCEventQueue -----------------------------
(* Model-checking instances of EventQueue: the callback and the scheduler pop. *)
EXTENDS EventQueue, TLC

CONSTANT audio

BothThreads == {audio, Scheduler}
=============================================================================
