--------------------------- MODULE MCEventPipeline ---------------------------
(* Model-checking instances of EventPipeline. *)
EXTENDS EventPipeline

Ops(t, s, d, l) == [toggle |-> t, switch |-> s, delete |-> d, live |-> l]
Setup(ops, room, time, punctual) ==
  [ops |-> ops, room |-> room, time |-> time, punctual |-> punctual]

\* Starts, stops and a switch with a scheduler that may be late; a live note and
\* a switch in its horizon; a deletion, with a queue that overflows.
EverySetup == {Setup(Ops(3, 1, 0, 0), 8, 6, FALSE),
               Setup(Ops(2, 1, 0, 1), 8, 6, TRUE),
               Setup(Ops(1, 0, 1, 0), 1, 2, FALSE)}
OneLiveNote == {Setup(Ops(1, 0, 0, 1), 8, 6, TRUE)}
OneDeletion == {Setup(Ops(1, 0, 1, 0), 8, 6, TRUE)}
=============================================================================
