------------------------------ MODULE EventFifo ------------------------------
(***************************************************************************)
(* What the event queue promises: events come out once, in the order in    *)
(* which they went in, and at most Room of them are in the queue.          *)
(***************************************************************************)
EXTENDS Naturals, Sequences

CONSTANTS Events, Room

VARIABLES pushed,   \* the events pushed so far
          popped    \* the events popped so far

vars == <<pushed, popped>>

Init == /\ pushed = << >>
        /\ popped = << >>

Push(e) == /\ Len(pushed) - Len(popped) < Room
           /\ pushed' = Append(pushed, e)
           /\ UNCHANGED popped

Pop == /\ Len(popped) < Len(pushed)
       /\ popped' = Append(popped, pushed[Len(popped) + 1])
       /\ UNCHANGED pushed

Next == (\E e \in Events : Push(e)) \/ Pop

Spec == Init /\ [][Next]_vars
=============================================================================
