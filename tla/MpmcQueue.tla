------------------------------ MODULE MpmcQueue ------------------------------
(***************************************************************************)
(* The lock-free ring of ready nodes (audiograph/mpmc_queue.h): a bounded  *)
(* multi-producer multi-consumer queue in which every cell carries a       *)
(* sequence number.  A thread owns a cell from its successful              *)
(* compare-and-swap of the cursor to its store of the cell's sequence.     *)
(*                                                                         *)
(* One action per atomic access of the code.  The cursors are the 64-bit   *)
(* counters of the code, which no run of the program makes wrap;           *)
(* MaxPos bounds them, so that TLC's state space is finite.                *)
(***************************************************************************)
EXTENDS Integers, Sequences

CONSTANTS Threads,    \* threads that push and pop
          Values,     \* node ids
          Capacity,   \* number of cells (mask + 1)
          MaxPos      \* bound on the cursors

ASSUME CapacityAssumption == Capacity \in Nat /\ Capacity >= 2
ASSUME MaxPosAssumption == MaxPos \in Nat
ASSUME ValuesAssumption == Values # {}

VARIABLES head,    \* producer cursor
          tail,    \* consumer cursor
          seq,     \* sequence number of each cell
          value,   \* payload of each cell
          pc,      \* what each thread does next
          pos,     \* the local variable pos of mpmc_push and mpmc_pop
          arg,     \* mpmc_push: the value to push; mpmc_pop: the value read
          log      \* history: the value pushed at each claimed position

vars == <<head, tail, seq, value, pc, pos, arg, log>>

Cells == 0 .. Capacity - 1
Cell(p) == p % Capacity

PushPcs == {"pushSeq", "pushCas", "pushWrite", "pushPublish"}
PopPcs == {"popSeq", "popCas", "popRead", "popRelease"}
Pcs == {"idle"} \cup PushPcs \cup PopPcs

Init == /\ head = 0
        /\ tail = 0
        /\ seq = [c \in Cells |-> c]
        /\ value \in [Cells -> Values]      \* malloc leaves the payload unset
        /\ pc = [t \in Threads |-> "idle"]
        /\ pos = [t \in Threads |-> 0]
        /\ arg \in [Threads -> Values]
        /\ log = << >>

Goto(t, l) == pc' = [pc EXCEPT ![t] = l]

-----------------------------------------------------------------------------
(* mpmc_push *)

PushLoadHead(t, v) ==
  /\ pc[t] = "idle"
  /\ pos' = [pos EXCEPT ![t] = head]
  /\ arg' = [arg EXCEPT ![t] = v]
  /\ Goto(t, "pushSeq")
  /\ UNCHANGED <<head, tail, seq, value, log>>

\* Mutant of PushLoadSeq: a full ring is not noticed.
PushIgnoresFull(t) ==
  LET dif == seq[Cell(pos[t])] - pos[t] IN
  /\ pc[t] = "pushSeq"
  /\ \/ dif <= 0 /\ Goto(t, "pushCas") /\ UNCHANGED pos
     \/ dif > 0 /\ pos' = [pos EXCEPT ![t] = head] /\ UNCHANGED pc
  /\ UNCHANGED <<head, tail, seq, value, arg, log>>

PushLoadSeq(t) ==
  LET dif == seq[Cell(pos[t])] - pos[t] IN
  /\ pc[t] = "pushSeq"
  /\ \/ dif = 0 /\ Goto(t, "pushCas") /\ UNCHANGED pos
     \/ dif < 0 /\ Goto(t, "idle") /\ UNCHANGED pos                    \* full
     \/ dif > 0 /\ pos' = [pos EXCEPT ![t] = head] /\ UNCHANGED pc
  /\ UNCHANGED <<head, tail, seq, value, arg, log>>

\* The weak compare-and-swap loads the cursor when it fails, and may fail
\* although the cursor is the expected one.
PushCas(t) ==
  /\ pc[t] = "pushCas"
  /\ \/ /\ head = pos[t]
        /\ head < MaxPos
        /\ head' = head + 1
        /\ log' = Append(log, arg[t])
        /\ Goto(t, "pushWrite")
        /\ UNCHANGED pos
     \/ /\ pos' = [pos EXCEPT ![t] = head]
        /\ Goto(t, "pushSeq")
        /\ UNCHANGED <<head, log>>
  /\ UNCHANGED <<tail, seq, value, arg>>

PushWrite(t) ==
  /\ pc[t] = "pushWrite"
  /\ value' = [value EXCEPT ![Cell(pos[t])] = arg[t]]
  /\ Goto(t, "pushPublish")
  /\ UNCHANGED <<head, tail, seq, pos, arg, log>>

\* Mutant of PushPublish: the cursor is read again instead of the claimed position.
PushPublishAtHead(t) ==
  /\ pc[t] = "pushPublish"
  /\ seq' = [seq EXCEPT ![Cell(pos[t])] = head + 1]
  /\ Goto(t, "idle")
  /\ UNCHANGED <<head, tail, value, pos, arg, log>>

PushPublish(t) ==
  /\ pc[t] = "pushPublish"
  /\ seq' = [seq EXCEPT ![Cell(pos[t])] = pos[t] + 1]
  /\ Goto(t, "idle")
  /\ UNCHANGED <<head, tail, value, pos, arg, log>>

-----------------------------------------------------------------------------
(* mpmc_pop *)

PopLoadTail(t) ==
  /\ pc[t] = "idle"
  /\ pos' = [pos EXCEPT ![t] = tail]
  /\ Goto(t, "popSeq")
  /\ UNCHANGED <<head, tail, seq, value, arg, log>>

\* Mutant of PopLoadSeq: off by one, a free cell passes for a filled one.
PopSeesFreeCell(t) ==
  LET dif == seq[Cell(pos[t])] - pos[t] IN
  /\ pc[t] = "popSeq"
  /\ \/ dif = 0 /\ Goto(t, "popCas") /\ UNCHANGED pos
     \/ dif < 0 /\ Goto(t, "idle") /\ UNCHANGED pos
     \/ dif > 0 /\ pos' = [pos EXCEPT ![t] = tail] /\ UNCHANGED pc
  /\ UNCHANGED <<head, tail, seq, value, arg, log>>

PopLoadSeq(t) ==
  LET dif == seq[Cell(pos[t])] - (pos[t] + 1) IN
  /\ pc[t] = "popSeq"
  /\ \/ dif = 0 /\ Goto(t, "popCas") /\ UNCHANGED pos
     \/ dif < 0 /\ Goto(t, "idle") /\ UNCHANGED pos                    \* empty
     \/ dif > 0 /\ pos' = [pos EXCEPT ![t] = tail] /\ UNCHANGED pc
  /\ UNCHANGED <<head, tail, seq, value, arg, log>>

PopCas(t) ==
  /\ pc[t] = "popCas"
  /\ \/ tail = pos[t] /\ tail' = tail + 1 /\ Goto(t, "popRead") /\ UNCHANGED pos
     \/ pos' = [pos EXCEPT ![t] = tail] /\ Goto(t, "popSeq") /\ UNCHANGED tail
  /\ UNCHANGED <<head, seq, value, arg, log>>

\* Mutant of PopRead: the cursor is read again instead of the claimed position.
PopReadAtTail(t) ==
  /\ pc[t] = "popRead"
  /\ arg' = [arg EXCEPT ![t] = value[Cell(tail)]]
  /\ Goto(t, "popRelease")
  /\ UNCHANGED <<head, tail, seq, value, pos, log>>

PopRead(t) ==
  /\ pc[t] = "popRead"
  /\ arg' = [arg EXCEPT ![t] = value[Cell(pos[t])]]
  /\ Goto(t, "popRelease")
  /\ UNCHANGED <<head, tail, seq, value, pos, log>>

\* Mutant of PopRelease: the cell is handed back to the lap before.
PopReleaseBackwards(t) ==
  /\ pc[t] = "popRelease"
  /\ seq' = [seq EXCEPT ![Cell(pos[t])] = pos[t] - Capacity]
  /\ Goto(t, "idle")
  /\ UNCHANGED <<head, tail, value, pos, arg, log>>

PopRelease(t) ==
  /\ pc[t] = "popRelease"
  /\ seq' = [seq EXCEPT ![Cell(pos[t])] = pos[t] + Capacity]
  /\ Goto(t, "idle")
  /\ UNCHANGED <<head, tail, value, pos, arg, log>>

-----------------------------------------------------------------------------
Push(t) == PushLoadSeq(t) \/ PushCas(t) \/ PushWrite(t) \/ PushPublish(t)
Pop(t) == PopLoadTail(t) \/ PopLoadSeq(t) \/ PopCas(t) \/ PopRead(t) \/ PopRelease(t)

Next == \E t \in Threads : (\E v \in Values : PushLoadHead(t, v)) \/ Push(t) \/ Pop(t)

Spec == Init /\ [][Next]_vars

-----------------------------------------------------------------------------
(* Properties *)

TypeOK == /\ head \in Nat /\ tail \in Nat
          /\ seq \in [Cells -> Nat]
          /\ value \in [Cells -> Values]
          /\ pc \in [Threads -> Pcs]
          /\ pos \in [Threads -> Nat]
          /\ arg \in [Threads -> Values]
          /\ log \in Seq(Values)

Owns(t) == pc[t] \in {"pushWrite", "pushPublish", "popRead", "popRelease"}

\* No two threads are ever between their claim of a cell and its hand-over for
\* the same cell: the unsynchronised accesses of cell->value (lines 91 and
\* 117) cannot race, in whatever order the threads' loads of the sequence
\* number, compare-and-swaps and stores interleave.
NoCellRace ==
  \A t, u \in Threads :
    (t # u /\ Owns(t) /\ Owns(u)) => Cell(pos[t]) # Cell(pos[u])

\* The value a pop returns is the one pushed at the position the pop claimed:
\* nothing is lost, torn, duplicated or overtaken when producers lap the ring.
PopsWhatWasPushed ==
  \A t \in Threads : pc[t] = "popRelease" =>
    /\ pos[t] < Len(log)
    /\ arg[t] = log[pos[t] + 1]

\* The cursors never cross and never lap each other by more than the ring.
CursorsInOrder == tail <= head /\ head <= tail + Capacity

-----------------------------------------------------------------------------
(* The inductive invariant *)

\* A cell whose sequence number maps to it awaits the push of that position;
\* any other holds, or lends to a reader, the value of the position before.
CellInv(c) ==
  \/ /\ Cell(seq[c]) = c
     /\ \/ head <= seq[c] /\ seq[c] < tail + Capacity
        \/ tail <= seq[c] /\ seq[c] < head /\ head <= seq[c] + Capacity
  \/ /\ seq[c] >= 1
     /\ Cell(seq[c] - 1) = c
     /\ seq[c] - 1 < head
     /\ head <= seq[c] - 1 + Capacity
     /\ value[c] = log[seq[c]]

WriterInv(t) ==
  pc[t] \in {"pushWrite", "pushPublish"} =>
    /\ seq[Cell(pos[t])] = pos[t]
    /\ tail <= pos[t]
    /\ pos[t] < head
    /\ arg[t] = log[pos[t] + 1]
    /\ pc[t] = "pushPublish" => value[Cell(pos[t])] = arg[t]

ReaderInv(t) ==
  pc[t] \in {"popRead", "popRelease"} =>
    /\ seq[Cell(pos[t])] = pos[t] + 1
    /\ pos[t] < tail
    /\ pc[t] = "popRelease" => arg[t] = log[pos[t] + 1]

\* What a thread saw in the cell still holds if the cursor has not moved.
SawInv(t) ==
  /\ pc[t] \in {"pushSeq", "pushCas"} => pos[t] <= head
  /\ pc[t] \in {"popSeq", "popCas"} => pos[t] <= tail
  /\ (pc[t] = "pushCas" /\ head = pos[t]) => seq[Cell(pos[t])] = pos[t]
  /\ (pc[t] = "popCas" /\ tail = pos[t]) => seq[Cell(pos[t])] = pos[t] + 1

\* Owners hold different positions, whichever half of the hand-over they are in.
ClaimsDiffer ==
  \A t, u \in Threads : (t # u /\ Owns(t) /\ Owns(u)) => pos[t] # pos[u]

IInv == /\ TypeOK
        /\ Len(log) = head
        /\ CursorsInOrder
        /\ \A c \in Cells : CellInv(c)
        /\ \A t \in Threads : WriterInv(t) /\ ReaderInv(t) /\ SawInv(t)
        /\ ClaimsDiffer
=============================================================================
