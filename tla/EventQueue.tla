----------------------------- MODULE EventQueue ------------------------------
(***************************************************************************)
(* The ring that carries scheduled events from the scheduler thread to the *)
(* audio callback (src/scheduled_event.rs), one action per atomic access.  *)
(* The indices wrap at Capacity, as in the code, so the queue holds        *)
(* Capacity - 1 events.                                                    *)
(*                                                                         *)
(* Only the scheduler pushes.  Poppers are the threads that pop: the audio *)
(* callback does, and clear, which both threads call, is a run of pops     *)
(* until the queue is empty.  A thread is in one call at a time.           *)
(*                                                                         *)
(* A pop that ends while another thread is inside a pop leaves that thread *)
(* with a head that is out of date: the two clash.  The ring is a FIFO     *)
(* until then and not afterwards, and the history says which it is.        *)
(***************************************************************************)
EXTENDS Integers, Sequences

CONSTANTS Events,      \* the events
          Unset,       \* content of a slot never written
          Capacity,    \* number of slots (4096 in the code)
          Scheduler,   \* the thread that pushes
          Poppers,     \* threads that pop or clear
          MaxPushes    \* bound on the pushes of a behaviour

ASSUME CapacityAssumption == Capacity \in Nat /\ Capacity >= 2
ASSUME EventsAssumption == Unset \notin Events
ASSUME MaxPushesAssumption == MaxPushes \in Nat

VARIABLES slots,     \* the slots of the ring
          head,      \* index of the next slot to read
          tail,      \* index of the next slot to write
          ppc,       \* where the scheduler is in push
          event,     \* push: its argument
          wtail,     \* push: the tail it loaded
          cpc,       \* where each popper is in pop
          rhead,     \* pop: the head it loaded
          read,      \* pop: the event it read
          pushed,    \* history: the events pushed
          popped,    \* history: the events popped
          clashed    \* history: a pop has ended inside another

vars == <<slots, head, tail, ppc, event, wtail, cpc, rhead, read, pushed, popped,
          clashed>>
history == <<pushed, popped, clashed>>
pushVars == <<ppc, event, wtail>>
popVars == <<cpc, rhead, read>>

Slots == 0 .. Capacity - 1

\* Mutant of next_index: the index does not wrap.
NextWithoutWrap(i) == i + 1

next_index(i) == (i + 1) % Capacity

Init == /\ slots = [s \in Slots |-> Unset]
        /\ head = 0
        /\ tail = 0
        /\ ppc = "idle"
        /\ event = Unset
        /\ wtail = 0
        /\ cpc = [t \in Poppers |-> "idle"]
        /\ rhead = [t \in Poppers |-> 0]
        /\ read = [t \in Poppers |-> Unset]
        /\ pushed = << >>
        /\ popped = << >>
        /\ clashed = FALSE

-----------------------------------------------------------------------------
(* push *)

Popping(t) == t \in Poppers /\ cpc[t] # "idle"

PushLoadTail(e) ==
  /\ ppc = "idle"
  /\ ~ Popping(Scheduler)
  /\ Len(pushed) < MaxPushes
  /\ event' = e
  /\ wtail' = tail
  /\ ppc' = "loadHead"
  /\ UNCHANGED <<slots, head, tail, popVars, history>>

\* Mutant of PushLoadHead: a full queue is not noticed.
PushIgnoresFull ==
  /\ ppc = "loadHead"
  /\ ppc' = "write"
  /\ UNCHANGED <<slots, head, tail, event, wtail, popVars, history>>

\* The queue is full when one more event would make it look empty.
PushLoadHead ==
  /\ ppc = "loadHead"
  /\ ppc' = IF next_index(wtail) = head THEN "idle" ELSE "write"
  /\ UNCHANGED <<slots, head, tail, event, wtail, popVars, history>>

PushWrite ==
  /\ ppc = "write"
  /\ slots' = [slots EXCEPT ![wtail] = event]
  /\ ppc' = "publish"
  /\ UNCHANGED <<head, tail, event, wtail, popVars, history>>

PushPublish ==
  /\ ppc = "publish"
  /\ tail' = next_index(wtail)
  /\ pushed' = Append(pushed, event)
  /\ ppc' = "idle"
  /\ UNCHANGED <<slots, head, event, wtail, popVars, popped, clashed>>

-----------------------------------------------------------------------------
(* pop *)

Goto(t, l) == cpc' = [cpc EXCEPT ![t] = l]

PopLoadHead(t) ==
  /\ cpc[t] = "idle"
  /\ t = Scheduler => ppc = "idle"
  /\ rhead' = [rhead EXCEPT ![t] = head]
  /\ Goto(t, "loadTail")
  /\ UNCHANGED <<slots, head, tail, pushVars, read, history>>

\* Mutant of PopLoadTail: the check for an empty queue is missing.
PopNeverEmpty(t) ==
  /\ cpc[t] = "loadTail"
  /\ Goto(t, "read")
  /\ UNCHANGED <<slots, head, tail, pushVars, rhead, read, history>>

PopLoadTail(t) ==
  /\ cpc[t] = "loadTail"
  /\ Goto(t, IF rhead[t] = tail THEN "idle" ELSE "read")
  /\ UNCHANGED <<slots, head, tail, pushVars, rhead, read, history>>

PopRead(t) ==
  /\ cpc[t] = "read"
  /\ read' = [read EXCEPT ![t] = slots[rhead[t]]]
  /\ Goto(t, "release")
  /\ UNCHANGED <<slots, head, tail, pushVars, rhead, history>>

\* Mutant of PopRelease: the head does not move.
PopKeeps(t) ==
  /\ cpc[t] = "release"
  /\ head' = rhead[t]
  /\ popped' = Append(popped, read[t])
  /\ clashed' = (clashed \/ \E u \in Poppers \ {t} : cpc[u] # "idle")
  /\ Goto(t, "idle")
  /\ UNCHANGED <<slots, tail, pushVars, rhead, read, pushed>>

PopRelease(t) ==
  /\ cpc[t] = "release"
  /\ head' = next_index(rhead[t])
  /\ popped' = Append(popped, read[t])
  /\ clashed' = (clashed \/ \E u \in Poppers \ {t} : cpc[u] # "idle")
  /\ Goto(t, "idle")
  /\ UNCHANGED <<slots, tail, pushVars, rhead, read, pushed>>

-----------------------------------------------------------------------------
PushStep == PushLoadHead \/ PushWrite \/ PushPublish
PopStep(t) == PopLoadHead(t) \/ PopLoadTail(t) \/ PopRead(t) \/ PopRelease(t)

Next == \/ \E e \in Events : PushLoadTail(e)
        \/ PushStep
        \/ \E t \in Poppers : PopStep(t)

Spec == Init /\ [][Next]_vars

-----------------------------------------------------------------------------
(* Properties *)

TypeOK == /\ slots \in [Slots -> Events \cup {Unset}]
          /\ head \in Slots /\ tail \in Slots
          /\ ppc \in {"idle", "loadHead", "write", "publish"}
          /\ event \in Events \cup {Unset}
          /\ wtail \in Slots
          /\ cpc \in [Poppers -> {"idle", "loadTail", "read", "release"}]
          /\ rhead \in [Poppers -> Slots]
          /\ read \in [Poppers -> Events \cup {Unset}]
          /\ pushed \in Seq(Events)
          /\ popped \in Seq(Events \cup {Unset})
          /\ clashed \in BOOLEAN

\* No pop returns a slot that was never written, whoever pops and however the
\* pops overlap: what assume_init_read (line 130) reads has been initialised.
ReadsAreWritten == \A i \in 1 .. Len(popped) : popped[i] \in Events

\* Until two pops clash the scheduler never writes a slot that a popper is
\* reading: the accesses to the UnsafeCell that "unsafe impl Sync" (line 92)
\* vouches for do not race.
NoSlotRace ==
  ~ clashed => \A t \in Poppers :
    (cpc[t] = "read" /\ ppc \in {"write", "publish"}) => rhead[t] # wtail

\* Events come out in the order they went in, each of them once: what has been
\* popped is a prefix of what has been pushed.
FifoOrder ==
  /\ Len(popped) <= Len(pushed)
  /\ \A i \in 1 .. Len(popped) : popped[i] = pushed[i]

\* No schedule of pushes and pops breaks the order but one in which pops clash.
OnlyClashesDisorder == ~ clashed => FifoOrder

\* Until two pops clash the ring implements the bounded FIFO: a push is its store
\* of tail, a pop its store of head, and the other accesses are not seen.
Fifo == INSTANCE EventFifo WITH Room <- Capacity - 1
FifoSpec == Fifo!Init /\ [][clashed \/ Fifo!Next]_(Fifo!vars)

-----------------------------------------------------------------------------
(* The inductive invariant *)

\* The slot of the i-th event of the history.
SlotOf(i) == (i - 1) % Capacity

\* What holds whatever pops do: the tail is the scheduler's alone, and in the
\* first lap no head, current or loaded, is beyond the slots that were written.
Written ==
  /\ tail = Len(pushed) % Capacity
  /\ ppc # "idle" => wtail = tail /\ event \in Events
  /\ ppc = "publish" => slots[tail] = event
  /\ \A s \in Slots : s < Len(pushed) => slots[s] \in Events
  /\ Len(pushed) < Capacity => head <= Len(pushed)
  /\ ReadsAreWritten

ReaderInv(t) ==
  /\ (cpc[t] # "idle" /\ Len(pushed) < Capacity) => rhead[t] <= Len(pushed)
  /\ cpc[t] \in {"read", "release"} => rhead[t] < Len(pushed)
  /\ cpc[t] = "release" => read[t] \in Events

Cursors == /\ head = Len(popped) % Capacity
           /\ Len(popped) <= Len(pushed)
           /\ Len(pushed) < Len(popped) + Capacity

\* The events between the cursors are in their slots.
Contents ==
  \A i \in Len(popped) + 1 .. Len(pushed) : slots[SlotOf(i)] = pushed[i]

\* The slot that push checked stays free until it publishes it.
SlotStaysFree ==
  ppc \in {"write", "publish"} => Len(pushed) + 1 < Len(popped) + Capacity

PopperInv(t) ==
  /\ cpc[t] # "idle" => rhead[t] = head
  /\ cpc[t] \in {"read", "release"} => Len(popped) < Len(pushed)
  /\ cpc[t] = "release" => read[t] = pushed[Len(popped) + 1]

\* What holds besides until two pops clash.
Orderly == /\ Cursors
           /\ Contents
           /\ SlotStaysFree
           /\ \A t \in Poppers : PopperInv(t)
           /\ FifoOrder

IInv == /\ TypeOK
        /\ Written
        /\ \A t \in Poppers : ReaderInv(t)
        /\ ~ clashed => Orderly
=============================================================================
