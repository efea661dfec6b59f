---------------------------- MODULE TelemetryRing ----------------------------
(***************************************************************************)
(* TelemetryRing (include/mcfix/telemetry.hpp): the game's threads push    *)
(* events from inside the hooks, one writer thread drains them.  A single  *)
(* test-and-set flag guards the ring; nobody waits for it: a push that     *)
(* finds it taken counts its event as dropped, a drain that does returns.  *)
(*                                                                         *)
(* An event is its sequence number.  Every access to shared memory outside *)
(* the flag, and every group of accesses under it that another thread      *)
(* could tell apart if the flag failed, is a step.                         *)
(***************************************************************************)
EXTENDS Integers, Sequences, FiniteSets

CONSTANTS
    Producers,  \* threads that run hooked functions
    Capacity,   \* slots of the ring
    MaxEvents   \* bound: events pushed in a run

ASSUME ProducersFinite == IsFiniteSet(Producers)
ASSUME CapacityPositive == Capacity \in Nat \ {0}
ASSUME MaxEventsNat == MaxEvents \in Nat

VARIABLES
    slots,          \* slots_; 0 is a slot never written
    lock,           \* lock_
    read_index, write_index, count,
    next_sequence, dropped,
    pc, sequence,   \* each producer: its place in push, its local sequence
    wpc, event,     \* the writer: its place in drain, its local event
    delivered       \* history: what the consumer was called with

ringVars == <<slots, lock, read_index, write_index, count>>
pushVars == <<pc, sequence>>
drainVars == <<wpc, event, delivered>>
vars == <<ringVars, next_sequence, dropped, pushVars, drainVars>>

Indices == 0..Capacity - 1
PushSteps == {"outside", "try", "drop", "room", "store", "commit", "unlock"}
DrainSteps == {"outside", "try", "look", "leave", "advance", "release", "consume"}

TypeOK ==
    /\ slots \in [Indices -> 0..next_sequence]
    /\ lock \in BOOLEAN
    /\ read_index \in Indices
    /\ write_index \in Indices
    /\ count \in 0..Capacity
    /\ next_sequence \in Nat
    /\ dropped \in Nat
    /\ pc \in [Producers -> PushSteps]
    /\ sequence \in [Producers -> 0..next_sequence]
    /\ wpc \in DrainSteps
    /\ event \in 0..next_sequence
    /\ delivered \in Seq(0..next_sequence)

Init ==
    /\ slots = [i \in Indices |-> 0]
    /\ lock = FALSE
    /\ read_index = 0 /\ write_index = 0 /\ count = 0
    /\ next_sequence = 0 /\ dropped = 0
    /\ pc = [p \in Producers |-> "outside"]
    /\ sequence = [p \in Producers |-> 0]
    /\ wpc = "outside" /\ event = 0
    /\ delivered = <<>>

Following(i) == (i + 1) % Capacity

-----------------------------------------------------------------------------
(* push.                                                                   *)

Goto(p, step) == pc' = [pc EXCEPT ![p] = step]

\* Mutant: the number before the increment.
TakeSequenceEarly(p) ==
    /\ pc[p] = "outside"
    /\ next_sequence < MaxEvents
    /\ next_sequence' = next_sequence + 1
    /\ sequence' = [sequence EXCEPT ![p] = next_sequence]
    /\ Goto(p, "try")
    /\ UNCHANGED <<ringVars, dropped, drainVars>>

\* fetch_add on next_sequence_, before the flag is tried.
TakeSequence(p) ==
    /\ pc[p] = "outside"
    /\ next_sequence < MaxEvents
    /\ next_sequence' = next_sequence + 1
    /\ sequence' = [sequence EXCEPT ![p] = next_sequence + 1]
    /\ Goto(p, "try")
    /\ UNCHANGED <<ringVars, dropped, drainVars>>

\* Mutant: a push waits for the flag.
TryPushWaiting(p) ==
    /\ pc[p] = "try"
    /\ ~lock
    /\ lock' = TRUE
    /\ Goto(p, "room")
    /\ UNCHANGED <<slots, read_index, write_index, count, next_sequence, dropped,
                   sequence, drainVars>>

TryPush(p) ==
    /\ pc[p] = "try"
    /\ lock' = TRUE
    /\ Goto(p, IF lock THEN "drop" ELSE "room")
    /\ UNCHANGED <<slots, read_index, write_index, count, next_sequence, dropped,
                   sequence, drainVars>>

\* Mutants: a dropped event is not counted; the flag is cleared on every way out.
DropUncounted(p) ==
    /\ pc[p] = "drop"
    /\ Goto(p, "outside")
    /\ UNCHANGED <<ringVars, next_sequence, dropped, sequence, drainVars>>

DropUnlocking(p) ==
    /\ pc[p] = "drop"
    /\ dropped' = dropped + 1
    /\ lock' = FALSE
    /\ Goto(p, "outside")
    /\ UNCHANGED <<slots, read_index, write_index, count, next_sequence, sequence,
                   drainVars>>

DropNewest(p) ==
    /\ pc[p] = "drop"
    /\ dropped' = dropped + 1
    /\ Goto(p, "outside")
    /\ UNCHANGED <<ringVars, next_sequence, sequence, drainVars>>

\* Mutant: room is made one event too late.
MakeRoomLate(p) ==
    /\ pc[p] = "room"
    /\ IF count > Capacity
       THEN /\ read_index' = Following(read_index)
            /\ count' = count - 1
            /\ dropped' = dropped + 1
       ELSE UNCHANGED <<read_index, count, dropped>>
    /\ Goto(p, "store")
    /\ UNCHANGED <<slots, lock, write_index, next_sequence, sequence, drainVars>>

MakeRoom(p) ==
    /\ pc[p] = "room"
    /\ IF count = Capacity
       THEN /\ read_index' = Following(read_index)
            /\ count' = count - 1
            /\ dropped' = dropped + 1
       ELSE UNCHANGED <<read_index, count, dropped>>
    /\ Goto(p, "store")
    /\ UNCHANGED <<slots, lock, write_index, next_sequence, sequence, drainVars>>

StoreEvent(p) ==
    /\ pc[p] = "store"
    /\ slots' = [slots EXCEPT ![write_index] = sequence[p]]
    /\ Goto(p, "commit")
    /\ UNCHANGED <<lock, read_index, write_index, count, next_sequence, dropped,
                   sequence, drainVars>>

CommitEvent(p) ==
    /\ pc[p] = "commit"
    /\ write_index' = Following(write_index)
    /\ count' = count + 1
    /\ Goto(p, "unlock")
    /\ UNCHANGED <<slots, lock, read_index, next_sequence, dropped, sequence, drainVars>>

UnlockPush(p) ==
    /\ pc[p] = "unlock"
    /\ lock' = FALSE
    /\ Goto(p, "outside")
    /\ UNCHANGED <<slots, read_index, write_index, count, next_sequence, dropped,
                   sequence, drainVars>>

-----------------------------------------------------------------------------
(* drain.                                                                  *)

\* The writer's loop calls drain; its body goes around until the ring is empty
\* or busy.
CallDrain ==
    /\ wpc = "outside"
    /\ wpc' = "try"
    /\ UNCHANGED <<ringVars, next_sequence, dropped, pushVars, event, delivered>>

TryDrain ==
    /\ wpc = "try"
    /\ lock' = TRUE
    /\ wpc' = IF lock THEN "outside" ELSE "look"
    /\ UNCHANGED <<slots, read_index, write_index, count, next_sequence, dropped,
                   pushVars, event, delivered>>

\* Mutants: the slot to be written next is read; the last event counts as none.
ReadNewest ==
    /\ wpc = "look"
    /\ IF count = 0
       THEN wpc' = "leave" /\ UNCHANGED event
       ELSE wpc' = "advance" /\ event' = slots[write_index]
    /\ UNCHANGED <<ringVars, next_sequence, dropped, pushVars, delivered>>

ReadAllButLast ==
    /\ wpc = "look"
    /\ IF count <= 1
       THEN wpc' = "leave" /\ UNCHANGED event
       ELSE wpc' = "advance" /\ event' = slots[read_index]
    /\ UNCHANGED <<ringVars, next_sequence, dropped, pushVars, delivered>>

ReadOldest ==
    /\ wpc = "look"
    /\ IF count = 0
       THEN wpc' = "leave" /\ UNCHANGED event
       ELSE wpc' = "advance" /\ event' = slots[read_index]
    /\ UNCHANGED <<ringVars, next_sequence, dropped, pushVars, delivered>>

LeaveEmpty ==
    /\ wpc = "leave"
    /\ lock' = FALSE
    /\ wpc' = "outside"
    /\ UNCHANGED <<slots, read_index, write_index, count, next_sequence, dropped,
                   pushVars, event, delivered>>

AdvanceOldest ==
    /\ wpc = "advance"
    /\ read_index' = Following(read_index)
    /\ count' = count - 1
    /\ wpc' = "release"
    /\ UNCHANGED <<slots, lock, write_index, next_sequence, dropped, pushVars, event,
                   delivered>>

ReleaseDrain ==
    /\ wpc = "release"
    /\ lock' = FALSE
    /\ wpc' = "consume"
    /\ UNCHANGED <<slots, read_index, write_index, count, next_sequence, dropped,
                   pushVars, event, delivered>>

Consume ==
    /\ wpc = "consume"
    /\ delivered' = Append(delivered, event)
    /\ wpc' = "try"
    /\ UNCHANGED <<ringVars, next_sequence, dropped, pushVars, event>>

-----------------------------------------------------------------------------

Push(p) ==
    \/ TryPush(p) \/ DropNewest(p) \/ MakeRoom(p) \/ StoreEvent(p)
    \/ CommitEvent(p) \/ UnlockPush(p)

Drain ==
    \/ TryDrain \/ ReadOldest \/ LeaveEmpty \/ AdvanceOldest \/ ReleaseDrain \/ Consume

Next == (\E p \in Producers : TakeSequence(p) \/ Push(p)) \/ CallDrain \/ Drain

Spec == Init /\ [][Next]_vars

\* The system schedules every pushing thread.  Whether it schedules the writer
\* is left open.
PushFairness == \A p \in Producers : WF_vars(Push(p))
LiveSpec == Spec /\ PushFairness

\* A writer that is scheduled: an assumption of EventLeaves alone.
DrainFairness == WF_vars(CallDrain) /\ WF_vars(Drain)

-----------------------------------------------------------------------------
(* Properties.                                                             *)

\* Who holds the flag: a push between its test_and_set and its clear, a drain
\* likewise.
Holds(p) == pc[p] \in {"room", "store", "commit", "unlock"}
WriterHolds == wpc \in {"look", "leave", "advance", "release"}

\* At most one thread is between the flag's set and its clear, and while
\* nobody is, the flag is free: no push or drain that returns early leaves it
\* set (telemetry.hpp:37-40, 59-65).
Exclusion ==
    /\ \A p, q \in Producers : Holds(p) /\ Holds(q) => p = q
    /\ \A p \in Producers : ~(Holds(p) /\ WriterHolds)
    /\ lock <=> WriterHolds \/ \E p \in Producers : Holds(p)

\* The events of pushes under way, none of them stored or counted yet.
InFlight == {p \in Producers : pc[p] \in {"try", "drop", "room", "store", "commit"}}
InHand == IF wpc \in {"release", "consume"} THEN <<event>> ELSE <<>>

\* Every sequence number given out is accounted for at every moment: handed to
\* the consumer, in the ring, counted as dropped, or in a push under way; so
\* dropped() is exactly what the consumer missed (telemetry.hpp:36-51, 66-71).
\* What of it becomes a row of the file is CaptureSession's subject.
Accounted ==
    next_sequence = Len(delivered) + Len(InHand) + count + dropped + Cardinality(InFlight)

\* The ring's contents, oldest first.
Contents == [i \in 1..count |-> slots[(read_index + i - 1) % Capacity]]

\* The ring implements the bounded lossy queue: order, overwriting of the
\* oldest, no duplicate, no event that was never pushed, every loss counted,
\* across every interleaving of pushes with a drain (telemetry.hpp:35-74).
Queue == INSTANCE LossyQueue
             WITH queue <- Contents, taken <- delivered \o InHand,
                  issued <- next_sequence, lost <- dropped
QueueRefined == Queue!QueueSpec

\* A push returns although no other thread, the writer included, is ever
\* scheduled again: the game's threads never wait for telemetry
\* (telemetry.hpp:37-40).
PushReturns == \A p \in Producers : pc[p] = "try" ~> pc[p] = "outside"

\* While the writer is scheduled too, an event in the ring is delivered or
\* overwritten in the end: the writer comes back for what a busy flag made it
\* leave behind (telemetry.hpp:56-74, telemetry_writer.cpp:134-176).
Stored(e) == \E i \in 1..count : Contents[i] = e
EventLeaves == DrainFairness => \A e \in 1..MaxEvents : Stored(e) ~> ~Stored(e)

-----------------------------------------------------------------------------
(* The inductive strengthening behind the refinement.                      *)

\* The indices delimit the contents, and what a thread is about to publish is
\* where it put it.
Placed ==
    /\ write_index = (read_index + count) % Capacity
    /\ \A p \in Producers : pc[p] = "commit" => slots[write_index] = sequence[p]
    /\ wpc = "advance" => event = slots[read_index]

\* No event enters twice: the numbers of the pushes under way differ from each
\* other and from every event present (telemetry.hpp:36, 47-49).
Distinct ==
    /\ \A p \in InFlight :
           sequence[p] \in 1..next_sequence /\ sequence[p] \notin Queue!Present
    /\ \A p, q \in InFlight : sequence[p] = sequence[q] => p = q

=============================================================================
