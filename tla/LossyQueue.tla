----------------------------- MODULE LossyQueue -----------------------------
(***************************************************************************)
(* What the telemetry ring promises: a bounded queue that never makes its  *)
(* users wait.  When it is full the oldest event makes room, when it is    *)
(* busy the newest is given up, every loss is counted, and what is taken   *)
(* out is what was put in, in that order.  TelemetryRing implements it.    *)
(***************************************************************************)
EXTENDS Naturals, Sequences

CONSTANT Capacity

VARIABLES queue,     \* the events in the queue, oldest first
          taken,     \* the events taken out, in order
          issued,    \* how many events were ever offered
          lost       \* how many of them the queue reports as lost

queueVars == <<queue, taken, issued, lost>>

\* Events are told apart by their number.
Present == {queue[i] : i \in 1..Len(queue)} \cup {taken[i] : i \in 1..Len(taken)}

QueueInit ==
    /\ queue = <<>>
    /\ taken = <<>>
    /\ issued = 0
    /\ lost = 0

Offer ==
    /\ issued' = issued + 1
    /\ UNCHANGED <<queue, taken, lost>>

\* An offered event enters the queue, once.
Enter ==
    /\ Len(queue) < Capacity
    /\ \E e \in 1..issued :
        /\ e \notin Present
        /\ queue' = Append(queue, e)
    /\ UNCHANGED <<taken, issued, lost>>

GiveUp ==
    /\ lost' = lost + 1
    /\ UNCHANGED <<queue, taken, issued>>

EvictOldest ==
    /\ Len(queue) = Capacity
    /\ queue' = Tail(queue)
    /\ lost' = lost + 1
    /\ UNCHANGED <<taken, issued>>

TakeOldest ==
    /\ queue # <<>>
    /\ queue' = Tail(queue)
    /\ taken' = Append(taken, Head(queue))
    /\ UNCHANGED <<issued, lost>>

QueueNext == Offer \/ Enter \/ GiveUp \/ EvictOldest \/ TakeOldest

QueueSpec == QueueInit /\ [][QueueNext]_queueVars

=============================================================================
