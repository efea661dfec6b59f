--------------------------- MODULE CaptureLimiter ---------------------------
(***************************************************************************)
(* CaptureLimiter (capture_limit.cpp): a capture begins with the first     *)
(* turn that is not zero and ends Duration ticks later or with its         *)
(* MaxEvents-th event, whichever is first.  Of an event only what observe  *)
(* looks at is kept: whether it is such a turn, and its time.              *)
(***************************************************************************)
EXTENDS Naturals

CONSTANTS
    Duration,    \* ticks a capture lasts (telemetry_writer.cpp: 90 seconds)
    MaxEvents,   \* events it takes (200000)
    Word         \* times are kept modulo this (2^64)

ASSUME DurationNat == Duration \in Nat
ASSUME MaxEventsPositive == MaxEvents \in Nat \ {0}
ASSUME WordPositive == Word \in Nat \ {0}

Events == [motion : BOOLEAN, qpc : Nat]
Limiters == [started : BOOLEAN, start : Nat, captured : Nat]
Decisions == {"wait", "record", "stop"}

NewLimiter == [started |-> FALSE, start |-> 0, captured |-> 0]

\* Mutant: the time to stop at is kept, reckoned backwards.
LimitedBackwards(limiter, event) ==
    IF limiter.started
    THEN [limiter EXCEPT !.captured = @ + 1]
    ELSE IF event.motion
         THEN [started |-> TRUE, start |-> event.qpc - Duration, captured |-> limiter.captured + 1]
         ELSE limiter

\* The members of the limiter after observe(event).
Limited(limiter, event) ==
    IF limiter.started
    THEN [limiter EXCEPT !.captured = @ + 1]
    ELSE IF event.motion
         THEN [started |-> TRUE, start |-> event.qpc, captured |-> limiter.captured + 1]
         ELSE limiter

\* The difference of two std::uint64_t.
Minus(a, b) == IF a >= b THEN a - b ELSE Word + a - b

\* Mutant: an event older than the capture ends it.
ExpiredUnordered(after, event) == Minus(event.qpc, after.start) >= Duration

\* A thread that took its time before the capture began may still deliver its
\* event after.
Expired(after, event) ==
    event.qpc >= after.start /\ Minus(event.qpc, after.start) >= Duration

\* What observe answers, given the members it leaves.
Decision(after, event) ==
    IF ~after.started THEN "wait"
    ELSE IF after.captured >= MaxEvents \/ Expired(after, event) THEN "stop"
    ELSE "record"

=============================================================================
