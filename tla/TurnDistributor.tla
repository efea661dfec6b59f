--------------------------- MODULE TurnDistributor ---------------------------
(***************************************************************************)
(* TurnDistributor (turn_distributor.cpp): a turn that arrives in one call *)
(* is handed on in up to eight equal portions, one per call, so that it    *)
(* spans about 20 ms.  Whatever does not divide evenly goes with the last  *)
(* portion.                                                                *)
(***************************************************************************)
EXTENDS TurnInput

CONSTANTS
    Objects,    \* what applyTurnDelta is called on
    NoObject    \* object_ before the first call

VARIABLES
    scheduled,       \* scheduled_
    frame_interval,  \* frame_interval_qpc_, in steps of 1/Scale tick
    object,          \* object_
    primed,          \* primed_
    output           \* what the last call of distribute returned

distVars == <<scheduled, frame_interval, object, primed, output>>

MaxSlots == 8
Slots == 0..MaxSlots - 1
EmptyQueue == [i \in Slots |-> 0]

\* A fiftieth of a second, at least one tick.
Horizon == IF Frequency < 50 THEN 1 ELSE Frequency \div 50

PendingTotal ==
    scheduled[0] + scheduled[1] + scheduled[2] + scheduled[3]
      + scheduled[4] + scheduled[5] + scheduled[6] + scheduled[7]

DistTypeOK ==
    /\ scheduled \in [Slots -> Int]
    /\ frame_interval \in Nat
    /\ object \in Objects \cup {NoObject}
    /\ primed \in BOOLEAN
    /\ output \in Int \cup {NotFinite}

DistInit ==
    /\ scheduled = EmptyQueue
    /\ frame_interval = 0
    /\ object = NoObject
    /\ primed = FALSE
    /\ output = 0

-----------------------------------------------------------------------------
(* distribute, one action per way out of it.                               *)

\* No frequency or no number: nothing is kept, the delta passes.
Unusable(input) == Frequency = 0 \/ input = NotFinite

PassUnusable(input) ==
    /\ Unusable(input)
    /\ scheduled' = EmptyQueue
    /\ primed' = FALSE
    /\ output' = input
    /\ UNCHANGED <<frame_interval, object>>

\* The first call, or the first on another object.
Starts(o) == ~primed \/ o # object

Prime(o, input) ==
    /\ ~Unusable(input)
    /\ Starts(o)
    /\ scheduled' = EmptyQueue
    /\ primed' = TRUE
    /\ object' = o
    /\ frame_interval' = 0
    /\ output' = input

\* No time passed, or more than the horizon: what is pending goes at once.
Flush(o, gap, input) ==
    /\ ~Unusable(input)
    /\ ~Starts(o)
    /\ gap = 0 \/ gap >= Horizon
    /\ output' = PendingTotal + input
    /\ scheduled' = EmptyQueue
    /\ frame_interval' = gap * Scale
    /\ UNCHANGED <<object, primed>>

\* An exponential mean, a fifth of it the new interval.
NextInterval(gap) ==
    IF frame_interval = 0 THEN gap * Scale ELSE (4 * frame_interval + gap * Scale) \div 5

Clamp(n, low, high) == IF n < low THEN low ELSE IF n > high THEN high ELSE n

\* The rounded quotient of horizon and mean interval.
SlotCount(interval) ==
    Clamp((2 * Horizon * Scale + interval) \div (2 * interval), 1, MaxSlots)

\* Mutant: the last slot takes over the first.
Rotated == [i \in Slots |-> scheduled[(i + 1) % MaxSlots]]

Shifted == [i \in Slots |-> IF i < MaxSlots - 1 THEN scheduled[i + 1] ELSE 0]

\* A portion for this call, one for each of the next count - 1 calls, the
\* residual with the last of them.  A portion is rounded to the nearest, so the
\* residual has either sign.
Portion(input, count) == (2 * input + count) \div (2 * count)

\* Mutant: what is left after eight portions, however many there are.
ResidualOfEight(input, count) == input - MaxSlots * Portion(input, count)

Residual(input, count) == input - count * Portion(input, count)

\* Mutant: one portion too many.
ScheduledTwice(input, count) ==
    [i \in Slots |-> Shifted[i]
        + (IF i < count THEN Portion(input, count) ELSE 0)
        + (IF i = count - 2 THEN Residual(input, count) ELSE 0)]

Scheduled(input, count) ==
    [i \in Slots |-> Shifted[i]
        + (IF i < count - 1 THEN Portion(input, count) ELSE 0)
        + (IF i = count - 2 THEN Residual(input, count) ELSE 0)]

Spread(o, gap, input) ==
    LET count == SlotCount(NextInterval(gap)) IN
    /\ ~Unusable(input)
    /\ ~Starts(o)
    /\ gap > 0 /\ gap < Horizon
    /\ frame_interval' = NextInterval(gap)
    /\ IF input = 0
       THEN scheduled' = Shifted /\ output' = scheduled[0]
       ELSE /\ scheduled' = Scheduled(input, count)
            /\ output' = scheduled[0] + Portion(input, count)
                           + (IF count = 1 THEN Residual(input, count) ELSE 0)
    /\ UNCHANGED <<object, primed>>

Distribute(o, gap, input) ==
    \/ PassUnusable(input)
    \/ Prime(o, input)
    \/ Flush(o, gap, input)
    \/ Spread(o, gap, input)

=============================================================================
