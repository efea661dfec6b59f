-------------------------- MODULE CadenceClassifier --------------------------
(***************************************************************************)
(* CadenceClassifier (cadence_classifier.cpp): the distributor is armed    *)
(* once five turns in a row came 12 to 35 ms apart while the camera was    *)
(* called at least every 9 ms, two and a half times as often.              *)
(***************************************************************************)
EXTENDS TurnInput

VARIABLES
    called,          \* last_call_qpc_ # 0
    since_call,      \* ticks since last_call_qpc_, not counting the call at hand
    since_turn,      \* ticks since last_nonzero_qpc_, NoTurn when that is 0
    camera_interval, \* camera_interval_qpc_, in steps of 1/Scale tick
    consecutive,     \* consecutive_batched_intervals_
    affected         \* affected_

classVars == <<called, since_call, since_turn, camera_interval, consecutive, affected>>

NoTurn == -1

LongestGap == Frequency \div 4
MinimumBatch == (Frequency * 12) \div 1000
MaximumBatch == (Frequency * 35) \div 1000
ArmingBatches == 5

\* Bounds: ages past the last comparison that tells them apart are one age.
CallAgeCap == LongestGap + 1
TurnAgeCap == MaximumBatch + 1
CallAged(gap) == IF since_call + gap < CallAgeCap THEN since_call + gap ELSE CallAgeCap
TurnAged(gap) ==
    IF since_turn = NoTurn THEN NoTurn
    ELSE IF since_turn + gap < TurnAgeCap THEN since_turn + gap ELSE TurnAgeCap

ClassTypeOK ==
    /\ called \in BOOLEAN
    /\ since_call \in 0..CallAgeCap
    /\ since_turn \in {NoTurn} \cup 0..TurnAgeCap
    /\ camera_interval \in Nat
    /\ consecutive \in 0..ArmingBatches
    /\ affected \in BOOLEAN
    /\ consecutive = ArmingBatches => affected

ClassInit ==
    /\ called = FALSE
    /\ since_call = 0
    /\ since_turn = NoTurn
    /\ camera_interval = 0
    /\ consecutive = 0
    /\ affected = FALSE

NoFrequency == Frequency = 0
IsTurn(input) == input # NotFinite /\ input # 0

-----------------------------------------------------------------------------
(* observe, one action per way out of it.                                  *)

ObserveUnusable(gap, input) ==
    /\ NoFrequency \/ input = NotFinite
    /\ consecutive' = 0
    /\ since_call' = CallAged(gap)
    /\ since_turn' = TurnAged(gap)
    /\ UNCHANGED <<called, camera_interval, affected>>

\* The first call, or one in the same tick as the call before.
Restarts(gap) == ~called \/ since_call + gap = 0

ObserveRestart(gap, input) ==
    /\ ~NoFrequency /\ input # NotFinite
    /\ Restarts(gap)
    /\ called' = TRUE
    /\ since_call' = 0
    /\ since_turn' = IF IsTurn(input) THEN 0 ELSE TurnAged(gap)
    /\ camera_interval' = 0
    /\ consecutive' = 0
    /\ UNCHANGED affected

\* Mutant: the batches before the pause still count.
ObservePauseCounting(gap, input) ==
    /\ ~NoFrequency /\ input # NotFinite
    /\ ~Restarts(gap)
    /\ since_call + gap > LongestGap
    /\ since_call' = 0
    /\ since_turn' = IF IsTurn(input) THEN 0 ELSE NoTurn
    /\ camera_interval' = 0
    /\ UNCHANGED <<called, consecutive, affected>>

ObservePause(gap, input) ==
    /\ ~NoFrequency /\ input # NotFinite
    /\ ~Restarts(gap)
    /\ since_call + gap > LongestGap
    /\ since_call' = 0
    /\ since_turn' = IF IsTurn(input) THEN 0 ELSE NoTurn
    /\ camera_interval' = 0
    /\ consecutive' = 0
    /\ UNCHANGED <<called, affected>>

NextCamera(interval) ==
    IF camera_interval = 0 THEN interval * Scale
                           ELSE (17 * camera_interval + 3 * interval * Scale) \div 20

\* Mutants: nothing compares the batch with the camera; any camera will do.
BatchAnyRate(source, camera) ==
    /\ source >= MinimumBatch /\ source <= MaximumBatch
    /\ camera > 0 /\ 1000 * camera <= 9 * Frequency * Scale

BatchAnyCamera(source, camera) ==
    /\ source >= MinimumBatch /\ source <= MaximumBatch
    /\ camera > 0
    /\ 2 * source * Scale >= 5 * camera

\* A turn a batch apart from the one before, on a fast camera.
CoarseBatch(source, camera) ==
    /\ source >= MinimumBatch /\ source <= MaximumBatch
    /\ camera > 0 /\ 1000 * camera <= 9 * Frequency * Scale
    /\ 2 * source * Scale >= 5 * camera

\* The count of a classifier that is armed goes on; past five it decides
\* nothing.
Counted == IF consecutive < ArmingBatches THEN consecutive + 1 ELSE ArmingBatches

\* Mutant: a batch too many.
ArmsLate == Counted > ArmingBatches

Arms == Counted >= ArmingBatches

ObserveCadence(gap, input) ==
    LET interval == since_call + gap
        source == TurnAged(gap)
        camera == NextCamera(interval)
    IN
    /\ ~NoFrequency /\ input # NotFinite
    /\ ~Restarts(gap)
    /\ interval <= LongestGap
    /\ since_call' = 0
    /\ camera_interval' = camera
    /\ IF IsTurn(input)
       THEN /\ since_turn' = 0
            /\ IF source = NoTurn \/ source = 0
               THEN UNCHANGED <<consecutive, affected>>
               ELSE IF CoarseBatch(source, camera)
               THEN /\ consecutive' = Counted
                    /\ affected' = (affected \/ Arms)
               ELSE /\ consecutive' = IF affected THEN consecutive ELSE 0
                    /\ UNCHANGED affected
       ELSE /\ since_turn' = source
            /\ UNCHANGED <<consecutive, affected>>
    /\ UNCHANGED called

Observe(gap, input) ==
    \/ ObserveUnusable(gap, input)
    \/ ObserveRestart(gap, input)
    \/ ObservePause(gap, input)
    \/ ObserveCadence(gap, input)

=============================================================================
