--------------------------- MODULE CadenceHistory ---------------------------
(***************************************************************************)
(* The classifier on its own, with what its callers did so far: what may   *)
(* and what may not arm it.                                                *)
(***************************************************************************)
EXTENDS CadenceClassifier

VARIABLES
    steady,   \* history: every call so far was a turn, none brief
    slow,     \* history: no two calls came within 9 ms of each other
    batches   \* history: turns in a row 12 to 35 ms apart, until armed

vars == <<classVars, steady, slow, batches>>

FastCamera == (9 * Frequency) \div 1000

Init ==
    /\ ClassInit
    /\ steady = TRUE
    /\ slow = TRUE
    /\ batches = 0

\* A turn that comes early or late ends the row.
Batches(gap) ==
    IF since_turn = NoTurn \/ TurnAged(gap) \notin MinimumBatch..MaximumBatch
    THEN 0
    ELSE IF batches < ArmingBatches THEN batches + 1 ELSE ArmingBatches

\* Less than a millisecond after the call before, though not in one tick.
Brief(gap) == gap > 0 /\ 1000 * gap < Frequency

Call(gap, delta) ==
    /\ Observe(gap, delta)
    /\ steady' = (steady /\ IsTurn(delta) /\ (called => ~Brief(gap)))
    /\ slow' = (slow /\ (called => gap > FastCamera))
    /\ batches' = IF IsTurn(delta) /\ ~affected THEN Batches(gap) ELSE batches

Next == \E gap \in Gaps, delta \in Deltas : Call(gap, delta)

Spec == Init /\ [][Next]_vars

-----------------------------------------------------------------------------
(* Properties.                                                             *)

\* A mouse whose turn arrives with every call is never taken for a batched one,
\* however unevenly the calls come, as long as no two of them come within a
\* millisecond: two in quick succession make a mean so small that a few slow
\* frames after them pass for batches (cadence_classifier.cpp:34-53;
\* README.md:124-126; camera_patch/tests/test_core.cpp:440-447).
SmoothNeverArms == steady => ~affected

\* Neither is a camera called less than every 9 ms, however its turns come
\* (cadence_classifier.cpp:33-53; camera_patch/tests/test_core.cpp:445-457).
SlowNeverArms == slow => ~affected

\* Nothing less than five batched turns in a row arms the classifier: its count
\* never gets ahead of the turns that came, through pauses, calls in the same
\* tick and deltas that are no numbers (cadence_classifier.cpp:13-53;
\* README.md:122-124).
ArmedByFive ==
    [][/\ consecutive' > 0 /\ ~affected => batches' >= consecutive'
       /\ affected' /\ ~affected => batches' = ArmingBatches]_vars

=============================================================================
