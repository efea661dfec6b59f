------------------------------ MODULE TurnHook ------------------------------
(***************************************************************************)
(* turn_delta_hook (patch_dll.cpp) on one of the game's threads: the       *)
(* classifier sees every delta, the distributor gets it once the classifier *)
(* is armed and a zero delta before, and what comes out goes to the game's *)
(* own applyTurnDelta.                                                     *)
(***************************************************************************)
EXTENDS TurnDistributor, CadenceClassifier

VARIABLES
    handed,   \* the delta the original function was called with
    asked,    \* history: the delta the game had asked for
    idle      \* history: calls since the last turn

historyVars == <<asked, idle>>
vars == <<distVars, classVars, handed, historyVars>>

\* Bound: histories count no further than the properties look.
LongEnough == 8
UpTo(n) == IF n < LongEnough THEN n + 1 ELSE LongEnough

TypeOK ==
    /\ DistTypeOK
    /\ ClassTypeOK
    /\ handed \in Int \cup {NotFinite}
    /\ asked \in Deltas \cup {0}
    /\ idle \in 0..LongEnough

Init ==
    /\ DistInit
    /\ ClassInit
    /\ handed = 0
    /\ asked = 0
    /\ idle = 0

Remember(delta) ==
    /\ asked' = delta
    /\ idle' = IF IsTurn(delta) THEN 0 ELSE UpTo(idle)

\* Mutant: the distributor gets the delta before the classifier is armed, too.
TurnDeltaFeeding(o, gap, delta) ==
    /\ Observe(gap, delta)
    /\ Distribute(o, gap, delta)
    /\ handed' = IF affected' THEN output' ELSE delta
    /\ Remember(delta)

TurnDelta(o, gap, delta) ==
    /\ Observe(gap, delta)
    /\ IF affected'
       THEN Distribute(o, gap, delta) /\ handed' = output'
       ELSE Distribute(o, gap, 0) /\ handed' = delta
    /\ Remember(delta)

Next == \E o \in Objects, gap \in Gaps, delta \in Deltas : TurnDelta(o, gap, delta)

Spec == Init /\ [][Next]_vars

-----------------------------------------------------------------------------
(* Properties.                                                             *)

\* Until it is armed the distributor holds nothing, so the turn the hook throws
\* away when it feeds it zeros is never one the player made
\* (patch_dll.cpp:62-65, cadence_classifier.cpp:38-53).
IdleUntilArmed == ~affected => scheduled = EmptyQueue /\ output = 0

\* A pending turn is given up only when the object changes or the delta is not
\* a number: on another object portions are dropped, not handed on
\* (turn_distributor.cpp:36-49).
GivesUp == asked' = NotFinite \/ object' # object

\* On every other call, what the game is handed plus what is then pending is
\* what was pending plus what it asked for: no turn is lost or invented,
\* whatever the cadence (turn_distributor.cpp:51-105, patch_dll.cpp:62-89).
TurnConserved ==
    [][GivesUp \/ handed' + PendingTotal' = PendingTotal + asked']_vars

\* Seven calls without a turn hand on everything pending: the last of the eight
\* slots is never needed, and nothing circles (turn_distributor.cpp:73-104).
DrainedInSeven == idle >= 7 => scheduled = EmptyQueue

\* A turn in one direction is handed on in that direction: no portion and no
\* residual turns the camera back (turn_distributor.cpp:86-104).
NoReversal ==
    Deltas \ {NotFinite} \subseteq Nat =>
        /\ \A i \in Slots : scheduled[i] >= 0
        /\ handed # NotFinite => handed >= 0

=============================================================================
