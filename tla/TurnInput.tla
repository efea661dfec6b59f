------------------------------ MODULE TurnInput ------------------------------
(***************************************************************************)
(* What the two per-thread objects of turn_delta_hook share: the unit of   *)
(* time and the turn deltas the game hands them.                           *)
(*                                                                         *)
(* Time is in ticks of the performance counter and is kept as the ticks    *)
(* that passed: the code only ever compares and subtracts readings, and    *)
(* the counter never runs backwards.  A delta is an amount of turn in      *)
(* indivisible units, what the last bit of a float is worth; a turn is     *)
(* many units, as a float has 24 bits.  The two components of a delta take *)
(* the same path through the code, so one stands for both.                 *)
(***************************************************************************)
EXTENDS Integers

CONSTANTS
    Frequency,   \* qpc_frequency, ticks per second
    Scale,       \* bound: the doubles are kept in steps of 1/Scale tick
    Deltas,      \* the deltas the game produces
    NotFinite,   \* a delta with an infinity or a NaN in it
    Gaps         \* ticks between two calls

ASSUME FrequencyNat == Frequency \in Nat
ASSUME ScalePositive == Scale \in Nat \ {0}
ASSUME NotFiniteOther == NotFinite \notin Int
ASSUME DeltasNumbers == Deltas \subseteq Int \cup {NotFinite}
ASSUME TurnsManyUnits ==
    \A turn \in Deltas \ {0, NotFinite} : turn >= 64 \/ turn <= -64
ASSUME GapsNat == Gaps \subseteq Nat

=============================================================================
