----------------------------- MODULE MCTurnHook -----------------------------
(***************************************************************************)
(* TurnHook for TLC.  Objects are only ever compared with each other.      *)
(***************************************************************************)
EXTENDS TurnHook, TLC

ObjectSymmetry == Permutations(Objects)

=============================================================================
