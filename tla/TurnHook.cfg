\* A 400 Hz counter: horizon 8 ticks, batches 4 to 14 ticks, camera at most 3
\* ticks; a turn of 91 leaves a residual of either sign, and calls one tick apart
\* use all eight slots.
CONSTANTS
    Frequency = 400
    Scale = 1
    Deltas = {0, 91, NotFinite}
    NotFinite = NotFinite
    Gaps = {0, 1, 5}
    Objects = {a, b}
    NoObject = NoObject
SYMMETRY ObjectSymmetry
SPECIFICATION Spec
INVARIANTS TypeOK IdleUntilArmed DrainedInSeven NoReversal
PROPERTIES TurnConserved
