\* A 1200 Hz counter: batches 14 to 42 ticks, camera 10 ticks, pause 300 ticks;
\* a gap of one tick is less than a millisecond.
CONSTANTS
    Frequency = 1200
    Scale = 1
    Deltas = {0, 90, NotFinite}
    NotFinite = NotFinite
    Gaps = {0, 1, 5, 14, 310}
SPECIFICATION Spec
INVARIANTS SlowNeverArms SmoothNeverArms
PROPERTIES ArmedByFive
