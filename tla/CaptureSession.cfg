CONSTANTS
    Threads = {t1, t2}
    RingSlots = 1
    LastTick = 1
    Duration = 1
    MaxEvents = 3
    Word = 4
SPECIFICATION LiveSpec
INVARIANTS TypeOK Captured
PROPERTIES SwitchedOff CaptureEnds
