\* Two hooked threads and the writer; a ring that overflows and wraps.
CONSTANTS
    Producers = {p1, p2}
    Capacity = 2
    MaxEvents = 5
SPECIFICATION LiveSpec
INVARIANTS TypeOK Exclusion Accounted Distinct
PROPERTIES QueueRefined PushReturns EventLeaves
