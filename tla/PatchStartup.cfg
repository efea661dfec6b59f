CONSTANTS
    Threads = {t1, t2}
SPECIFICATION Spec
INVARIANTS TypeOK AllOrNothing StatusTrue StrandedOnlyLate
CHECK_DEADLOCK FALSE
