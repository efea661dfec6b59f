CONSTANTS
    Pids = {p1}
    Watchers = {w1, w2}
    Jobs = {j1, j2}
    User = User
    Nobody = Nobody
    MaxEvents = 1
SPECIFICATION LiveSpec
INVARIANTS TypeOK NothingForgotten UninstallSticks
PROPERTIES DueIsSettled
