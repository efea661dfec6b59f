\* One patcher at a time; the Store and others may change files in between.
CONSTANTS
    Patchers = {p1}
    Originals = {o1, o2}
    Proxies = {x1, x2}
    Foreign = {f1}
    Cameras = {c1, c2}
    Absent = Absent
    Torn = Torn
    OneAtATime = TRUE
    StaleLegacy = FALSE
    Tampering = TRUE
SPECIFICATION Spec
INVARIANTS TypeOK OriginalKept InstallPromise UninstallPromise IInv
PROPERTY TargetKept
