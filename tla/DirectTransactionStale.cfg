\* The Store services a directory that keeps a legacy original.
CONSTANTS
    Patchers = {p1}
    Originals = {o1, o2}
    Proxies = {x1}
    Foreign = {f1}
    Cameras = {c1}
    Absent = Absent
    Torn = Torn
    OneAtATime = TRUE
    StaleLegacy = TRUE
    Tampering = FALSE
SPECIFICATION Spec
PROPERTY StockPreserved
