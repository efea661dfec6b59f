\* Two patchers at once, an installation or repair and an uninstallation say.
CONSTANTS
    Patchers = {p1, p2}
    Originals = {o1, o2}
    Proxies = {x1}
    Foreign = {f1}
    Cameras = {c1}
    Absent = Absent
    Torn = Torn
    OneAtATime = FALSE
    StaleLegacy = FALSE
    Tampering = FALSE
SPECIFICATION Spec
INVARIANT OriginalKept
