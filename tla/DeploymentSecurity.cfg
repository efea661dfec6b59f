\* An installation repeated after it failed late.
CONSTANTS
    Patchers = {p1}
    Originals = {o1}
    Proxies = {x1}
    Foreign = {}
    Cameras = {c1}
    Absent = Absent
    Torn = Torn
    OneAtATime = TRUE
    StaleLegacy = FALSE
    Tampering = FALSE
    CameraOf <- MCCameraOf
SPECIFICATION DeploySpec
INVARIANT SecurityRestored
