\* One command at a time, of two releases.
CONSTANTS
    Patchers = {p1}
    Originals = {o1, o2}
    Proxies = {x1, x2}
    Foreign = {}
    Cameras = {c1}
    Absent = Absent
    Torn = Torn
    OneAtATime = TRUE
    StaleLegacy = FALSE
    Tampering = FALSE
    CameraOf <- MCCameraOf
SPECIFICATION DeploySpec
INVARIANTS DeployTypeOK LeftAsFound Reversible Repairable DeliveredRecoverable
PROPERTIES DurableOutlives VaultRefined
