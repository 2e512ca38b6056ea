SPECIFICATION FairSpec
CONSTANTS
    s1 = s1  s2 = s2  s3 = s3
    Slots = {s1, s2, s3}
INVARIANTS TypeOK NothingLeftBehind
PROPERTIES ShutdownDrains FailureSurfaces
CHECK_DEADLOCK FALSE
