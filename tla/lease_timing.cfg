SPECIFICATION Spec
CONSTANTS
    s1 = s1  s2 = s2
    None = None
    Slots = {s1, s2}
    Lease = 8
    Interval = 1
    ReapInterval = 1
    Threshold = 10
    Delay = 1
    Missable = 1
    Spread = 1
    Skew <- MCSkew
    ReaperSkew = 1
    ApiSkew = 0
VIEW Ages
INVARIANTS TypeOK LeaseKept ReclaimedInTime BusyIsRunning
