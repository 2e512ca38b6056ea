SPECIFICATION Spec
CONSTANTS
    c1 = c1  c2 = c2
    Clients = {c1, c2}
    Slots = 1
    Capacity = 4
    Cost = 2
    Ttl = 5
    Skew <- OneTickApart
    Spread = 1
    Limit = 2
    Window = 4
    MaxTime = 7
INVARIANTS TypeOK RateBound GuardBound
CHECK_DEADLOCK FALSE
