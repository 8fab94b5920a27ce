SPECIFICATION Spec
CONSTANTS
    p1 = p1
    p2 = p2
    Members <- MCOne
    MaxRetries = 0
    AssignmentTimeout = 4
    GateTimeout = 4
    PrepareDelay = 1
    ActiveTtl = 2
    CapacityTtl = 2
    MaxFaults = 0
INVARIANTS
    ConnectedIsKept
CHECK_DEADLOCK FALSE
