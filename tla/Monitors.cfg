SPECIFICATION FairSpec
CONSTANTS
    p1 = p1
    p2 = p2
    Members <- MCMembers
    MaxRetries = 1
    AssignmentTimeout = 2
    GateTimeout = 2
    PrepareDelay = 1
    ActiveTtl = 1
    CapacityTtl = 1
    MaxFaults = 1
CONSTRAINT LobbiesRunSmoothly
INVARIANTS
    MissingStaysMissing
    ReleasedOnce
PROPERTIES
    FollowsLifecycle
    MonitorEnds
    GatesClose
CHECK_DEADLOCK FALSE
