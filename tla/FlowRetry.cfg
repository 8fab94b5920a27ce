SPECIFICATION FairSpec
CONSTANTS
    r1 = r1
    r2 = r2
    s1 = s1
    s2 = s2
    Requests <- MCOneRequest
    Servers <- MCServers
    NoServer = NoServer
    MaxRetries = 1
    MaxFaults = 0
    Drainable <- MCDrainable
    MaxDrains = 1
INVARIANTS
    RetriesMoveOn
    AbandonedIsQueued
PROPERTIES
    ImplementsLifecycle
    RequestsAreAnswered
    DrainedServersEmpty
CHECK_DEADLOCK FALSE
