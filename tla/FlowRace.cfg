SPECIFICATION Spec
CONSTANTS
    r1 = r1
    r2 = r2
    s1 = s1
    s2 = s2
    Requests <- MCRequests
    Servers <- MCOneServer
    NoServer = NoServer
    MaxRetries = 0
    MaxFaults = 1
    Drainable <- MCDrainable
    MaxDrains = 1
INVARIANTS
    GrantsAreAdmitted
    WaitingIsNotLost
    GrantKeepsAllocation
    JobsHaveCauses
CHECK_DEADLOCK FALSE
