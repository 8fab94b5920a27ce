SPECIFICATION Spec
CONSTANTS
    r1 = r1
    r2 = r2
    a1 = a1
    roomA = roomA
    d1 = d1
    d2 = d2
    Servers <- MCServers
    Requests <- MCRequests
    Rooms <- MCRooms
    Capacity <- MCCapacity
    Latencies <- MCLatencies
    MaxEvents = 3
    Attempts <- MCAttempts
    Deployments <- MCDeployments
    ReleaseMissingOk = TRUE
    MaxFaults = 3
SYMMETRY Symmetry
INVARIANTS
    SeatsAreBooked
    RoomsStayTogether
    FailedLeavesNoSession
    ReleaseSettles
CHECK_DEADLOCK FALSE
