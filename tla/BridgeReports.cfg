SPECIFICATION FairSpec
CONSTANTS
    c1 = c1
    c2 = c2
    Clients <- MCClients
    Connecting <- MCFirst
    MaxFaults = 1
INVARIANTS
    UnackedIsPending
    ActiveIsBacked
PROPERTIES
    RevokedStaysRevoked
    ReportsArrive
CHECK_DEADLOCK FALSE
