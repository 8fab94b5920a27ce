SPECIFICATION FairSpec
CONSTANTS
    s1 = s1
    s2 = s2
    Servers <- MCServers
    Alive <- MCFirst
    NoServer = NoServer
    Size = 2
    MaxRetries = 1
    Drainable <- MCFirst
    MaxFaults = 1
INVARIANTS
    GrantsAreWhole
    SharedRelease
    AttemptsAreQueued
PROPERTIES
    LobbyIsAnswered
CHECK_DEADLOCK FALSE
