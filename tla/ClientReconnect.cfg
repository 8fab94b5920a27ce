SPECIFICATION FairSpec
CONSTANTS
    MaxCommands = 2
    MaxConnections = 2
INVARIANTS
    CommandsRunOnce
    ViewFollowsSession
PROPERTIES
    LossIsReported
CHECK_DEADLOCK FALSE
