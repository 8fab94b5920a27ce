SPECIFICATION Spec
CONSTANTS
    p1 = p1
    p2 = p2
    k1 = k1
    k2 = k2
    again = again
    Players <- TwoPlayers
    Sockets <- ThreeSockets
    PlayerOf <- SocketOwners
    NoSocket = NoSocket
    Sizes <- OneOrTwo
    MaxLobbies = 2
INVARIANTS
    SessionsAreLive
    OneAttempt
    RosterIsWhole
CHECK_DEADLOCK FALSE
