SPECIFICATION Spec
CONSTANTS
    p1 = p1
    p2 = p2
    k1 = k1
    k2 = k2
    again = again
    Players <- OnePlayer
    Sockets <- TwoSockets
    PlayerOf <- SocketOwners
    NoSocket = NoSocket
    Sizes <- One
    MaxLobbies = 1
INVARIANTS
    ConnectedIsReachable
CHECK_DEADLOCK FALSE
