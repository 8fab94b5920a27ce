---------------------------- MODULE MCLobbyRuntime ----------------------------
(* Values for TLC: two players of whom one may connect twice.              *)
EXTENDS LobbyRuntime

CONSTANTS p1, p2, k1, k2, again

TwoPlayers == {p1, p2}
OnePlayer == {p1}
ThreeSockets == {k1, k2, again}
TwoSockets == {k1, again}

SocketOwners == [k \in Sockets |-> IF k = k2 THEN p2 ELSE p1]

OneOrTwo == {0, 2}
One == {1}
=============================================================================
