-------------------------- MODULE MCLobbyAssignment --------------------------
(* Values for TLC: a lobby of two and two game servers.                    *)
EXTENDS LobbyAssignment

CONSTANTS s1, s2

MCServers == {s1, s2}
MCFirst == {s1}
=============================================================================
