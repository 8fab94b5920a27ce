--------------------------- MODULE MCServerBridge ---------------------------
(* Values for TLC: two clients of one game server, of which one connects.  *)
EXTENDS ServerBridge

CONSTANTS c1, c2

MCClients == {c1, c2}
MCFirst == {c1}
=============================================================================
