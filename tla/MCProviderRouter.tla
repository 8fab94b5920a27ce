-------------------------- MODULE MCProviderRouter ---------------------------
(* Values for TLC: two requests; a server with two seats, whose only room  *)
(* has one, and a server whose limits are all 0, which count as 1; and one *)
(* attempt of a remote provider with two deployments, for attempts do not  *)
(* share any state.                                                        *)
EXTENDS ProviderRouter, Naturals, TLC

CONSTANTS r1, r2, a1, roomA, d1, d2

MCServers == {1, 2}
MCRequests == {r1, r2}
MCAttempts == {a1}
MCDeployments == {d1, d2}
MCRooms == {roomA}
MCCapacity == <<
    [max_players |-> 2, max_rooms |-> 1, room_players |-> 1, region |-> "near"],
    [max_players |-> 0, max_rooms |-> 0, room_players |-> 0, region |-> "far"]>>
MCLatencies == {[region |-> "near", rtt_ms |-> 10], [region |-> "near", rtt_ms |-> 30]}

Symmetry == Permutations(MCRequests) \cup Permutations(MCDeployments)
=============================================================================
