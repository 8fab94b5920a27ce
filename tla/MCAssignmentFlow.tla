-------------------------- MODULE MCAssignmentFlow --------------------------
(* Values for TLC: two players compete for two game servers.               *)
EXTENDS AssignmentFlow, TLC

CONSTANTS r1, r2, s1, s2

MCRequests == {r1, r2}
MCOneRequest == {r1}
MCOneServer == {s1}
MCDrainable == {s1}
MCServers == {s1, s2}

=============================================================================
