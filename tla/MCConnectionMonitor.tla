------------------------ MODULE MCConnectionMonitor ------------------------
(* Values for TLC: two players that play alone or share a lobby.           *)
EXTENDS ConnectionMonitor, TLC

CONSTANTS p1, p2

MCMembers == {p1, p2}
MCOne == {p1}

\* Bound: failing calls and drains are left to the rosters of one.  It cuts no step
\* that Fairness is about, each of which can also be taken without a failure.
LobbiesRunSmoothly == Cardinality(roster) > 1 => faults = 0 /\ drained = {}
=============================================================================
