------------------------ MODULE AssignmentLifecycle ------------------------
(***************************************************************************)
(* What the matchmaker promises about an assignment: the states of         *)
(* AssignmentState in state.rs and the transitions can_transition_to       *)
(* allows.  The detailed modules are shown to implement it.                *)
(***************************************************************************)
CONSTANT Assignments

VARIABLE state   \* "none" until the assignment is created

Terminal == {"disconnected", "rejected", "timed_out", "failed", "deleted"}
States == {"none", "created", "persisted", "preparing", "prepared", "ready",
           "connected"} \cup Terminal

Legal == {<<"none", "created">>}
    \cup ({"created"} \X {"persisted", "preparing", "failed"})
    \cup ({"persisted"} \X {"preparing", "prepared", "rejected", "timed_out", "failed"})
    \cup ({"preparing"} \X {"prepared", "rejected", "timed_out", "failed"})
    \cup ({"prepared"} \X {"ready", "connected", "timed_out", "failed"})
    \cup ({"ready"} \X {"connected", "timed_out", "failed"})
    \cup {<<"connected", "disconnected">>}
    \cup ((States \ ({"none"} \cup Terminal)) \X {"deleted"})

CanTransition(from, to) == <<from, to>> \in Legal

Init == state = [a \in Assignments |-> "none"]

Advance(a, to) ==
    /\ CanTransition(state[a], to)
    /\ state' = [state EXCEPT ![a] = to]

Next == \E a \in Assignments, to \in States : Advance(a, to)

Spec == Init /\ [][Next]_state
=============================================================================
