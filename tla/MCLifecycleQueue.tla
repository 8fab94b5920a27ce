--------------------------- MODULE MCLifecycleQueue ---------------------------
(* Values for TLC: two workers and jobs of which one does not parse.         *)
EXTENDS LifecycleQueue, TLC

CONSTANTS w1, w2, j1, bad

TwoWorkers == {w1, w2}
TwoJobs == {j1, bad}
OneInvalid == {bad}

SameLimits == [w \in Workers |-> 2]
=============================================================================
