-------------------------- MODULE ConnectionMonitor --------------------------
(***************************************************************************)
(* After the grant: the task that watches whether the clients of one       *)
(* assignment (solo play) or of one lobby roster connect in time, the game *)
(* servers that admit them, and the reports between the two that live in   *)
(* expiring key-value buckets.                                             *)
(*                                                                         *)
(* Time is discrete.  A Tick lets every timer advance by one unit and is   *)
(* taken only when nothing is due now: the monitor sleeps or has ended,    *)
(* live servers have published their reports and expired old admissions.   *)
(*                                                                         *)
(* A replacement avoids the server it replaces, so attempt number k is on  *)
(* a server of its own, and <<k, m>> is the seat of member m there.        *)
(***************************************************************************)
EXTENDS Naturals, Sequences, FiniteSets

CONSTANTS
    Members,            \* players that may be in the roster
    MaxRetries,         \* assignment_prepare_max_retries
    AssignmentTimeout,  \* assignment_timeout_secs of the matchmaker
    GateTimeout,        \* assignment_timeout of the game server plugin
    PrepareDelay,       \* time from receiving an assignment to its grant
    ActiveTtl,          \* active_connections_secs
    CapacityTtl,        \* server_capacity_secs
    MaxFaults           \* bound: coordination calls that fail in a behaviour

ASSUME MonitorAssumption ==
    /\ Members # {}
    /\ MaxRetries \in Nat
    /\ AssignmentTimeout \in Nat \ {0}
    /\ GateTimeout \in Nat \ {0}
    /\ PrepareDelay \in 0..GateTimeout
    /\ ActiveTtl \in Nat \ {0}
    /\ CapacityTtl \in Nat \ {0}
    /\ MaxFaults \in Nat

VARIABLES
    roster,       \* members of the assignment, one for solo play; fixed
    pc,           \* where the monitor task is
    k,            \* number of the attempt it watches
    retries,      \* retries_remaining
    timer,        \* what is left of the monitor's sleep
    unchecked,    \* members not checked yet in this round
    missing,      \* timed_out_assignments of each attempt
    unavailable,  \* server_unavailable
    granted,      \* seats whose client was sent a connection grant
    deletes,      \* DeleteAssignment jobs queued per seat
    releases,     \* ReleaseAllocation jobs queued per attempt
    seat,         \* the game server's tracked assignment of each seat
    age,          \* time since each attempt's assignments were received
    reports,      \* connection reports queued for each server's bridge
    unreported,   \* seats a report of which was dropped
    active,       \* time to live of each active_connections entry, 0 if absent
    lapsed,       \* seats whose active_connections entry ran out (history)
    capacity,     \* time to live of each ready server_capacity entry, or 0
    up,           \* servers that are running
    drained,      \* servers an operator drained
    faults        \* coordination calls that have failed

monitorVars == <<pc, k, retries, timer, unchecked, missing, unavailable>>
jobVars     == <<deletes, releases>>
serverVars  == <<seat, age, reports, unreported>>
bucketVars  == <<active, lapsed, capacity>>
worldVars   == <<up, drained>>
vars == <<roster, monitorVars, granted, jobVars, serverVars, bucketVars, worldVars, faults>>

Attempts == 0..MaxRetries
Seats == Attempts \X Members
SeatsOf(a) == {a} \X roster

Ended == {"all_connected", "timed_out", "failed", "abandoned"}
Labels == {"sleep", "check_active", "check_server", "cleanup", "replace", "grant"} \cup Ended
SeatStates == {"none", "waiting", "connected", "disconnected", "expired", "lost"}

\* The monitor starts when the grants of attempt 0 have been sent.
Init ==
    /\ roster \in (SUBSET Members) \ {{}}
    /\ pc = "sleep"
    /\ k = 0
    /\ retries = MaxRetries
    /\ timer = AssignmentTimeout
    /\ unchecked = {}
    /\ missing = [a \in Attempts |-> {}]
    /\ unavailable = FALSE
    /\ granted = SeatsOf(0)
    /\ deletes = [x \in Seats |-> 0]
    /\ releases = [a \in Attempts |-> 0]
    /\ seat = [x \in Seats |-> IF x \in SeatsOf(0) THEN "waiting" ELSE "none"]
    /\ age = [a \in Attempts |-> PrepareDelay]
    /\ reports = [x \in Seats |-> <<>>]
    /\ unreported = {}
    /\ active = [x \in Seats |-> 0]
    /\ lapsed = {}
    /\ capacity = [a \in Attempts |-> IF a = 0 THEN CapacityTtl ELSE 0]
    /\ up = {0}
    /\ drained = {}
    /\ faults = 0

-----------------------------------------------------------------------------
(* The monitor task.                                                       *)

Goto(from, to) ==
    /\ pc = from
    /\ pc' = to

Fault ==
    /\ faults < MaxFaults
    /\ faults' = faults + 1

Wake ==
    /\ timer = 0
    /\ Goto("sleep", "check_active")
    /\ unchecked' = roster
    /\ UNCHANGED <<roster, k, retries, timer, missing, unavailable, granted, jobVars,
                   serverVars, bucketVars, worldVars, faults>>

CheckActiveSleepsOn ==   \* deviation: a missing client is waited for again
    /\ pc = "check_active"
    /\ \E m \in unchecked :
         /\ unchecked' = unchecked \ {m}
         /\ missing' = [missing EXCEPT ![k] = IF active[<<k, m>>] > 0 THEN @ ELSE @ \cup {m}]
    /\ IF unchecked' # {} THEN UNCHANGED <<pc, timer>>
       ELSE IF missing'[k] = {} THEN pc' = "all_connected" /\ UNCHANGED timer
       ELSE pc' = "sleep" /\ timer' = AssignmentTimeout
    /\ UNCHANGED <<roster, k, retries, unavailable, granted, jobVars, serverVars, bucketVars,
                   worldVars, faults>>

\* assignment_has_active_connection for one member; after the last one the
\* monitor returns if nobody is missing.
CheckActive ==
    /\ pc = "check_active"
    /\ \E m \in unchecked :
         /\ unchecked' = unchecked \ {m}
         /\ missing' = [missing EXCEPT ![k] = IF active[<<k, m>>] > 0 THEN @ ELSE @ \cup {m}]
    /\ IF unchecked' # {} THEN UNCHANGED pc
       ELSE Goto("check_active", IF missing'[k] = {} THEN "all_connected" ELSE "check_server")
    /\ UNCHANGED <<roster, k, retries, timer, unavailable, granted, jobVars, serverVars,
                   bucketVars, worldVars, faults>>

CheckActiveError ==
    /\ Fault
    /\ Goto("check_active", "abandoned")
    /\ UNCHANGED <<roster, k, retries, timer, unchecked, missing, unavailable, granted,
                   jobVars, serverVars, bucketVars, worldVars>>

\* assignment_server_unavailable; an error counts as available.
CheckServer ==
    /\ Goto("check_server", "cleanup")
    /\ \/ /\ unavailable' = (k \in drained \/ capacity[k] = 0)
          /\ UNCHANGED faults
       \/ /\ Fault
          /\ unavailable' = FALSE
    /\ UNCHANGED <<roster, k, retries, timer, unchecked, missing, granted, jobVars,
                   serverVars, bucketVars, worldVars>>

\* queue_failed_assignment_cleanup, or queue_failed_lobby_attempt_cleanup: one
\* delete job per member, one release job for the allocation they share; a job
\* that cannot be queued is logged and lost.
QueueCleanup(a) ==
    \/ /\ deletes' = [x \in Seats |-> deletes[x] + (IF x \in SeatsOf(a) THEN 1 ELSE 0)]
       /\ releases' = [releases EXCEPT ![a] = @ + 1]
       /\ UNCHANGED faults
    \/ /\ Fault
       /\ deletes' = [x \in Seats |-> deletes[x] + (IF x \in SeatsOf(a) THEN 1 ELSE 0)]
       /\ UNCHANGED releases
    \/ /\ Fault
       /\ \E m \in roster :
            deletes' = [x \in Seats |->
                          deletes[x] + (IF x \in SeatsOf(a) \ {<<a, m>>} THEN 1 ELSE 0)]
       /\ releases' = [releases EXCEPT ![a] = @ + 1]

Cleanup ==
    /\ QueueCleanup(k)
    /\ IF unavailable /\ retries > 0
         THEN /\ Goto("cleanup", "replace")
              /\ retries' = retries - 1
         ELSE /\ Goto("cleanup", "timed_out")
              /\ UNCHANGED retries
    /\ UNCHANGED <<roster, k, timer, unchecked, missing, unavailable, granted, serverVars,
                   bucketVars, worldVars>>

\* create_prepared_..._with_retries with no retries of its own: another server
\* has acknowledged the whole roster, or the monitor gives up.  What it does to
\* the attempt that is not acknowledged is the subject of AssignmentFlow.
ReplacePrepared ==
    /\ Goto("replace", "grant")
    /\ k' = k + 1
    /\ seat' = [x \in Seats |-> IF x \in SeatsOf(k + 1) THEN "waiting" ELSE seat[x]]
    /\ up' = up \cup {k + 1}
    /\ capacity' = [capacity EXCEPT ![k + 1] = CapacityTtl]
    /\ UNCHANGED <<roster, retries, timer, unchecked, missing, unavailable, granted, jobVars,
                   age, reports, unreported, active, lapsed, drained, faults>>

ReplaceFailsReleases ==   \* deviation: the replaced allocation is released again
    /\ Goto("replace", "failed")
    /\ releases' = [releases EXCEPT ![k] = @ + 1]
    /\ UNCHANGED <<roster, k, retries, timer, unchecked, missing, unavailable, granted,
                   deletes, serverVars, bucketVars, worldVars, faults>>

ReplaceFails ==
    /\ Goto("replace", "failed")
    /\ UNCHANGED <<roster, k, retries, timer, unchecked, missing, unavailable, granted,
                   jobVars, serverVars, bucketVars, worldVars, faults>>

\* The grants go out member by member; after the last the monitor sleeps again.
GrantOne ==
    /\ pc = "grant"
    /\ \E m \in roster :
         /\ <<k, m>> \notin granted
         /\ granted' = granted \cup {<<k, m>>}
    /\ IF SeatsOf(k) \subseteq granted'
         THEN /\ pc' = "sleep"
              /\ timer' = AssignmentTimeout
         ELSE UNCHANGED <<pc, timer>>
    /\ UNCHANGED <<roster, k, retries, unchecked, missing, unavailable, jobVars, serverVars,
                   bucketVars, worldVars, faults>>

\* The token issuer fails, or the player of a solo assignment has closed the
\* websocket (a lobby member without a session is skipped silently).
GrantFails ==
    /\ Goto("grant", "failed")
    /\ QueueCleanup(k)
    /\ UNCHANGED <<roster, k, retries, timer, unchecked, missing, unavailable, granted,
                   serverVars, bucketVars, worldVars>>

-----------------------------------------------------------------------------
(* The game servers, their clients and the operator.                       *)

Running(x) == x[1] \in up

Report(x, connected) == reports' = [reports EXCEPT ![x] = Append(@, connected)]

\* The gate lets the client in and the app reports it.
ClientConnected(x) ==
    /\ Running(x) /\ x \in granted
    /\ seat[x] = "waiting"
    /\ seat' = [seat EXCEPT ![x] = "connected"]
    /\ Report(x, TRUE)
    /\ UNCHANGED <<roster, monitorVars, granted, jobVars, age, unreported, bucketVars,
                   worldVars, faults>>

ClientDisconnected(x) ==
    /\ Running(x)
    /\ seat[x] = "connected"
    /\ seat' = [seat EXCEPT ![x] = "disconnected"]
    /\ Report(x, FALSE)
    /\ UNCHANGED <<roster, monitorVars, granted, jobVars, age, unreported, bucketVars,
                   worldVars, faults>>

OverdueLate(x) ==   \* deviation: > instead of >=
    Running(x) /\ seat[x] = "waiting" /\ age[x[1]] > GateTimeout

OverdueIfGranted(x) ==   \* deviation: only clients that were sent a grant expire
    Running(x) /\ seat[x] = "waiting" /\ x \in granted /\ age[x[1]] >= GateTimeout

Overdue(x) == Running(x) /\ seat[x] = "waiting" /\ age[x[1]] >= GateTimeout

ExpireConnected(a) ==   \* deviation: the connected flag is not looked at
    LET late == {x \in SeatsOf(a) : Running(x) /\ seat[x] \in {"waiting", "connected"}
                                    /\ age[a] >= GateTimeout}
    IN  /\ late # {}
        /\ seat' = [x \in Seats |-> IF x \in late THEN "expired" ELSE seat[x]]
        /\ reports' = [x \in Seats |-> IF x \in late THEN Append(reports[x], FALSE)
                                                      ELSE reports[x]]
        /\ UNCHANGED <<roster, monitorVars, granted, jobVars, age, unreported, bucketVars,
                       worldVars, faults>>

\* expire_unconnected_assignments: all that are late in one frame.
ExpireUnconnected(a) ==
    LET late == {x \in SeatsOf(a) : Overdue(x)}
    IN  /\ late # {}
        /\ seat' = [x \in Seats |-> IF x \in late THEN "expired" ELSE seat[x]]
        /\ reports' = [x \in Seats |-> IF x \in late THEN Append(reports[x], FALSE)
                                                      ELSE reports[x]]
        /\ UNCHANGED <<roster, monitorVars, granted, jobVars, age, unreported, bucketVars,
                       worldVars, faults>>

\* publish_report: a connected report (re)starts the entry's time to live, the
\* other kind deletes the entry.
PublishReport(x) ==
    /\ Running(x)
    /\ reports[x] # <<>>
    /\ active' = [active EXCEPT ![x] = IF Head(reports[x]) THEN ActiveTtl ELSE 0]
    /\ reports' = [reports EXCEPT ![x] = Tail(@)]
    /\ UNCHANGED <<roster, monitorVars, granted, jobVars, seat, age, unreported, lapsed,
                   capacity, worldVars, faults>>

ReportLost(x) ==
    /\ Fault
    /\ Running(x)
    /\ reports[x] # <<>>
    /\ reports' = [reports EXCEPT ![x] = Tail(@)]
    /\ unreported' = unreported \cup {x}
    /\ UNCHANGED <<roster, monitorVars, granted, jobVars, seat, age, bucketVars, worldVars>>

PublishCapacity(a) ==
    /\ a \in up
    /\ capacity[a] < CapacityTtl
    /\ capacity' = [capacity EXCEPT ![a] = CapacityTtl]
    /\ UNCHANGED <<roster, monitorVars, granted, jobVars, serverVars, active, lapsed,
                   worldVars, faults>>

\* The process dies: its clients are cut off and its queued reports are gone,
\* what it published stays in the buckets until it expires.
ServerDies(a) ==
    /\ a \in up
    /\ up' = up \ {a}
    /\ seat' = [x \in Seats |->
                   CASE x[1] = a /\ seat[x] = "waiting" -> "lost"
                     [] x[1] = a /\ seat[x] = "connected" -> "disconnected"
                     [] OTHER -> seat[x]]
    /\ reports' = [x \in Seats |-> IF x[1] = a THEN <<>> ELSE reports[x]]
    /\ UNCHANGED <<roster, monitorVars, granted, jobVars, age, unreported, bucketVars,
                   drained, faults>>

DrainGameServer(a) ==
    /\ a \in 0..k \ drained
    /\ drained' = drained \cup {a}
    /\ UNCHANGED <<roster, monitorVars, granted, jobVars, serverVars, bucketVars, up, faults>>

-----------------------------------------------------------------------------
Less(n) == IF n = 0 THEN 0 ELSE n - 1

Quiet ==
    /\ pc \in Ended \/ (pc = "sleep" /\ timer > 0)
    /\ \A x \in Seats : Running(x) => reports[x] = <<>> /\ ~Overdue(x)

\* One unit of time.  Ages are not counted far beyond GateTimeout.
Tick ==
    /\ Quiet
    /\ timer' = Less(timer)
    /\ age' = [a \in Attempts |-> IF a <= k /\ age[a] <= GateTimeout THEN age[a] + 1 ELSE age[a]]
    /\ active' = [x \in Seats |-> Less(active[x])]
    /\ lapsed' = lapsed \cup {x \in Seats : active[x] = 1}
    /\ capacity' = [a \in Attempts |-> Less(capacity[a])]
    /\ UNCHANGED <<roster, pc, k, retries, unchecked, missing, unavailable, granted, jobVars,
                   seat, reports, unreported, worldVars, faults>>

MonitorStep ==
    \/ Wake \/ CheckActive \/ CheckServer \/ Cleanup \/ ReplacePrepared \/ ReplaceFails
    \/ GrantOne

Next ==
    \/ MonitorStep \/ CheckActiveError \/ GrantFails
    \/ \E x \in Seats : \/ ClientConnected(x) \/ ClientDisconnected(x)
                        \/ PublishReport(x) \/ ReportLost(x)
    \/ \E a \in Attempts : \/ ExpireUnconnected(a) \/ PublishCapacity(a)
                           \/ ServerDies(a) \/ DrainGameServer(a)
    \/ Tick

\* The monitor task is scheduled, live servers run their frames and bridges, and
\* time passes.
Fairness ==
    /\ WF_vars(MonitorStep)
    /\ WF_vars(Tick)
    /\ \A x \in Seats : WF_vars(PublishReport(x))
    /\ \A a \in Attempts : WF_vars(ExpireUnconnected(a))

Spec == Init /\ [][Next]_vars
FairSpec == Spec /\ Fairness

-----------------------------------------------------------------------------
(* Properties.                                                             *)

TypeOK ==
    /\ roster \in SUBSET Members
    /\ pc \in Labels
    /\ k \in Attempts
    /\ retries \in 0..MaxRetries
    /\ timer \in 0..AssignmentTimeout
    /\ unchecked \in SUBSET Members
    /\ missing \in [Attempts -> SUBSET Members]
    /\ unavailable \in BOOLEAN
    /\ granted \in SUBSET Seats
    /\ deletes \in [Seats -> Nat]
    /\ releases \in [Attempts -> Nat]
    /\ seat \in [Seats -> SeatStates]
    /\ age \in [Attempts -> 0..GateTimeout + 1]
    /\ reports \in [Seats -> Seq(BOOLEAN)]
    /\ unreported \in SUBSET Seats
    /\ active \in [Seats -> 0..ActiveTtl]
    /\ lapsed \in SUBSET Seats
    /\ capacity \in [Attempts -> 0..CapacityTtl]
    /\ up \in SUBSET Attempts
    /\ drained \in SUBSET Attempts
    /\ faults \in 0..MaxFaults

\* Attempts the monitor watched and then turned away from.
GivenUp == {a \in Attempts :
              \/ a < k
              \/ a = k /\ pc \in {"replace", "timed_out"}
              \/ a = k /\ pc = "failed" /\ SeatsOf(k) \subseteq granted}

\* Whom the monitor took for missing is out: by the time it acts on its check the
\* gate is closed for that client, so that it cannot turn up on the old server while
\* a replacement opens; and a client that is in the game was taken for missing only
\* because its report was lost or its entry had run out.
MissingStaysMissing ==
    \A a \in GivenUp : \A m \in missing[a] :
        /\ seat[<<a, m>>] # "waiting"
        /\ seat[<<a, m>>] = "connected" => <<a, m>> \in unreported \cup lapsed

\* Each attempt is released at most once, and an attempt the monitor turned away
\* from was, unless a coordination call failed.
ReleasedOnce ==
    \A a \in Attempts :
        /\ releases[a] <= 1
        /\ a \in GivenUp /\ faults = 0 => releases[a] = 1
        /\ releases[a] = 1 => a \in GivenUp \/ (a = k /\ pc = "failed")

\* What docs/implementation_status.md:506 asks for: the cleanup after the timeout does
\* not hit clients that connected.  (An entry is written once, when the client
\* connects, and lives for ActiveTtl, while the monitor looks AssignmentTimeout after
\* the grant.)
ConnectedIsKept ==
    \A a \in GivenUp : \A m \in roster :
        seat[<<a, m>>] = "connected" => <<a, m>> \in unreported

\* The states of state.rs as the game server and the monitor tell them.  Of a client
\* that is, or was, in the game the game server tells; whether the monitor turned away
\* from it nevertheless is the matter of ConnectedIsKept.
StateOf(x) ==
    CASE seat[x] = "none" -> "none"
      [] seat[x] \in {"connected", "disconnected"} -> seat[x]
      [] OTHER -> IF x[1] \in GivenUp THEN "timed_out"
                  ELSE IF x[1] = k /\ pc = "failed" THEN "failed"
                  ELSE IF x \in granted THEN "ready" ELSE "prepared"

Lifecycle == INSTANCE AssignmentLifecycle
    WITH Assignments <- Seats, state <- [x \in Seats |-> StateOf(x)]

Solo == \E p \in Members : roster = {p}

\* In solo play an assignment moves, from the acknowledgement on, along the
\* transitions of state.rs: one that timed out or failed is not connected later, and
\* one that is connected only disconnects.  (A lobby fails as a whole while members
\* that already have their grants may still connect.)
FollowsLifecycle ==
    [][Solo =>
         \A x \in Seats :
           (StateOf(x) # "none" /\ StateOf(x)' # StateOf(x))
               => Lifecycle!CanTransition(StateOf(x), StateOf(x)')]_vars

\* The monitor ends: with everybody connected, with a timeout, with an error, or
\* after at most MaxRetries replacements.
MonitorEnds == <>(pc \in Ended)

\* A client that was let in is cut off or expires if it does not connect; no gate
\* entry of a running server stays open for ever.
GatesClose == \A x \in Seats : seat[x] = "waiting" ~> seat[x] # "waiting"
=============================================================================
