------------------------ MODULE ConnectionMonitorProofs ------------------------
(***************************************************************************)
(* Proofs about the connection monitors, for every roster, every number of *)
(* replacements and faults and every time to live of the buckets:          *)
(* allocations are released once, and, when the gate closes before the     *)
(* monitor looks, whom the monitor took for missing stays out.             *)
(***************************************************************************)
EXTENDS ConnectionMonitor, TLAPS

\* The gate of an attempt closes before the monitor looks: the game server's timeout
\* runs from the time it received the assignment, the matchmaker's from the grant.
\* Equal timeouts, the default, are enough, for preparing takes time.
GateClosesFirst == AssignmentTimeout + PrepareDelay > GateTimeout

\* Every replacement, also one that is being made, was taken from the retries.
RetriesAreSpent ==
    /\ roster # {}
    /\ k + retries + (IF pc = "replace" THEN 1 ELSE 0) <= MaxRetries

\* An attempt is released when the monitor turns away from it, and not before.
ReleasesFollow ==
    \A a \in Attempts :
        IF a < k \/ (a = k /\ pc \in {"replace", "timed_out", "failed"})
          THEN releases[a] <= 1 /\ (faults = 0 => releases[a] = 1)
          ELSE releases[a] = 0

ReleaseIndInv == TypeOK /\ RetriesAreSpent /\ ReleasesFollow

\* Nothing has happened to attempts that are still to come.
FutureIsFresh ==
    \A a \in Attempts : a > k =>
        /\ age[a] = PrepareDelay
        /\ missing[a] = {}
        /\ \A m \in Members :
             seat[<<a, m>>] = "none" /\ reports[<<a, m>>] = <<>> /\ <<a, m>> \notin granted

\* The age of the attempt that is watched and the sleep of its monitor run in step.
ClockRuns ==
    /\ pc = "grant" =>
         age[k] = PrepareDelay /\ missing[k] = {} /\ ~(SeatsOf(k) \subseteq granted)
    /\ pc = "sleep" =>
         /\ missing[k] = {}
         /\ age[k] > GateTimeout \/ age[k] + timer >= PrepareDelay + AssignmentTimeout
    /\ pc = "check_active" => age[k] > GateTimeout

\* A gate entry is open for as long as the game server's timeout.
WaitingInTime ==
    \A x \in Seats : seat[x] = "waiting" =>
        /\ x[1] \in up /\ x[1] <= k
        /\ age[x[1]] <= GateTimeout
        /\ reports[x] = <<>>

\* The report of a connected client is queued since the last tick, or has been
\* published, and its entry is there or has run out.
Reported(x) ==
    \/ reports[x] = <<TRUE>> /\ age[k] <= GateTimeout
    \/ reports[x] = <<>> /\ active[x] > 0
    \/ x \in lapsed

ConnectedIsReported ==
    \A m \in Members :
        seat[<<k, m>>] = "connected" /\ <<k, m>> \notin unreported =>
            k \in up /\ Reported(<<k, m>>)

\* Whom the monitor found missing can no longer get in.
MissingAreOut ==
    /\ unchecked \subseteq roster
    /\ \A a \in Attempts : missing[a] \subseteq roster
    /\ \A a \in Attempts : \A m \in missing[a] :
         /\ seat[<<a, m>>] # "waiting"
         /\ seat[<<a, m>>] = "connected" => <<a, m>> \in unreported \cup lapsed

\* The monitor turns away from an attempt only when somebody is missing.
GivenUpIsMissed ==
    \A a \in Attempts :
        \/ a < k
        \/ a = k /\ pc \in {"check_server", "cleanup", "replace", "timed_out"}
        \/ a = k /\ pc = "failed" /\ SeatsOf(k) \subseteq granted
        => missing[a] # {}

TimingIndInv ==
    /\ TypeOK /\ RetriesAreSpent
    /\ FutureIsFresh
    /\ ClockRuns
    /\ WaitingInTime
    /\ ConnectedIsReported
    /\ MissingAreOut
    /\ GivenUpIsMissed

-----------------------------------------------------------------------------
(* Releases.                                                               *)

\* The initial states satisfy the inductive invariant of the releases.
LEMMA InitReleaseInv == Init => ReleaseIndInv
<1> SUFFICES ASSUME Init PROVE ReleaseIndInv
    OBVIOUS
<1>1. TypeOK
  <2>1. 0 \in Attempts /\ SeatsOf(0) \subseteq Seats
      BY MonitorAssumption DEF Init, Attempts, Seats, SeatsOf
  <2>2. /\ roster \in SUBSET Members /\ granted \in SUBSET Seats
        /\ seat \in [Seats -> SeatStates]
      BY <2>1 DEF Init, SeatStates
  <2>3. /\ reports \in [Seats -> Seq(BOOLEAN)]
        /\ deletes \in [Seats -> Nat] /\ releases \in [Attempts -> Nat]
      BY DEF Init
  <2>4. /\ active \in [Seats -> 0..ActiveTtl]
        /\ capacity \in [Attempts -> 0..CapacityTtl]
        /\ timer \in 0..AssignmentTimeout /\ faults \in 0..MaxFaults
        /\ retries \in 0..MaxRetries
      BY MonitorAssumption DEF Init
  <2>5. age \in [Attempts -> 0..GateTimeout + 1]
    <3>1. PrepareDelay \in 0..GateTimeout + 1
        BY MonitorAssumption
    <3> QED
        BY <3>1 DEF Init
  <2>6. /\ pc \in Labels /\ k \in Attempts /\ unchecked \in SUBSET Members
        /\ missing \in [Attempts -> SUBSET Members] /\ unavailable \in BOOLEAN
        /\ unreported \in SUBSET Seats /\ lapsed \in SUBSET Seats
        /\ up \in SUBSET Attempts /\ drained \in SUBSET Attempts
      BY <2>1 DEF Init, Labels
  <2> QED
      BY <2>2, <2>3, <2>4, <2>5, <2>6 DEF TypeOK
<1>2. RetriesAreSpent
    BY MonitorAssumption DEF Init, RetriesAreSpent
<1>3. ReleasesFollow
    BY DEF Init, ReleasesFollow
<1> QED
    BY <1>1, <1>2, <1>3 DEF ReleaseIndInv

\* A cleanup queues at most one release job, and one unless a call fails.
LEMMA QueueCleanupReleases ==
    ASSUME TypeOK, NEW a \in Attempts, QueueCleanup(a)
    PROVE  /\ deletes' \in [Seats -> Nat] /\ releases' \in [Attempts -> Nat]
           /\ faults' \in 0..MaxFaults /\ (faults' = 0 => faults = 0)
           /\ \A b \in Attempts \ {a} : releases'[b] = releases[b]
           /\ releases'[a] \in {releases[a], releases[a] + 1}
           /\ faults' = 0 => releases'[a] = releases[a] + 1
<1>1. /\ deletes \in [Seats -> Nat] /\ releases \in [Attempts -> Nat]
      /\ faults \in 0..MaxFaults /\ MaxFaults \in Nat
    BY MonitorAssumption DEF TypeOK
<1>2. deletes' \in [Seats -> Nat]
    BY <1>1 DEF QueueCleanup
<1>3. /\ faults' \in 0..MaxFaults /\ (faults' = 0 => faults = 0)
      /\ \/ releases' = releases /\ faults' # 0
         \/ releases' = [releases EXCEPT ![a] = releases[a] + 1]
    BY <1>1 DEF QueueCleanup, Fault
<1> QED
    BY <1>1, <1>2, <1>3

\* No step spends more retries than there are, so that there is a next attempt.
LEMMA StepRetriesAreSpent ==
    ASSUME TypeOK, RetriesAreSpent, [Next]_vars
    PROVE  RetriesAreSpent'
<1>a. k \in Nat /\ retries \in Nat /\ MaxRetries \in Nat
    BY MonitorAssumption DEF TypeOK, Attempts
<1> USE DEF RetriesAreSpent, Goto
<1>1. CASE Cleanup
    BY <1>a, <1>1 DEF Cleanup
<1>2. CASE ReplacePrepared
    BY <1>a, <1>2 DEF ReplacePrepared
<1>3. CASE UNCHANGED <<roster, pc, k, retries>>
    BY <1>3
<1>4. ASSUME UNCHANGED <<roster, k, retries>>, pc' # "replace" PROVE RetriesAreSpent'
    BY <1>a, <1>4
<1>5. CASE CheckActive \/ Wake \/ CheckServer \/ ReplaceFails \/ GrantOne
    BY <1>3, <1>4, <1>5 DEF CheckActive, Wake, CheckServer, ReplaceFails, GrantOne
<1>6. CASE CheckActiveError \/ GrantFails \/ Tick
    BY <1>3, <1>4, <1>6 DEF CheckActiveError, GrantFails, Tick
<1>7. ASSUME NEW x \in Seats,
             ClientConnected(x) \/ ClientDisconnected(x) \/ PublishReport(x) \/ ReportLost(x)
      PROVE  RetriesAreSpent'
    BY <1>3, <1>7 DEF ClientConnected, ClientDisconnected, PublishReport, ReportLost, monitorVars
<1>8. ASSUME NEW a \in Attempts,
             ExpireUnconnected(a) \/ PublishCapacity(a) \/ ServerDies(a) \/ DrainGameServer(a)
      PROVE  RetriesAreSpent'
    BY <1>3, <1>8 DEF ExpireUnconnected, PublishCapacity, ServerDies, DrainGameServer, monitorVars
<1>9. CASE UNCHANGED vars
    BY <1>3, <1>9 DEF vars, monitorVars
<1> QED
    BY <1>1, <1>2, <1>5, <1>6, <1>7, <1>8, <1>9 DEF Next, MonitorStep

\* The monitor's own steps keep the types.
LEMMA MonitorStepTypeOK ==
    ASSUME TypeOK, RetriesAreSpent, MonitorStep \/ CheckActiveError \/ GrantFails
    PROVE  TypeOK'
<1>a. /\ k \in Attempts /\ k \in Nat /\ retries \in Nat /\ MaxRetries \in Nat
      /\ CapacityTtl \in Nat /\ AssignmentTimeout \in Nat /\ MaxFaults \in Nat /\ faults \in Nat
    BY MonitorAssumption DEF TypeOK, Attempts
<1> USE DEF Goto, Fault, jobVars, serverVars, bucketVars, worldVars
<1>1. CASE Wake
    BY <1>1 DEF Wake, TypeOK, Labels, Ended
<1>2. CASE CheckActive
  <2>1. UNCHANGED <<roster, k, retries, timer, unavailable, granted, jobVars, serverVars,
                    bucketVars, worldVars, faults>>
      BY <1>2 DEF CheckActive
  <2>2. unchecked' \in SUBSET Members /\ missing' \in [Attempts -> SUBSET Members]
      BY <1>a, <1>2 DEF CheckActive, TypeOK
  <2>3. pc' \in Labels
      BY <1>2 DEF CheckActive, TypeOK, Labels, Ended
  <2> QED
      BY <2>1, <2>2, <2>3 DEF TypeOK
<1>3. CASE CheckServer
  <2>1. faults' \in 0..MaxFaults /\ pc' \in Labels
      BY <1>a, <1>3 DEF CheckServer, TypeOK, Labels
  <2>2. unavailable' \in BOOLEAN
    <3>1. unavailable' = (k \in drained \/ capacity[k] = 0) \/ unavailable' = FALSE
        BY <1>3, Zenon DEF CheckServer
    <3> QED
        BY <3>1, Zenon
  <2> QED
      BY <1>3, <2>1, <2>2 DEF CheckServer, TypeOK
<1>4. CASE Cleanup
  <2>1. /\ deletes' \in [Seats -> Nat] /\ releases' \in [Attempts -> Nat]
        /\ faults' \in 0..MaxFaults
      BY <1>a, <1>4, QueueCleanupReleases DEF Cleanup
  <2>2. pc' \in Labels /\ retries' \in 0..MaxRetries
      BY <1>a, <1>4 DEF Cleanup, TypeOK, Labels, Ended
  <2> QED
      BY <1>4, <2>1, <2>2 DEF Cleanup, TypeOK
<1>5. CASE ReplacePrepared
  <2>1. k + 1 \in Attempts
      BY <1>a, <1>5 DEF ReplacePrepared, RetriesAreSpent, Attempts
  <2>2. /\ seat' \in [Seats -> SeatStates] /\ capacity' \in [Attempts -> 0..CapacityTtl]
        /\ up' \in SUBSET Attempts /\ pc' \in Labels /\ k' \in Attempts
      BY <1>a, <1>5, <2>1 DEF ReplacePrepared, TypeOK, Labels, SeatStates
  <2> QED
      BY <1>5, <2>2 DEF ReplacePrepared, TypeOK
<1>6. CASE ReplaceFails
    BY <1>6 DEF ReplaceFails, TypeOK, Labels, Ended
<1>7. CASE GrantOne
  <2>1. granted' \in SUBSET Seats
    <3>1. PICK m \in roster : granted' = granted \cup {<<k, m>>}
        BY <1>7 DEF GrantOne
    <3>2. <<k, m>> \in Seats
        BY <1>a, <3>1 DEF TypeOK, Seats
    <3> QED
        BY <3>1, <3>2 DEF TypeOK
  <2>2. pc' \in Labels /\ timer' \in 0..AssignmentTimeout
      BY <1>a, <1>7 DEF GrantOne, TypeOK, Labels
  <2> QED
      BY <1>7, <2>1, <2>2 DEF GrantOne, TypeOK
<1>8. CASE CheckActiveError
  <2>1. faults' \in 0..MaxFaults /\ pc' \in Labels
      BY <1>a, <1>8 DEF CheckActiveError, TypeOK, Labels, Ended
  <2>2. UNCHANGED <<roster, k, retries, timer, unchecked, missing, unavailable, granted,
                    jobVars, serverVars, bucketVars, worldVars>>
      BY <1>8 DEF CheckActiveError
  <2> QED
      BY <2>1, <2>2 DEF TypeOK
<1>9. CASE GrantFails
  <2>1. /\ deletes' \in [Seats -> Nat] /\ releases' \in [Attempts -> Nat]
        /\ faults' \in 0..MaxFaults /\ pc' \in Labels
      BY <1>a, <1>9, QueueCleanupReleases DEF GrantFails, Labels, Ended
  <2> QED
      BY <1>9, <2>1 DEF GrantFails, TypeOK
<1> QED
    BY <1>1, <1>2, <1>3, <1>4, <1>5, <1>6, <1>7, <1>8, <1>9 DEF MonitorStep

\* A queue of reports stays one when a report is appended or taken.
LEMMA AppendIsSequence ==
    ASSUME NEW s \in Seq(BOOLEAN), NEW b \in BOOLEAN
    PROVE  Append(s, b) \in Seq(BOOLEAN)
OBVIOUS

LEMMA TailIsSequence ==
    ASSUME NEW s \in Seq(BOOLEAN), s # <<>>
    PROVE  Tail(s) \in Seq(BOOLEAN)
OBVIOUS

LEMMA ReportsStaySequences ==
    ASSUME NEW f \in [Seats -> Seq(BOOLEAN)], NEW x \in Seats, NEW s \in Seq(BOOLEAN)
    PROVE  [f EXCEPT ![x] = s] \in [Seats -> Seq(BOOLEAN)]
OBVIOUS

\* The steps of the servers, the clients and the operator, and time, keep the types.
LEMMA WorldTypeOK ==
    ASSUME TypeOK, Next, ~(MonitorStep \/ CheckActiveError \/ GrantFails)
    PROVE  TypeOK'
<1>a. /\ CapacityTtl \in Nat /\ ActiveTtl \in Nat /\ AssignmentTimeout \in Nat
      /\ GateTimeout \in Nat /\ MaxFaults \in Nat /\ faults \in Nat /\ k \in Nat
    BY MonitorAssumption DEF TypeOK, Attempts
<1> USE DEF Fault, Report, monitorVars, jobVars, serverVars, bucketVars, worldVars
<1>1. ASSUME NEW x \in Seats, ClientConnected(x) \/ ClientDisconnected(x) PROVE TypeOK'
  <2>1. PICK b \in BOOLEAN : reports' = [reports EXCEPT ![x] = Append(reports[x], b)]
      BY <1>1 DEF ClientConnected, ClientDisconnected
  <2>2. reports' \in [Seats -> Seq(BOOLEAN)]
      BY <2>1, ReportsStaySequences, AppendIsSequence DEF TypeOK
  <2>3. seat' \in [Seats -> SeatStates]
      BY <1>1 DEF ClientConnected, ClientDisconnected, TypeOK, SeatStates
  <2> QED
      BY <1>1, <2>2, <2>3 DEF ClientConnected, ClientDisconnected, TypeOK
<1>2. ASSUME NEW x \in Seats, PublishReport(x) PROVE TypeOK'
  <2>1. /\ reports[x] \in Seq(BOOLEAN) /\ reports[x] # <<>>
        /\ reports' = [reports EXCEPT ![x] = Tail(reports[x])]
        /\ active' = [active EXCEPT ![x] = IF Head(reports[x]) THEN ActiveTtl ELSE 0]
      BY <1>2 DEF PublishReport, TypeOK
  <2>2. reports' \in [Seats -> Seq(BOOLEAN)]
      BY <2>1, ReportsStaySequences, TailIsSequence DEF TypeOK
  <2>3. active' \in [Seats -> 0..ActiveTtl]
    <3>1. active \in [Seats -> 0..ActiveTtl] /\ ActiveTtl \in 0..ActiveTtl /\ 0 \in 0..ActiveTtl
        BY <1>a DEF TypeOK
    <3>2. PICK t \in 0..ActiveTtl : active' = [active EXCEPT ![x] = t]
        BY <2>1, <3>1, Zenon
    <3> QED
        BY <3>1, <3>2
  <2> QED
      BY <1>2, <2>2, <2>3 DEF PublishReport, TypeOK
<1>3. ASSUME NEW x \in Seats, ReportLost(x) PROVE TypeOK'
  <2>1. /\ reports[x] \in Seq(BOOLEAN) /\ reports[x] # <<>>
        /\ reports' = [reports EXCEPT ![x] = Tail(reports[x])]
      BY <1>3 DEF ReportLost, TypeOK
  <2>2. reports' \in [Seats -> Seq(BOOLEAN)]
      BY <2>1, ReportsStaySequences, TailIsSequence DEF TypeOK
  <2>3. faults' \in 0..MaxFaults /\ unreported' \in SUBSET Seats
      BY <1>a, <1>3 DEF ReportLost, TypeOK
  <2> QED
      BY <1>3, <2>2, <2>3 DEF ReportLost, TypeOK
<1>4. ASSUME NEW a \in Attempts, ExpireUnconnected(a) PROVE TypeOK'
  <2> DEFINE late == {x \in SeatsOf(a) : Overdue(x)}
  <2>a. /\ seat' = [x \in Seats |-> IF x \in late THEN "expired" ELSE seat[x]]
        /\ reports' = [x \in Seats |-> IF x \in late THEN Append(reports[x], FALSE)
                                                      ELSE reports[x]]
      BY <1>4 DEF ExpireUnconnected
  <2> HIDE DEF late
  <2>b. \A x \in Seats : reports[x] \in Seq(BOOLEAN) /\ Append(reports[x], FALSE) \in Seq(BOOLEAN)
      BY AppendIsSequence DEF TypeOK
  <2>1. seat' \in [Seats -> SeatStates] /\ reports' \in [Seats -> Seq(BOOLEAN)]
      BY <2>a, <2>b DEF TypeOK, SeatStates
  <2> QED
      BY <1>4, <2>1 DEF ExpireUnconnected, TypeOK
<1>5. ASSUME NEW a \in Attempts, PublishCapacity(a) PROVE TypeOK'
  <2>1. capacity' \in [Attempts -> 0..CapacityTtl]
      BY <1>a, <1>5 DEF PublishCapacity, TypeOK
  <2> QED
      BY <1>5, <2>1 DEF PublishCapacity, TypeOK
<1>6. ASSUME NEW a \in Attempts, ServerDies(a) PROVE TypeOK'
  <2>1. seat' \in [Seats -> SeatStates]
      BY <1>6 DEF ServerDies, TypeOK, SeatStates
  <2>2. reports' \in [Seats -> Seq(BOOLEAN)]
    <3>1. reports' = [x \in Seats |-> IF x[1] = a THEN <<>> ELSE reports[x]]
        BY <1>6 DEF ServerDies
    <3>2. <<>> \in Seq(BOOLEAN) /\ \A x \in Seats : reports[x] \in Seq(BOOLEAN)
        BY DEF TypeOK
    <3> QED
        BY <3>1, <3>2
  <2> QED
      BY <1>6, <2>1, <2>2 DEF ServerDies, TypeOK
<1>7. ASSUME NEW a \in Attempts, DrainGameServer(a) PROVE TypeOK'
    BY <1>7 DEF DrainGameServer, TypeOK
<1>8. CASE Tick
  <2>1. timer' \in 0..AssignmentTimeout
      BY <1>a, <1>8 DEF Tick, TypeOK, Less
  <2>2. age' \in [Attempts -> 0..GateTimeout + 1]
    <3>1. age' = [a \in Attempts |->
                    IF a <= k /\ age[a] <= GateTimeout THEN age[a] + 1 ELSE age[a]]
        BY <1>8 DEF Tick
    <3>2. \A a \in Attempts : age[a] \in 0..GateTimeout + 1
        BY DEF TypeOK
    <3> QED
        BY <1>a, <3>1, <3>2
  <2>3. active' \in [Seats -> 0..ActiveTtl]
    <3>1. \A x \in Seats : active[x] \in 0..ActiveTtl
        BY DEF TypeOK
    <3> QED
        BY <1>a, <1>8, <3>1 DEF Tick, Less
  <2>4. capacity' \in [Attempts -> 0..CapacityTtl]
    <3>1. \A a \in Attempts : capacity[a] \in 0..CapacityTtl
        BY DEF TypeOK
    <3> QED
        BY <1>a, <1>8, <3>1 DEF Tick, Less
  <2>5. lapsed' \in SUBSET Seats
      BY <1>8 DEF Tick, TypeOK
  <2> QED
      BY <1>8, <2>1, <2>2, <2>3, <2>4, <2>5 DEF Tick, TypeOK
<1> QED
    BY <1>1, <1>2, <1>3, <1>4, <1>5, <1>6, <1>7, <1>8 DEF Next

\* Every step keeps the types.
LEMMA StepTypeOK ==
    ASSUME TypeOK, RetriesAreSpent, [Next]_vars
    PROVE  TypeOK'
<1>1. CASE UNCHANGED vars
    BY <1>1 DEF vars, monitorVars, jobVars, serverVars, bucketVars, worldVars, TypeOK
<1> QED
    BY <1>1, MonitorStepTypeOK, WorldTypeOK

\* What the servers, the clients, the operator and time leave alone.
LEMMA WorldKeepsMonitor ==
    ASSUME Next, ~(MonitorStep \/ CheckActiveError \/ GrantFails)
    PROVE  /\ UNCHANGED <<roster, pc, k, retries, unchecked, missing, granted, jobVars>>
           /\ faults' = 0 => faults = 0 \/ faults \notin Nat
<1> USE DEF Fault, monitorVars
<1>1. ASSUME NEW x \in Seats, ClientConnected(x) \/ ClientDisconnected(x) \/ PublishReport(x)
      PROVE  UNCHANGED <<roster, monitorVars, granted, jobVars, faults>>
    BY <1>1 DEF ClientConnected, ClientDisconnected, PublishReport
<1>2. ASSUME NEW x \in Seats, ReportLost(x)
      PROVE  UNCHANGED <<roster, monitorVars, granted, jobVars>> /\ faults' = faults + 1
    BY <1>2 DEF ReportLost
<1>3. ASSUME NEW a \in Attempts,
             ExpireUnconnected(a) \/ PublishCapacity(a) \/ ServerDies(a) \/ DrainGameServer(a)
      PROVE  UNCHANGED <<roster, monitorVars, granted, jobVars, faults>>
    BY <1>3 DEF ExpireUnconnected, PublishCapacity, ServerDies, DrainGameServer
<1>4. CASE Tick
    BY <1>4 DEF Tick
<1> QED
    BY <1>1, <1>2, <1>3, <1>4 DEF Next

\* Every step keeps what is said about releases.
LEMMA StepReleasesFollow ==
    ASSUME ReleaseIndInv, [Next]_vars
    PROVE  ReleasesFollow'
<1>a. /\ TypeOK /\ RetriesAreSpent /\ ReleasesFollow
      /\ k \in Attempts /\ k \in Nat /\ Attempts \subseteq Nat
      /\ releases \in [Attempts -> Nat] /\ faults \in Nat
  <2>1. TypeOK /\ RetriesAreSpent /\ ReleasesFollow
      BY DEF ReleaseIndInv
  <2>2. k \in Attempts /\ releases \in [Attempts -> Nat] /\ faults \in 0..MaxFaults
      BY <2>1 DEF TypeOK
  <2>3. Attempts \subseteq Nat /\ 0..MaxFaults \subseteq Nat
      BY MonitorAssumption DEF Attempts
  <2> QED
      BY <2>1, <2>2, <2>3
<1> USE DEF Goto
<1>1. ASSUME UNCHANGED <<pc, k, releases>>, faults' = 0 => faults = 0
      PROVE  ReleasesFollow'
    BY <1>a, <1>1 DEF ReleasesFollow
<1>2. ASSUME pc \notin {"replace", "timed_out", "failed"}, pc' \notin {"replace", "timed_out", "failed"},
             UNCHANGED <<k, releases>>, faults' = 0 => faults = 0
      PROVE  ReleasesFollow'
    BY <1>a, <1>2 DEF ReleasesFollow
<1>3. CASE Wake \/ GrantOne
    BY <1>1, <1>2, <1>3 DEF Wake, GrantOne, jobVars
<1>4. CASE CheckActive \/ CheckActiveError
    BY <1>a, <1>1, <1>2, <1>4 DEF CheckActive, CheckActiveError, Fault, jobVars
<1>5. CASE CheckServer
    BY <1>a, <1>2, <1>5 DEF CheckServer, Fault, jobVars
<1>6. ASSUME pc \in {"cleanup", "grant"}, pc' \in {"replace", "timed_out", "failed"},
             UNCHANGED k, QueueCleanup(k)
      PROVE  ReleasesFollow'
  <2>1. releases[k] = 0
      BY <1>a, <1>6 DEF ReleasesFollow
  <2>2. /\ releases'[k] \in {releases[k], releases[k] + 1}
        /\ faults' = 0 => releases'[k] = releases[k] + 1
        /\ faults' = 0 => faults = 0
        /\ \A b \in Attempts \ {k} : releases'[b] = releases[b]
      BY <1>a, <1>6, QueueCleanupReleases
  <2> QED
      BY <1>a, <1>6, <2>1, <2>2 DEF ReleasesFollow
<1>7. CASE Cleanup
    BY <1>6, <1>7 DEF Cleanup
<1>8. CASE GrantFails
    BY <1>6, <1>8 DEF GrantFails
<1>9. CASE ReplacePrepared
    BY <1>a, <1>9 DEF ReplacePrepared, ReleasesFollow, jobVars
<1>10. CASE ReplaceFails
    BY <1>a, <1>10 DEF ReplaceFails, ReleasesFollow, jobVars
<1>11. CASE Next /\ ~(MonitorStep \/ CheckActiveError \/ GrantFails)
    BY <1>a, <1>1, <1>11, WorldKeepsMonitor DEF jobVars
<1>12. CASE UNCHANGED vars
    BY <1>1, <1>12 DEF vars, monitorVars, jobVars
<1> QED
    BY <1>3, <1>4, <1>5, <1>7, <1>8, <1>9, <1>10, <1>11, <1>12 DEF MonitorStep

\* The inductive invariant of the releases.
THEOREM MonitorReleaseIndInv == Spec => []ReleaseIndInv
<1>1. ReleaseIndInv /\ [Next]_vars => ReleaseIndInv'
    BY StepTypeOK, StepRetriesAreSpent, StepReleasesFollow DEF ReleaseIndInv
<1> QED
    BY InitReleaseInv, <1>1, PTL DEF Spec

\* The variables of the monitors keep their types, however often assignments are
\* replaced.
THEOREM MonitorTypeOK == Spec => []TypeOK
BY MonitorReleaseIndInv, PTL DEF ReleaseIndInv

\* The monitor queues the release of each allocation at most once, and of those it
\* turned away from exactly once, unless a coordination call failed.
THEOREM MonitorReleasedOnce == Spec => []ReleasedOnce
<1>1. ReleaseIndInv => ReleasedOnce
  <2> SUFFICES ASSUME ReleaseIndInv, NEW a \in Attempts
               PROVE  /\ releases[a] <= 1
                      /\ a \in GivenUp /\ faults = 0 => releases[a] = 1
                      /\ releases[a] = 1 => a \in GivenUp \/ (a = k /\ pc = "failed")
      BY DEF ReleasedOnce
  <2> QED
      BY DEF ReleaseIndInv, ReleasesFollow, GivenUp
<1> QED
    BY MonitorReleaseIndInv, <1>1, PTL

-----------------------------------------------------------------------------
(* Time.                                                                   *)

\* What the types say about numbers and seats.
LEMMA Numbers ==
    ASSUME TypeOK
    PROVE  /\ k \in Attempts /\ Attempts \subseteq Nat
           /\ timer \in Nat /\ timer <= AssignmentTimeout
           /\ \A a \in Attempts : age[a] \in Nat
           /\ \A x \in Seats : active[x] \in Nat
           /\ \A a \in Attempts : \A m \in Members : <<a, m>> \in Seats
           /\ \A x \in Seats : x[1] \in Attempts /\ x[2] \in Members /\ x = <<x[1], x[2]>>
           /\ {AssignmentTimeout, GateTimeout, PrepareDelay, ActiveTtl} \subseteq Nat
           /\ PrepareDelay <= GateTimeout
<1>1. /\ k \in Attempts /\ timer \in 0..AssignmentTimeout
      /\ \A a \in Attempts : age[a] \in 0..GateTimeout + 1
      /\ \A x \in Seats : active[x] \in 0..ActiveTtl
    BY DEF TypeOK
<1>2. /\ {AssignmentTimeout, GateTimeout, PrepareDelay, ActiveTtl} \subseteq Nat
      /\ PrepareDelay <= GateTimeout
      /\ Attempts \subseteq Nat
    BY MonitorAssumption DEF Attempts
<1>3. /\ \A a \in Attempts : \A m \in Members : <<a, m>> \in Seats
      /\ \A x \in Seats : x[1] \in Attempts /\ x[2] \in Members /\ x = <<x[1], x[2]>>
    BY DEF Seats
<1> QED
    BY <1>1, <1>2, <1>3

\* A replacement is an attempt within the retries.
LEMMA NextAttempt ==
    ASSUME TypeOK, RetriesAreSpent, ReplacePrepared
    PROVE  k + 1 \in Attempts /\ k + 1 > k /\ k + 1 <= k + 1
<1>1. k \in 0..MaxRetries /\ retries \in 0..MaxRetries /\ MaxRetries \in Nat
    BY MonitorAssumption DEF TypeOK, Attempts
<1>2. k + retries + 1 <= MaxRetries
    BY DEF RetriesAreSpent, ReplacePrepared, Goto
<1> QED
    BY <1>1, <1>2 DEF Attempts

\* What the steps of the monitor leave alone, but for a replacement.
LEMMA MonitorKeepsWorld ==
    ASSUME MonitorStep \/ CheckActiveError \/ GrantFails, ~ReplacePrepared
    PROVE  UNCHANGED <<roster, k, seat, age, reports, unreported, active, lapsed, up>>
<1> USE DEF serverVars, bucketVars, worldVars
<1>1. CASE Wake \/ CheckActive
    BY <1>1 DEF Wake, CheckActive
<1>2. CASE CheckServer \/ Cleanup \/ ReplaceFails
    BY <1>2 DEF CheckServer, Cleanup, ReplaceFails
<1>3. CASE GrantOne \/ CheckActiveError \/ GrantFails
    BY <1>3 DEF GrantOne, CheckActiveError, GrantFails
<1> QED
    BY <1>1, <1>2, <1>3 DEF MonitorStep

\* How the world changes a seat: what is not waiting does not wait again, and what
\* gets connected was waiting.
LEMMA WorldMovesSeats ==
    ASSUME TypeOK, Next, ~(MonitorStep \/ CheckActiveError \/ GrantFails), NEW y \in Seats
    PROVE  /\ seat'[y] = "waiting" => seat[y] = "waiting"
           /\ seat'[y] = "connected" => seat[y] \in {"waiting", "connected"}
           /\ seat[y] = "none" => seat'[y] = "none"
           /\ unreported \subseteq unreported' /\ lapsed \subseteq lapsed'
<1>a. seat \in [Seats -> SeatStates]
    BY DEF TypeOK
<1> USE DEF serverVars, bucketVars
<1>1. ASSUME NEW x \in Seats, ClientConnected(x) \/ ClientDisconnected(x)
      PROVE  /\ seat[x] \in {"waiting", "connected"} /\ UNCHANGED <<unreported, lapsed>>
             /\ \/ seat' = [seat EXCEPT ![x] = "connected"] /\ seat[x] = "waiting"
                \/ seat' = [seat EXCEPT ![x] = "disconnected"]
    BY <1>1 DEF ClientConnected, ClientDisconnected
<1>2. ASSUME NEW x \in Seats, ClientConnected(x) \/ ClientDisconnected(x)
      PROVE  /\ seat'[y] = "waiting" => seat[y] = "waiting"
             /\ seat'[y] = "connected" => seat[y] \in {"waiting", "connected"}
             /\ seat[y] = "none" => seat'[y] = "none"
             /\ unreported \subseteq unreported' /\ lapsed \subseteq lapsed'
    BY <1>a, <1>1, <1>2
<1>3. ASSUME NEW x \in Seats, PublishReport(x) \/ ReportLost(x)
      PROVE  UNCHANGED <<seat, lapsed>> /\ unreported \subseteq unreported'
    BY <1>3 DEF PublishReport, ReportLost
<1>4. ASSUME NEW a \in Attempts, ExpireUnconnected(a)
      PROVE  /\ UNCHANGED <<unreported, lapsed>>
             /\ seat'[y] = seat[y] \/ (seat'[y] = "expired" /\ seat[y] = "waiting")
    BY <1>4 DEF ExpireUnconnected, Overdue
<1>5. ASSUME NEW a \in Attempts, ServerDies(a)
      PROVE  /\ UNCHANGED <<unreported, lapsed>>
             /\ seat'[y] = seat[y] \/ (seat'[y] \in {"lost", "disconnected"} /\ seat[y] # "none")
    BY <1>5 DEF ServerDies
<1>6. ASSUME NEW a \in Attempts, PublishCapacity(a) \/ DrainGameServer(a)
      PROVE  UNCHANGED <<seat, unreported, lapsed>>
    BY <1>6 DEF PublishCapacity, DrainGameServer
<1>7. CASE Tick
    BY <1>7 DEF Tick
<1> QED
    BY <1>2, <1>3, <1>4, <1>5, <1>6, <1>7 DEF Next

\* How the world changes a queue of reports: it grows for clients that were admitted,
\* and is taken from its head.
LEMMA WorldMovesReports ==
    ASSUME TypeOK, Next, ~(MonitorStep \/ CheckActiveError \/ GrantFails), NEW y \in Seats,
           seat[y] = "none" \/ seat'[y] = "waiting", reports[y] = <<>>
    PROVE  reports'[y] = <<>>
<1>a. seat \in [Seats -> SeatStates] /\ reports \in [Seats -> Seq(BOOLEAN)]
    BY DEF TypeOK
<1> USE DEF serverVars, Report
<1>1. ASSUME NEW x \in Seats, ClientConnected(x) \/ ClientDisconnected(x)
      PROVE  reports'[y] = <<>>
  <2>1. /\ seat[x] \in {"waiting", "connected"} /\ seat'[x] # "waiting"
        /\ \E b \in BOOLEAN : reports' = [reports EXCEPT ![x] = Append(reports[x], b)]
      BY <1>a, <1>1 DEF ClientConnected, ClientDisconnected
  <2> QED
      BY <1>a, <2>1
<1>2. ASSUME NEW x \in Seats, PublishReport(x) \/ ReportLost(x)
      PROVE  reports'[y] = <<>>
  <2>1. reports[x] # <<>> /\ reports' = [reports EXCEPT ![x] = Tail(reports[x])]
      BY <1>2 DEF PublishReport, ReportLost
  <2> QED
      BY <1>a, <2>1
<1>3. ASSUME NEW a \in Attempts, ExpireUnconnected(a)
      PROVE  reports'[y] = <<>>
    BY <1>3 DEF ExpireUnconnected, Overdue
<1>4. ASSUME NEW a \in Attempts, ServerDies(a)
      PROVE  reports'[y] = <<>>
    BY <1>4 DEF ServerDies
<1>5. ASSUME NEW a \in Attempts, PublishCapacity(a) \/ DrainGameServer(a)
      PROVE  UNCHANGED reports
    BY <1>5 DEF PublishCapacity, DrainGameServer
<1>6. CASE Tick
    BY <1>6 DEF Tick
<1> QED
    BY <1>1, <1>2, <1>3, <1>4, <1>5, <1>6 DEF Next

\* Only time changes ages, and only dying servers stop.
LEMMA WorldMovesTime ==
    ASSUME Next, ~(MonitorStep \/ CheckActiveError \/ GrantFails), ~Tick
    PROVE  UNCHANGED <<age, timer>> /\ \A a \in up \ up' : ServerDies(a)
<1> USE DEF serverVars, monitorVars, worldVars
<1>1. ASSUME NEW x \in Seats, ClientConnected(x) \/ ClientDisconnected(x)
      PROVE  UNCHANGED <<age, timer, up>>
    BY <1>1 DEF ClientConnected, ClientDisconnected
<1>2. ASSUME NEW x \in Seats, PublishReport(x) \/ ReportLost(x)
      PROVE  UNCHANGED <<age, timer, up>>
    BY <1>2 DEF PublishReport, ReportLost
<1>3. ASSUME NEW a \in Attempts, ExpireUnconnected(a) \/ PublishCapacity(a) \/ DrainGameServer(a)
      PROVE  UNCHANGED <<age, timer, up>>
    BY <1>3 DEF ExpireUnconnected, PublishCapacity, DrainGameServer
<1>4. ASSUME NEW a \in Attempts, ServerDies(a)
      PROVE  UNCHANGED <<age, timer>> /\ up' = up \ {a}
    BY <1>4 DEF ServerDies
<1> QED
    BY <1>1, <1>2, <1>3, <1>4 DEF Next

\* Attempts that are still to come stay as they are.
LEMMA StepFutureIsFresh ==
    ASSUME TimingIndInv, [Next]_vars
    PROVE  FutureIsFresh'
<1>a. TypeOK /\ FutureIsFresh
    BY DEF TimingIndInv
<1>b. /\ k \in Attempts /\ Attempts \subseteq Nat
      /\ \A a \in Attempts : \A m \in Members : <<a, m>> \in Seats
    BY <1>a, Numbers
<1> USE DEF serverVars, jobVars, Goto
<1>1. ASSUME UNCHANGED <<k, age, reports, seat, granted>>,
             \A a \in Attempts \ {k} : missing'[a] = missing[a]
      PROVE  FutureIsFresh'
  <2>1. \A a \in Attempts : a > k => missing'[a] = missing[a]
      BY <1>b, <1>1
  <2> QED
      BY <1>a, <1>1, <2>1 DEF FutureIsFresh
<1>2. CASE (MonitorStep \/ CheckActiveError \/ GrantFails) /\ ~ReplacePrepared /\ ~GrantOne
  <2>1. UNCHANGED <<k, age, reports, seat>>
      BY <1>2, MonitorKeepsWorld
  <2>2. UNCHANGED granted /\ \A a \in Attempts \ {k} : missing'[a] = missing[a]
    <3>1. CASE CheckActive
        BY <1>a, <3>1 DEF CheckActive, TypeOK
    <3>2. CASE Wake \/ CheckServer \/ Cleanup \/ ReplaceFails \/ CheckActiveError \/ GrantFails
        BY <3>2 DEF Wake, CheckServer, Cleanup, ReplaceFails, CheckActiveError, GrantFails
    <3> QED
        BY <1>2, <3>1, <3>2 DEF MonitorStep
  <2> QED
      BY <1>1, <2>1, <2>2
<1>3. CASE ReplacePrepared
  <2>1. /\ k' = k + 1 /\ UNCHANGED <<age, reports, granted, missing>>
        /\ seat' = [x \in Seats |-> IF x \in SeatsOf(k + 1) THEN "waiting" ELSE seat[x]]
      BY <1>3 DEF ReplacePrepared
  <2>2. ASSUME NEW a \in Attempts, a > k + 1, NEW m \in Members
        PROVE  a > k /\ seat'[<<a, m>>] = seat[<<a, m>>]
      BY <1>b, <2>1, <2>2 DEF SeatsOf
  <2>3. ASSUME NEW a \in Attempts, a > k + 1 PROVE a > k
      BY <1>b, <2>3
  <2> QED
      BY <1>a, <2>1, <2>2, <2>3 DEF FutureIsFresh
<1>4. CASE GrantOne
  <2>1. /\ UNCHANGED <<k, age, reports, seat, missing>>
        /\ \E m \in roster : granted' = granted \cup {<<k, m>>}
      BY <1>4 DEF GrantOne
  <2> QED
      BY <1>a, <1>b, <2>1 DEF FutureIsFresh
<1>5. CASE Next /\ ~(MonitorStep \/ CheckActiveError \/ GrantFails)
  <2>1. UNCHANGED <<k, missing, granted>>
      BY <1>5, WorldKeepsMonitor
  <2>2. ASSUME NEW a \in Attempts, a > k PROVE age'[a] = age[a]
    <3>1. CASE Tick
      <4>1. age' = [b \in Attempts |->
                      IF b <= k /\ age[b] <= GateTimeout THEN age[b] + 1 ELSE age[b]]
          BY <3>1 DEF Tick
      <4>2. ~(a <= k)
          BY <1>b, <2>2
      <4> QED
          BY <4>1, <4>2
    <3> QED
        BY <1>5, <3>1, WorldMovesTime
  <2>3. ASSUME NEW a \in Attempts, a > k, NEW m \in Members
        PROVE  seat'[<<a, m>>] = "none" /\ reports'[<<a, m>>] = <<>>
      BY <1>a, <1>b, <1>5, <2>3, WorldMovesSeats, WorldMovesReports DEF FutureIsFresh
  <2> QED
      BY <1>a, <2>1, <2>2, <2>3 DEF FutureIsFresh
<1>6. CASE UNCHANGED vars
    BY <1>1, <1>6 DEF vars, monitorVars
<1> QED
    BY <1>2, <1>3, <1>4, <1>5, <1>6 DEF MonitorStep

\* The monitor sleeps as long as the attempt it watches ages, so that the gate has
\* closed when it looks.
LEMMA StepClockRuns ==
    ASSUME GateClosesFirst, TimingIndInv, [Next]_vars
    PROVE  ClockRuns'
<1>a. TypeOK /\ RetriesAreSpent /\ FutureIsFresh /\ ClockRuns
    BY DEF TimingIndInv
<1>b. /\ k \in Attempts /\ Attempts \subseteq Nat
      /\ timer \in Nat /\ timer <= AssignmentTimeout
      /\ \A a \in Attempts : age[a] \in Nat
      /\ {AssignmentTimeout, GateTimeout, PrepareDelay, ActiveTtl} \subseteq Nat
      /\ AssignmentTimeout + PrepareDelay > GateTimeout
    BY <1>a, Numbers DEF GateClosesFirst
<1> USE DEF serverVars, jobVars, Goto
<1>1. CASE Wake
  <2>1. /\ timer = 0 /\ pc = "sleep" /\ pc' = "check_active"
        /\ UNCHANGED <<k, age>>
      BY <1>1 DEF Wake
  <2>2. age[k] > GateTimeout
      BY <1>a, <1>b, <2>1 DEF ClockRuns
  <2> QED
      BY <2>1, <2>2 DEF ClockRuns
<1>2. CASE CheckActive
    BY <1>a, <1>2 DEF CheckActive, ClockRuns
<1>3. CASE CheckServer \/ Cleanup \/ ReplaceFails \/ CheckActiveError \/ GrantFails
    BY <1>3 DEF CheckServer, Cleanup, ReplaceFails, CheckActiveError, GrantFails, ClockRuns
<1>4. CASE ReplacePrepared
  <2>1. k' = k + 1 /\ pc' = "grant" /\ UNCHANGED <<roster, age, missing, granted>>
      BY <1>4 DEF ReplacePrepared
  <2>2. k + 1 \in Attempts /\ k + 1 > k
      BY <1>4, <1>a, NextAttempt
  <2>3. PICK m \in roster : m \in Members
      BY <1>a DEF RetriesAreSpent, TypeOK
  <2>4. /\ age[k + 1] = PrepareDelay /\ missing[k + 1] = {}
        /\ <<k + 1, m>> \notin granted
      BY <1>a, <2>2, <2>3 DEF FutureIsFresh
  <2>5. ~(SeatsOf(k + 1) \subseteq granted)
      BY <2>3, <2>4 DEF SeatsOf
  <2> QED
      BY <2>1, <2>4, <2>5 DEF ClockRuns, SeatsOf
<1>5. CASE GrantOne
  <2>1. pc = "grant" /\ UNCHANGED <<roster, k, age, missing>>
      BY <1>5 DEF GrantOne
  <2>2. CASE SeatsOf(k) \subseteq granted'
    <3>1. pc' = "sleep" /\ timer' = AssignmentTimeout
        BY <1>5, <2>2 DEF GrantOne
    <3> QED
        BY <1>a, <1>b, <2>1, <3>1 DEF ClockRuns
  <2>3. CASE ~(SeatsOf(k) \subseteq granted')
    <3>1. pc' = "grant"
        BY <1>5, <2>3 DEF GrantOne
    <3> QED
        BY <1>a, <2>1, <2>3, <3>1 DEF ClockRuns, SeatsOf
  <2> QED
      BY <2>2, <2>3
<1>6. CASE Tick
  <2>1. /\ pc # "grant" /\ pc # "check_active" /\ (pc = "sleep" => timer > 0)
        /\ timer' = Less(timer) /\ UNCHANGED <<pc, k, missing>>
        /\ age' = [a \in Attempts |->
                     IF a <= k /\ age[a] <= GateTimeout THEN age[a] + 1 ELSE age[a]]
      BY <1>6 DEF Tick, Quiet, Ended
  <2>2. age'[k] = IF age[k] <= GateTimeout THEN age[k] + 1 ELSE age[k]
      BY <1>b, <2>1
  <2> QED
      BY <1>a, <1>b, <2>1, <2>2 DEF ClockRuns, Less
<1>7. CASE Next /\ ~(MonitorStep \/ CheckActiveError \/ GrantFails) /\ ~Tick
  <2>1. UNCHANGED <<roster, pc, k, missing, granted, age, timer>>
      BY <1>7, WorldKeepsMonitor, WorldMovesTime
  <2> QED
      BY <1>a, <2>1 DEF ClockRuns, SeatsOf
<1>8. CASE UNCHANGED vars
    BY <1>a, <1>8 DEF vars, monitorVars, ClockRuns, SeatsOf
<1> QED
    BY <1>1, <1>2, <1>3, <1>4, <1>5, <1>6, <1>7, <1>8 DEF MonitorStep

\* No gate entry outlives the game server's timeout.
LEMMA StepWaitingInTime ==
    ASSUME TimingIndInv, [Next]_vars
    PROVE  WaitingInTime'
<1>a. TypeOK /\ RetriesAreSpent /\ FutureIsFresh /\ WaitingInTime
    BY DEF TimingIndInv
<1>b. /\ k \in Attempts /\ Attempts \subseteq Nat
      /\ \A a \in Attempts : age[a] \in Nat
      /\ \A a \in Attempts : \A m \in Members : <<a, m>> \in Seats
      /\ \A x \in Seats : x[1] \in Attempts /\ x[2] \in Members /\ x = <<x[1], x[2]>>
      /\ {AssignmentTimeout, GateTimeout, PrepareDelay, ActiveTtl} \subseteq Nat
      /\ PrepareDelay <= GateTimeout
    BY <1>a, Numbers
<1>1. ASSUME UNCHANGED <<k, seat, age, reports, up>> PROVE WaitingInTime'
    BY <1>a, <1>1 DEF WaitingInTime
<1>2. CASE (MonitorStep \/ CheckActiveError \/ GrantFails) /\ ~ReplacePrepared
    BY <1>1, <1>2, MonitorKeepsWorld
<1>3. CASE ReplacePrepared
  <2>1. /\ k' = k + 1 /\ UNCHANGED <<age, reports>> /\ up' = up \cup {k + 1}
        /\ seat' = [x \in Seats |-> IF x \in SeatsOf(k + 1) THEN "waiting" ELSE seat[x]]
      BY <1>3 DEF ReplacePrepared
  <2>2. k + 1 \in Attempts /\ k + 1 > k /\ k + 1 <= k + 1
      BY <1>3, <1>a, NextAttempt
  <2>3. ASSUME NEW x \in Seats, x \in SeatsOf(k + 1)
        PROVE  x[1] \in up' /\ x[1] <= k + 1 /\ age[x[1]] <= GateTimeout /\ reports[x] = <<>>
    <3>1. x[1] = k + 1 /\ x = <<k + 1, x[2]>> /\ x[2] \in Members
        BY <1>b, <2>3 DEF SeatsOf
    <3>2. age[k + 1] = PrepareDelay /\ reports[<<k + 1, x[2]>>] = <<>>
        BY <1>a, <2>2, <3>1 DEF FutureIsFresh
    <3> QED
        BY <1>b, <2>1, <2>2, <3>1, <3>2
  <2>4. ASSUME NEW x \in Seats, x \notin SeatsOf(k + 1), seat'[x] = "waiting"
        PROVE  x[1] \in up' /\ x[1] <= k + 1 /\ age[x[1]] <= GateTimeout /\ reports[x] = <<>>
    <3>1. seat[x] = "waiting"
        BY <2>1, <2>4
    <3>2. x[1] \in up /\ x[1] <= k /\ age[x[1]] <= GateTimeout /\ reports[x] = <<>>
        BY <1>a, <3>1 DEF WaitingInTime
    <3> QED
        BY <1>b, <2>1, <3>2
  <2> QED
      BY <2>1, <2>3, <2>4 DEF WaitingInTime
<1>4. CASE Next /\ ~(MonitorStep \/ CheckActiveError \/ GrantFails)
  <2> SUFFICES ASSUME NEW x \in Seats, seat'[x] = "waiting"
               PROVE  /\ x[1] \in up' /\ x[1] <= k'
                      /\ age'[x[1]] <= GateTimeout
                      /\ reports'[x] = <<>>
      BY DEF WaitingInTime
  <2>1. seat[x] = "waiting" /\ k' = k
      BY <1>a, <1>4, WorldMovesSeats, WorldKeepsMonitor
  <2>2. x[1] \in up /\ x[1] <= k /\ age[x[1]] <= GateTimeout /\ reports[x] = <<>>
      BY <1>a, <2>1 DEF WaitingInTime
  <2>3. reports'[x] = <<>>
      BY <1>a, <1>4, <2>2, WorldMovesReports
  <2>4. CASE Tick
    <3>1. up' = up /\ ~Overdue(x)
        BY <2>4, <2>2 DEF Tick, Quiet, Running, worldVars
    <3>2. age[x[1]] < GateTimeout
        BY <1>b, <2>1, <2>2, <3>1 DEF Overdue, Running
    <3>3. age'[x[1]] = age[x[1]] + 1
        BY <1>b, <2>2, <2>4 DEF Tick
    <3> QED
        BY <1>b, <2>1, <2>2, <2>3, <3>1, <3>2, <3>3
  <2>5. CASE ~Tick
    <3>1. age' = age /\ \A a \in up \ up' : ServerDies(a)
        BY <1>4, <2>5, WorldMovesTime
    <3>2. ASSUME ServerDies(x[1]) PROVE FALSE
        BY <2>1, <3>2 DEF ServerDies
    <3> QED
        BY <2>1, <2>2, <2>3, <3>1, <3>2
  <2> QED
      BY <2>4, <2>5
<1>5. CASE UNCHANGED vars
    BY <1>1, <1>5 DEF vars, monitorVars, serverVars, worldVars
<1> QED
    BY <1>2, <1>3, <1>4, <1>5 DEF MonitorStep

\* The queue of a single report.
LEMMA OneReport ==
    /\ Append(<<>>, TRUE) = <<TRUE>>
    /\ Head(<<TRUE>>) = TRUE /\ Tail(<<TRUE>>) = <<>>
<1>1. Append(<<>>, TRUE) = <<TRUE>>
    OBVIOUS
<1>2. Head(<<TRUE>>) = TRUE
  <2>1. \A b : Head(<<b>>) = b
      OBVIOUS
  <2> QED
      BY <2>1
<1>3. Tail(<<TRUE>>) = <<>>
    OBVIOUS
<1> QED
    BY <1>1, <1>2, <1>3

\* A client that is connected was reported: the report is queued or published, and its
\* entry is there or has run out.
LEMMA StepConnectedIsReported ==
    ASSUME TimingIndInv, [Next]_vars
    PROVE  ConnectedIsReported'
<1>a. /\ TypeOK /\ RetriesAreSpent /\ FutureIsFresh /\ WaitingInTime
      /\ ConnectedIsReported
    BY DEF TimingIndInv
<1>b. /\ k \in Attempts /\ Attempts \subseteq Nat
      /\ \A x \in Seats : active[x] \in Nat
      /\ \A a \in Attempts : \A m \in Members : <<a, m>> \in Seats
      /\ ActiveTtl \in Nat /\ ActiveTtl > 0
    BY <1>a, Numbers, MonitorAssumption
<1>c. /\ seat \in [Seats -> SeatStates] /\ reports \in [Seats -> Seq(BOOLEAN)]
      /\ active \in [Seats -> 0..ActiveTtl]
    BY <1>a DEF TypeOK
<1>1. CASE ReplacePrepared
  <2>1. /\ k' = k + 1
        /\ seat' = [x \in Seats |-> IF x \in SeatsOf(k + 1) THEN "waiting" ELSE seat[x]]
      BY <1>1 DEF ReplacePrepared
  <2>2. k + 1 \in Attempts /\ k + 1 > k
      BY <1>1, <1>a, NextAttempt
  <2>3. ASSUME NEW m \in Members PROVE seat'[<<k + 1, m>>] # "connected"
    <3>1. <<k + 1, m>> \in Seats /\ seat[<<k + 1, m>>] = "none"
        BY <1>a, <1>b, <2>2 DEF FutureIsFresh
    <3> QED
        BY <2>1, <3>1
  <2> QED
      BY <2>1, <2>3 DEF ConnectedIsReported
<1> SUFFICES ASSUME ~ReplacePrepared PROVE ConnectedIsReported'
    BY <1>1
<1>3. k' = k
  <2>1. CASE MonitorStep \/ CheckActiveError \/ GrantFails
      BY <2>1, MonitorKeepsWorld
  <2>2. CASE Next /\ ~(MonitorStep \/ CheckActiveError \/ GrantFails)
      BY <2>2, WorldKeepsMonitor
  <2>3. CASE UNCHANGED vars
      BY <2>3 DEF vars, monitorVars
  <2> QED
      BY <2>1, <2>2, <2>3
<1> DEFINE Entry(x) ==
             \/ reports'[x] = <<TRUE>> /\ age'[k] <= GateTimeout
             \/ reports'[x] = <<>> /\ active'[x] > 0
             \/ x \in lapsed'
<1>4. ASSUME NEW m \in Members, seat'[<<k, m>>] = "connected", <<k, m>> \notin unreported'
      PROVE  k \in up' /\ Entry(<<k, m>>)
  <2> DEFINE x == <<k, m>>
  <2>1. x \in Seats
      BY <1>b
  <2>2. ASSUME seat[x] = "connected", x \notin unreported PROVE k \in up /\ Reported(x)
      BY <1>a, <2>2 DEF ConnectedIsReported
  <2>3. CASE MonitorStep \/ CheckActiveError \/ GrantFails
    <3>1. UNCHANGED <<seat, age, reports, unreported, active, lapsed, up>>
        BY <2>3, MonitorKeepsWorld
    <3> QED
        BY <1>4, <2>2, <3>1 DEF Reported
  <2>4. CASE Tick
    <3>1. /\ UNCHANGED <<seat, reports, unreported, up>>
          /\ active' = [y \in Seats |-> Less(active[y])]
          /\ lapsed' = lapsed \cup {y \in Seats : active[y] = 1}
          /\ \A y \in Seats : y[1] \in up => reports[y] = <<>>
        BY <2>4 DEF Tick, Quiet, Running, worldVars
    <3>2. k \in up /\ Reported(x)
        BY <1>4, <2>2, <3>1
    <3>3. reports[x] = <<>>
        BY <2>1, <3>1, <3>2
    <3>4. CASE x \in lapsed
        BY <3>1, <3>2, <3>4
    <3>5. CASE x \notin lapsed
      <4>1. active[x] > 0 /\ active[x] \in Nat
          BY <1>b, <2>1, <3>2, <3>3, <3>5 DEF Reported
      <4>2. active'[x] = Less(active[x])
          BY <2>1, <3>1
      <4>3. active[x] = 1 \/ active'[x] > 0
          BY <4>1, <4>2 DEF Less
      <4>4. active[x] = 1 => x \in lapsed'
          BY <2>1, <3>1
      <4> QED
          BY <3>1, <3>2, <3>3, <4>3, <4>4
    <3> QED
        BY <3>4, <3>5
  <2>5. CASE Next /\ ~(MonitorStep \/ CheckActiveError \/ GrantFails) /\ ~Tick
    <3>1. UNCHANGED age /\ (\A a \in up \ up' : ServerDies(a))
        BY <2>5, WorldMovesTime
    <3>2. /\ seat[x] \in {"waiting", "connected"} /\ unreported \subseteq unreported'
          /\ lapsed \subseteq lapsed'
        BY <1>a, <2>1, <1>4, <2>5, WorldMovesSeats
    <3>3. ASSUME ServerDies(k) PROVE FALSE
        BY <2>1, <1>4, <3>3 DEF ServerDies
    <3>4. k \in up
        BY <1>a, <2>1, <1>4, <2>2, <3>2 DEF WaitingInTime
    <3>5. k \in up'
        BY <3>1, <3>3, <3>4
    <3>a. ASSUME seat[x] = "connected", reports'[x] = reports[x], active'[x] = active[x]
          PROVE  Entry(x)
        BY <1>4, <2>2, <3>1, <3>2, <3>a DEF Reported
    <3>6. ASSUME NEW y \in Seats, ClientConnected(y) \/ ClientDisconnected(y) PROVE Entry(x)
      <4>1. CASE y = x
        <5>1. /\ seat[x] = "waiting"
              /\ reports' = [reports EXCEPT ![x] = Append(reports[x], TRUE)]
            BY <1>c, <2>1, <1>4, <3>6, <4>1 DEF ClientConnected, ClientDisconnected, Report
        <5>2. reports[x] = <<>> /\ age[k] <= GateTimeout
            BY <1>a, <2>1, <5>1 DEF WaitingInTime
        <5>3. reports'[x] = <<TRUE>>
          <6>1. reports'[x] = Append(<<>>, TRUE)
              BY <1>c, <2>1, <5>1, <5>2
          <6> QED
              BY <6>1, OneReport
        <5> QED
            BY <3>1, <5>2, <5>3
      <4>2. CASE y # x
        <5>1. reports'[x] = reports[x] /\ seat'[x] = seat[x] /\ active' = active
            BY <1>c, <2>1, <3>6, <4>2 DEF ClientConnected, ClientDisconnected, Report, bucketVars
        <5> QED
            BY <1>4, <3>a, <5>1
      <4> QED
          BY <4>1, <4>2
    <3>7. ASSUME NEW y \in Seats, PublishReport(y) PROVE Entry(x)
      <4>1. /\ reports[y] # <<>> /\ UNCHANGED seat
            /\ reports' = [reports EXCEPT ![y] = Tail(reports[y])]
            /\ active' = [active EXCEPT ![y] = IF Head(reports[y]) THEN ActiveTtl ELSE 0]
          BY <3>7 DEF PublishReport
      <4>2. Reported(x)
          BY <1>4, <2>2, <3>2, <4>1
      <4>3. CASE y = x /\ x \notin lapsed
        <5>1. reports[x] = <<TRUE>>
            BY <4>1, <4>2, <4>3 DEF Reported
        <5>2. reports'[x] = <<>> /\ active'[x] = ActiveTtl
          <6>1. /\ reports'[x] = Tail(<<TRUE>>)
                /\ active'[x] = IF Head(<<TRUE>>) THEN ActiveTtl ELSE 0
              BY <1>c, <2>1, <4>1, <4>3, <5>1
          <6> QED
              BY <6>1, OneReport
        <5> QED
            BY <1>b, <5>2
      <4>4. CASE x \in lapsed
          BY <3>2, <4>4
      <4>5. CASE y # x
        <5>1. reports'[x] = reports[x] /\ active'[x] = active[x]
            BY <1>c, <2>1, <4>1, <4>5
        <5> QED
            BY <1>4, <3>a, <4>1, <5>1
      <4> QED
          BY <4>3, <4>4, <4>5
    <3>8. ASSUME NEW y \in Seats, ReportLost(y) PROVE Entry(x)
      <4>1. /\ reports' = [reports EXCEPT ![y] = Tail(reports[y])]
            /\ unreported' = unreported \cup {y} /\ UNCHANGED <<seat, active>>
          BY <3>8 DEF ReportLost, bucketVars
      <4>2. y # x
          BY <1>4, <4>1
      <4>3. reports'[x] = reports[x]
          BY <1>c, <2>1, <4>1, <4>2
      <4> QED
          BY <1>4, <3>a, <4>1, <4>3
    <3>9. ASSUME NEW a \in Attempts, ExpireUnconnected(a) PROVE Entry(x)
      <4>1. seat'[x] = seat[x] /\ reports'[x] = reports[x] /\ UNCHANGED active
          BY <2>1, <1>4, <3>9 DEF ExpireUnconnected, bucketVars
      <4> QED
          BY <1>4, <3>a, <4>1
    <3>10. ASSUME NEW a \in Attempts, ServerDies(a) PROVE Entry(x)
      <4>1. a # k
          BY <3>3, <3>10
      <4>2. seat'[x] = seat[x] /\ reports'[x] = reports[x] /\ UNCHANGED active
          BY <2>1, <3>10, <4>1 DEF ServerDies, bucketVars
      <4> QED
          BY <1>4, <3>a, <4>2
    <3>11. ASSUME NEW a \in Attempts, PublishCapacity(a) \/ DrainGameServer(a) PROVE Entry(x)
      <4>1. UNCHANGED <<seat, reports, active>>
          BY <3>11 DEF PublishCapacity, DrainGameServer, serverVars, bucketVars
      <4> QED
          BY <1>4, <3>a, <4>1
    <3> QED
        BY <2>5, <3>5, <3>6, <3>7, <3>8, <3>9, <3>10, <3>11 DEF Next
  <2>6. CASE UNCHANGED vars
      BY <1>4, <2>2, <2>6 DEF vars, monitorVars, serverVars, bucketVars, worldVars, Reported
  <2> QED
      BY <2>3, <2>4, <2>5, <2>6
<1> QED
    BY <1>3, <1>4 DEF ConnectedIsReported, Reported

\* Whom the monitor takes for missing is out, and stays out.
LEMMA StepMissingAreOut ==
    ASSUME TimingIndInv, [Next]_vars
    PROVE  MissingAreOut'
<1>a. /\ TypeOK /\ RetriesAreSpent /\ FutureIsFresh /\ ClockRuns /\ WaitingInTime
      /\ ConnectedIsReported /\ MissingAreOut
    BY DEF TimingIndInv
<1>b. /\ k \in Attempts /\ Attempts \subseteq Nat
      /\ \A a \in Attempts : age[a] \in Nat
      /\ \A a \in Attempts : \A m \in Members : <<a, m>> \in Seats
      /\ GateTimeout \in Nat
    BY <1>a, Numbers
<1>c. /\ missing \in [Attempts -> SUBSET Members] /\ roster \subseteq Members
      /\ unchecked \subseteq roster
    BY <1>a DEF TypeOK, MissingAreOut
<1> USE DEF Goto
<1>1. ASSUME UNCHANGED <<roster, seat, unreported, lapsed, missing>>,
             unchecked' \in {unchecked, roster}
      PROVE  MissingAreOut'
    BY <1>a, <1>1 DEF MissingAreOut
<1>2. CASE (MonitorStep \/ CheckActiveError \/ GrantFails) /\ ~ReplacePrepared /\ ~CheckActive
  <2>1. UNCHANGED <<roster, seat, unreported, lapsed>>
      BY <1>2, MonitorKeepsWorld
  <2>2. UNCHANGED missing /\ unchecked' \in {unchecked, roster}
    <3>1. CASE Wake \/ GrantOne
        BY <3>1 DEF Wake, GrantOne
    <3>2. CASE CheckServer \/ Cleanup \/ ReplaceFails \/ CheckActiveError \/ GrantFails
        BY <3>2 DEF CheckServer, Cleanup, ReplaceFails, CheckActiveError, GrantFails
    <3> QED
        BY <1>2, <3>1, <3>2 DEF MonitorStep
  <2> QED
      BY <1>1, <2>1, <2>2
<1>3. CASE CheckActive
  <2>1. pc = "check_active" /\ UNCHANGED <<roster, seat, unreported, lapsed>>
      BY <1>3 DEF CheckActive, serverVars, bucketVars
  <2>2. PICK m \in unchecked :
          /\ unchecked' = unchecked \ {m}
          /\ missing' = [missing EXCEPT
                           ![k] = IF active[<<k, m>>] > 0 THEN missing[k] ELSE missing[k] \cup {m}]
      BY <1>3 DEF CheckActive
  <2>3. ASSUME active[<<k, m>>] > 0
        PROVE  MissingAreOut'
    <3>1. missing' = missing
        BY <1>c, <2>2, <2>3
    <3> QED
        BY <1>a, <2>1, <2>2, <3>1 DEF MissingAreOut
  <2>4. ASSUME ~(active[<<k, m>>] > 0)
        PROVE  MissingAreOut'
    <3>1. /\ missing'[k] = missing[k] \cup {m}
          /\ \A a \in Attempts \ {k} : missing'[a] = missing[a]
        BY <1>b, <1>c, <2>2, <2>4
    <3>2. seat[<<k, m>>] # "waiting"
      <4>1. age[k] > GateTimeout
          BY <1>a, <2>1 DEF ClockRuns
      <4>2. <<k, m>> \in Seats /\ <<k, m>>[1] = k
          BY <1>b, <1>c
      <4>3. age[k] <= GateTimeout => FALSE
          BY <1>b, <4>1
      <4> QED
          BY <1>a, <4>2, <4>3 DEF WaitingInTime
    <3>3. seat[<<k, m>>] = "connected" => <<k, m>> \in unreported \cup lapsed
      <4>1. age[k] <= GateTimeout => FALSE
          BY <1>a, <1>b, <2>1 DEF ClockRuns
      <4> QED
          BY <1>a, <1>c, <2>1, <2>4, <4>1 DEF ConnectedIsReported, Reported
    <3> QED
        BY <1>a, <1>c, <2>1, <2>2, <3>1, <3>2, <3>3 DEF MissingAreOut
  <2> QED
      BY <2>3, <2>4
<1>4. CASE ReplacePrepared
  <2>1. /\ seat' = [x \in Seats |-> IF x \in SeatsOf(k + 1) THEN "waiting" ELSE seat[x]]
        /\ UNCHANGED <<roster, unchecked, missing, unreported, lapsed>>
      BY <1>4 DEF ReplacePrepared
  <2>2. missing[k + 1] = {}
      BY <1>4, <1>a, NextAttempt DEF FutureIsFresh
  <2>3. ASSUME NEW a \in Attempts, NEW m \in missing[a]
        PROVE  seat'[<<a, m>>] = seat[<<a, m>>]
    <3>1. <<a, m>> \notin SeatsOf(k + 1) /\ <<a, m>> \in Seats
        BY <1>b, <1>c, <2>2, <2>3 DEF SeatsOf
    <3> QED
        BY <2>1, <3>1
  <2> QED
      BY <1>a, <2>1, <2>3 DEF MissingAreOut
<1>5. CASE Next /\ ~(MonitorStep \/ CheckActiveError \/ GrantFails)
  <2>1. UNCHANGED <<roster, unchecked, missing>>
      BY <1>5, WorldKeepsMonitor
  <2>2. ASSUME NEW a \in Attempts, NEW m \in missing[a]
        PROVE  /\ seat'[<<a, m>>] # "waiting"
               /\ seat'[<<a, m>>] = "connected" => <<a, m>> \in unreported' \cup lapsed'
    <3>1. <<a, m>> \in Seats
        BY <1>b, <1>c, <2>2
    <3>2. /\ seat[<<a, m>>] # "waiting"
          /\ seat[<<a, m>>] = "connected" => <<a, m>> \in unreported \cup lapsed
        BY <1>a, <2>2 DEF MissingAreOut
    <3>3. /\ seat'[<<a, m>>] = "waiting" => seat[<<a, m>>] = "waiting"
          /\ seat'[<<a, m>>] = "connected" => seat[<<a, m>>] \in {"waiting", "connected"}
          /\ unreported \subseteq unreported' /\ lapsed \subseteq lapsed'
        BY <1>a, <1>5, <3>1, WorldMovesSeats
    <3> QED
        BY <3>2, <3>3
  <2> QED
      BY <1>a, <2>1, <2>2 DEF MissingAreOut
<1>6. CASE UNCHANGED vars
    BY <1>1, <1>6 DEF vars, monitorVars, serverVars, bucketVars
<1> QED
    BY <1>2, <1>3, <1>4, <1>5, <1>6

\* The monitor does not turn away from an attempt in which nobody is missing.
LEMMA StepGivenUpIsMissed ==
    ASSUME TimingIndInv, [Next]_vars
    PROVE  GivenUpIsMissed'
<1>a. TypeOK /\ RetriesAreSpent /\ ClockRuns /\ GivenUpIsMissed
    BY DEF TimingIndInv
<1>b. k \in Attempts /\ Attempts \subseteq Nat /\ missing \in [Attempts -> SUBSET Members]
    BY <1>a, Numbers DEF TypeOK
<1> USE DEF Goto, jobVars
<1>1. CASE Wake \/ CheckActiveError
    BY <1>a, <1>1 DEF Wake, CheckActiveError, GivenUpIsMissed, SeatsOf
<1>2. CASE CheckActive
  <2>1. UNCHANGED k /\ \A a \in Attempts : a < k => missing'[a] = missing[a]
      BY <1>b, <1>2 DEF CheckActive
  <2>2. /\ pc' \in {"check_active", "all_connected", "check_server"}
        /\ pc' = "check_server" => missing'[k] # {}
      BY <1>2 DEF CheckActive
  <2> QED
      BY <1>a, <2>1, <2>2 DEF GivenUpIsMissed
<1>3. CASE CheckServer \/ Cleanup \/ ReplaceFails
  <2>1. /\ pc \in {"check_server", "cleanup", "replace"} /\ UNCHANGED <<k, missing>>
      BY <1>3 DEF CheckServer, Cleanup, ReplaceFails
  <2> QED
      BY <1>a, <2>1 DEF GivenUpIsMissed
<1>4. CASE ReplacePrepared
  <2>1. pc = "replace" /\ pc' = "grant" /\ k' = k + 1 /\ UNCHANGED missing
      BY <1>4 DEF ReplacePrepared
  <2>2. \A a \in Attempts : a < k + 1 => a < k \/ a = k
      BY <1>b
  <2> QED
      BY <1>a, <2>1, <2>2 DEF GivenUpIsMissed
<1>5. CASE GrantOne
  <2>1. pc' \in {"grant", "sleep"} /\ UNCHANGED <<k, missing>>
      BY <1>5 DEF GrantOne
  <2> QED
      BY <1>a, <2>1 DEF GivenUpIsMissed
<1>6. CASE GrantFails
  <2>1. pc = "grant" /\ pc' = "failed" /\ UNCHANGED <<roster, k, missing, granted>>
      BY <1>6 DEF GrantFails
  <2>2. ~(SeatsOf(k) \subseteq granted)
      BY <1>a, <2>1 DEF ClockRuns
  <2> QED
      BY <1>a, <2>1, <2>2 DEF GivenUpIsMissed, SeatsOf
<1>7. CASE Next /\ ~(MonitorStep \/ CheckActiveError \/ GrantFails)
  <2>1. UNCHANGED <<roster, pc, k, missing, granted>>
      BY <1>7, WorldKeepsMonitor
  <2> QED
      BY <1>a, <2>1 DEF GivenUpIsMissed, SeatsOf
<1>8. CASE UNCHANGED vars
    BY <1>a, <1>8 DEF vars, monitorVars, GivenUpIsMissed, SeatsOf
<1> QED
    BY <1>1, <1>2, <1>3, <1>4, <1>5, <1>6, <1>7, <1>8 DEF MonitorStep

\* When the grants of the first attempt are out, nobody is connected or missing.
LEMMA InitTimingInv ==
    ASSUME Init
    PROVE  TimingIndInv
<1>1. TypeOK /\ RetriesAreSpent
    BY InitReleaseInv DEF ReleaseIndInv
<1>2. /\ k = 0 /\ pc = "sleep" /\ timer = AssignmentTimeout /\ unchecked = {}
      /\ missing = [a \in Attempts |-> {}] /\ granted = SeatsOf(0) /\ up = {0}
      /\ seat = [x \in Seats |-> IF x \in SeatsOf(0) THEN "waiting" ELSE "none"]
      /\ age = [a \in Attempts |-> PrepareDelay] /\ reports = [x \in Seats |-> <<>>]
    BY DEF Init
<1>3. /\ 0 \in Attempts /\ Attempts \subseteq Nat
      /\ \A a \in Attempts : \A m \in Members : <<a, m>> \in Seats
      /\ \A x \in Seats : x[1] \in Attempts
      /\ {AssignmentTimeout, GateTimeout, PrepareDelay} \subseteq Nat /\ PrepareDelay <= GateTimeout
    BY <1>1, <1>2, Numbers
<1>4. FutureIsFresh
  <2>1. ASSUME NEW a \in Attempts, a > 0, NEW m \in Members
        PROVE  <<a, m>> \in Seats /\ <<a, m>> \notin SeatsOf(0)
      BY <1>3, <2>1 DEF SeatsOf
  <2> QED
      BY <1>2, <2>1 DEF FutureIsFresh
<1>5. ClockRuns
    BY <1>2, <1>3 DEF ClockRuns
<1>6. WaitingInTime
  <2>1. ASSUME NEW x \in Seats, seat[x] = "waiting" PROVE x[1] = 0
      BY <1>2, <2>1 DEF SeatsOf
  <2> QED
      BY <1>2, <1>3, <2>1 DEF WaitingInTime
<1>7. ConnectedIsReported
    BY <1>2, <1>3 DEF ConnectedIsReported
<1>8. MissingAreOut
    BY <1>2, <1>3 DEF MissingAreOut
<1>9. GivenUpIsMissed
    BY <1>2, <1>3 DEF GivenUpIsMissed
<1> QED
    BY <1>1, <1>4, <1>5, <1>6, <1>7, <1>8, <1>9 DEF TimingIndInv

\* The inductive invariant of the monitor, the gates and their clocks.
THEOREM MonitorTimingIndInv ==
    ASSUME GateClosesFirst
    PROVE  Spec => []TimingIndInv
<1>1. TimingIndInv /\ [Next]_vars => TimingIndInv'
  <2> SUFFICES ASSUME TimingIndInv, [Next]_vars PROVE TimingIndInv'
      OBVIOUS
  <2>1. TypeOK' /\ RetriesAreSpent'
      BY StepTypeOK, StepRetriesAreSpent DEF TimingIndInv
  <2> QED
      BY <2>1, StepFutureIsFresh, StepClockRuns, StepWaitingInTime, StepConnectedIsReported,
         StepMissingAreOut, StepGivenUpIsMissed DEF TimingIndInv
<1>2. Init => TimingIndInv
    BY InitTimingInv
<1> QED
    BY <1>1, <1>2, PTL DEF Spec

\* When the gate closes before the monitor looks, a member the monitor took for missing
\* cannot get in any more, and is in the game only if its report was lost or its entry
\* ran out, whatever the times to live.
THEOREM MonitorMissingStaysMissing ==
    ASSUME GateClosesFirst
    PROVE  Spec => []MissingStaysMissing
<1>1. TimingIndInv => MissingStaysMissing
  <2>1. GivenUp \subseteq Attempts
      BY DEF GivenUp
  <2> QED
      BY <2>1 DEF TimingIndInv, MissingAreOut, MissingStaysMissing
<1> QED
    BY MonitorTimingIndInv, <1>1, PTL

-----------------------------------------------------------------------------
(* The states of assignments.                                              *)

\* The monitor sleeps, checks and turns away only after all grants are out, and only
\* members of the roster get one.
GrantsAreOut ==
    /\ pc \notin {"grant", "failed"} => SeatsOf(k) \subseteq granted
    /\ \A x \in granted : x[2] \in roster

\* What the monitor makes of a seat whose client is not in the game.
Verdict == [x \in Seats |-> IF x[1] \in GivenUp THEN "timed_out"
                            ELSE IF x[1] = k /\ pc = "failed" THEN "failed"
                            ELSE IF x \in granted THEN "ready" ELSE "prepared"]

\* How the monitor's own steps move its position, its attempt and the grants.
LEMMA MonitorMoves ==
    ASSUME MonitorStep \/ CheckActiveError \/ GrantFails
    PROVE  /\ roster' = roster /\ granted \subseteq granted'
           /\ pc \notin Ended
           /\ k' = k \/ (k' = k + 1 /\ pc = "replace" /\ pc' = "grant")
           /\ pc = "replace" => granted' = granted /\ (pc' = "failed" \/ k' = k + 1)
           /\ pc = "grant" => pc' \in {"grant", "failed"} \/ SeatsOf(k) \subseteq granted'
           /\ pc # "grant" => granted' = granted
           /\ pc' = "grant" => pc = "grant" \/ k' = k + 1
           /\ \A x \in granted' \ granted : x[2] \in roster
<1> USE DEF Goto, Ended
<1>1. CASE Wake \/ CheckActive \/ CheckServer
    BY <1>1 DEF Wake, CheckActive, CheckServer
<1>2. CASE Cleanup \/ CheckActiveError \/ GrantFails
    BY <1>2 DEF Cleanup, CheckActiveError, GrantFails
<1>3. CASE ReplacePrepared \/ ReplaceFails
    BY <1>3 DEF ReplacePrepared, ReplaceFails
<1>4. CASE GrantOne
    BY <1>4 DEF GrantOne
<1> QED
    BY <1>1, <1>2, <1>3, <1>4 DEF MonitorStep

\* No step takes a grant back or forgets one.
LEMMA StepGrantsAreOut ==
    ASSUME GrantsAreOut, [Next]_vars
    PROVE  GrantsAreOut'
<1>1. CASE MonitorStep \/ CheckActiveError \/ GrantFails
  <2>1. /\ roster' = roster /\ granted \subseteq granted'
        /\ pc \notin Ended
        /\ k' = k \/ (k' = k + 1 /\ pc = "replace" /\ pc' = "grant")
        /\ pc = "grant" => pc' \in {"grant", "failed"} \/ SeatsOf(k) \subseteq granted'
      BY <1>1, MonitorMoves
  <2>2. \A x \in granted' \ granted : x[2] \in roster
      BY <1>1, MonitorMoves
  <2> QED
      BY <2>1, <2>2 DEF GrantsAreOut, SeatsOf, Ended
<1>2. CASE Next /\ ~(MonitorStep \/ CheckActiveError \/ GrantFails)
    BY <1>2, WorldKeepsMonitor DEF GrantsAreOut, SeatsOf
<1>3. CASE UNCHANGED vars
    BY <1>3 DEF vars, monitorVars, GrantsAreOut, SeatsOf
<1> QED
    BY <1>1, <1>2, <1>3

\* The verdict on a seat only gets final: prepared, ready, then timed out or failed.
LEMMA VerdictMoves ==
    ASSUME TypeOK, GrantsAreOut, [Next]_vars, NEW x \in Seats
    PROVE  \/ Verdict'[x] = Verdict[x]
           \/ Verdict[x] = "prepared" /\ Verdict'[x] \in {"ready", "timed_out", "failed"}
           \/ Verdict[x] = "ready" /\ Verdict'[x] \in {"timed_out", "failed"}
<1>a. k \in Nat /\ x[1] \in Attempts /\ x[1] \in Nat
    BY Numbers
<1>b. Verdict'[x] = IF x[1] \in GivenUp' THEN "timed_out"
                    ELSE IF x[1] = k' /\ pc' = "failed" THEN "failed"
                    ELSE IF x \in granted' THEN "ready" ELSE "prepared"
    BY DEF Verdict
<1>c. Verdict[x] = IF x[1] \in GivenUp THEN "timed_out"
                   ELSE IF x[1] = k /\ pc = "failed" THEN "failed"
                   ELSE IF x \in granted THEN "ready" ELSE "prepared"
    BY DEF Verdict
<1>1. CASE MonitorStep \/ CheckActiveError \/ GrantFails
  <2>1. /\ roster' = roster /\ granted \subseteq granted'
        /\ pc \notin Ended
        /\ k' = k \/ (k' = k + 1 /\ pc = "replace" /\ pc' = "grant")
        /\ pc = "replace" => granted' = granted /\ (pc' = "failed" \/ k' = k + 1)
      BY <1>1, MonitorMoves
  <2>2. ASSUME x[1] \in GivenUp PROVE x[1] \in GivenUp'
    <3>1. x[1] < k \/ (x[1] = k /\ pc = "replace")
        BY <2>1, <2>2 DEF GivenUp, Ended
    <3>2. CASE x[1] < k
      <4>1. x[1] < k'
          BY <1>a, <2>1, <3>2
      <4> QED
          BY <1>a, <4>1 DEF GivenUp
    <3>3. CASE x[1] = k /\ pc = "replace"
      <4>1. SeatsOf(k) \subseteq granted
          BY <3>3 DEF GrantsAreOut
      <4>2. CASE k' = k + 1
          BY <1>a, <3>3, <4>2 DEF GivenUp
      <4>3. CASE k' = k
        <5>1. pc' = "failed" /\ granted' = granted /\ SeatsOf(k') = SeatsOf(k)
            BY <1>a, <2>1, <3>3, <4>3
        <5>2. x[1] = k' /\ (SeatsOf(k) \subseteq granted)'
            BY <2>1, <3>3, <4>1, <4>3, <5>1 DEF SeatsOf
        <5> QED
            BY <1>a, <5>1, <5>2 DEF GivenUp
      <4> QED
          BY <2>1, <4>2, <4>3
    <3> QED
        BY <3>1, <3>2, <3>3
  <2> QED
      BY <1>b, <1>c, <2>1, <2>2 DEF Ended
<1>2. CASE Next /\ ~(MonitorStep \/ CheckActiveError \/ GrantFails)
  <2>1. UNCHANGED <<roster, pc, k, granted>>
      BY <1>2, WorldKeepsMonitor
  <2> QED
      BY <2>1 DEF Verdict, GivenUp, SeatsOf
<1>3. CASE UNCHANGED vars
    BY <1>3 DEF vars, monitorVars, Verdict, GivenUp, SeatsOf
<1> QED
    BY <1>1, <1>2, <1>3

\* How the world moves a seat.
LEMMA SeatsMove ==
    ASSUME TypeOK, Next, ~(MonitorStep \/ CheckActiveError \/ GrantFails), NEW y \in Seats
    PROVE  \/ seat'[y] = seat[y]
           \/ seat[y] = "waiting" /\ seat'[y] \in {"expired", "lost"}
           \/ seat[y] = "waiting" /\ seat'[y] = "connected" /\ y \in granted
           \/ seat[y] = "connected" /\ seat'[y] = "disconnected"
<1>a. seat \in [Seats -> SeatStates]
    BY DEF TypeOK
<1> USE DEF serverVars
<1>1. ASSUME NEW x \in Seats, ClientConnected(x) \/ ClientDisconnected(x)
      PROVE  \/ seat'[y] = seat[y]
             \/ seat[y] = "waiting" /\ seat'[y] = "connected" /\ y \in granted
             \/ seat[y] = "connected" /\ seat'[y] = "disconnected"
    BY <1>a, <1>1 DEF ClientConnected, ClientDisconnected
<1>2. ASSUME NEW x \in Seats, PublishReport(x) \/ ReportLost(x)
      PROVE  UNCHANGED seat
    BY <1>2 DEF PublishReport, ReportLost
<1>3. ASSUME NEW a \in Attempts, ExpireUnconnected(a)
      PROVE  \/ seat'[y] = seat[y]
             \/ seat[y] = "waiting" /\ seat'[y] = "expired"
    BY <1>a, <1>3 DEF ExpireUnconnected, Overdue
<1>4. ASSUME NEW a \in Attempts, ServerDies(a)
      PROVE  \/ seat'[y] = seat[y]
             \/ seat[y] = "waiting" /\ seat'[y] = "lost"
             \/ seat[y] = "connected" /\ seat'[y] = "disconnected"
  <2>1. seat'[y] = CASE y[1] = a /\ seat[y] = "waiting" -> "lost"
                     [] y[1] = a /\ seat[y] = "connected" -> "disconnected"
                     [] OTHER -> seat[y]
      BY <1>4 DEF ServerDies
  <2> QED
      BY <2>1
<1>5. ASSUME NEW a \in Attempts, PublishCapacity(a) \/ DrainGameServer(a)
      PROVE  UNCHANGED seat
    BY <1>5 DEF PublishCapacity, DrainGameServer
<1>6. CASE Tick
    BY <1>6 DEF Tick
<1> QED
    BY <1>1, <1>2, <1>3, <1>4, <1>5, <1>6 DEF Next

\* In solo play a client that can still connect has an attempt that is watched.
LEMMA WaitingIsWatched ==
    ASSUME TimingIndInv, GrantsAreOut, Solo, NEW x \in Seats,
           seat[x] = "waiting", x \in granted
    PROVE  Verdict[x] = "ready"
<1>a. TypeOK /\ MissingAreOut /\ GivenUpIsMissed /\ RetriesAreSpent
    BY DEF TimingIndInv
<1>b. PICK p \in Members : roster = {p}
    BY DEF Solo
<1>c. x[1] \in Attempts /\ x[2] = p /\ x = <<x[1], x[2]>>
  <2>1. x[1] \in Attempts /\ x = <<x[1], x[2]>>
      BY <1>a, Numbers
  <2>2. x[2] \in roster
      BY DEF GrantsAreOut
  <2> QED
      BY <1>b, <2>1, <2>2
<1>1. x[1] \notin GivenUp
  <2>1. x[1] \in GivenUp => missing[x[1]] # {}
      BY <1>a, <1>c DEF GivenUp, GivenUpIsMissed
  <2>2. missing[x[1]] # {} => p \in missing[x[1]]
      BY <1>a, <1>c, <1>b DEF MissingAreOut
  <2>3. p \in missing[x[1]] => seat[<<x[1], p>>] # "waiting"
      BY <1>a, <1>c DEF MissingAreOut
  <2> QED
      BY <1>c, <2>1, <2>2, <2>3
<1>2. ~(x[1] = k /\ pc = "failed")
  <2>1. x[1] = k => SeatsOf(k) \subseteq granted
      BY <1>c, <1>b DEF SeatsOf
  <2> QED
      BY <1>1, <1>c, <2>1 DEF GivenUp
<1> QED
    BY <1>1, <1>2 DEF Verdict

\* When the gate closes before the monitor looks, an assignment of solo play moves along the
\* transitions can_transition_to allows, whatever its client, its server and the
\* monitor do.
THEOREM MonitorFollowsLifecycle ==
    ASSUME GateClosesFirst
    PROVE  Spec => FollowsLifecycle
<1> DEFINE Moves == Solo => \A x \in Seats :
                      (StateOf(x) # "none" /\ StateOf(x)' # StateOf(x))
                          => Lifecycle!CanTransition(StateOf(x), StateOf(x)')
<1>1. Init => GrantsAreOut
    BY DEF Init, GrantsAreOut, SeatsOf
<1>2. GrantsAreOut /\ [Next]_vars => GrantsAreOut'
    BY StepGrantsAreOut
<1>3. TimingIndInv /\ GrantsAreOut /\ [Next]_vars => [Moves]_vars
  <2> SUFFICES ASSUME TimingIndInv, GrantsAreOut, [Next]_vars, Solo, NEW x \in Seats,
                      StateOf(x) # "none", StateOf(x)' # StateOf(x)
               PROVE  Lifecycle!CanTransition(StateOf(x), StateOf(x)')
      OBVIOUS
  <2>a. TypeOK /\ FutureIsFresh /\ RetriesAreSpent
      BY DEF TimingIndInv
  <2>b. seat[x] \in SeatStates /\ seat \in [Seats -> SeatStates]
      BY <2>a DEF TypeOK
  <2>1. /\ seat[x] = "none" => StateOf(x) = "none"
        /\ seat[x] \in {"connected", "disconnected"} => StateOf(x) = seat[x]
        /\ seat[x] \in {"waiting", "expired", "lost"} => StateOf(x) = Verdict[x]
      BY DEF StateOf, Verdict
  <2>2. /\ seat'[x] \in {"connected", "disconnected"} => StateOf(x)' = seat'[x]
        /\ seat'[x] \in {"waiting", "expired", "lost"} => StateOf(x)' = Verdict'[x]
      BY DEF StateOf, Verdict
  <2>3. \/ seat'[x] = seat[x]
        \/ seat[x] = "waiting" /\ seat'[x] \in {"expired", "lost"}
        \/ seat[x] = "waiting" /\ seat'[x] = "connected" /\ x \in granted
        \/ seat[x] = "connected" /\ seat'[x] = "disconnected"
    <3>1. CASE ReplacePrepared
      <4>1. seat'[x] = IF x \in SeatsOf(k + 1) THEN "waiting" ELSE seat[x]
          BY <3>1 DEF ReplacePrepared
      <4>2. x \notin SeatsOf(k + 1)
        <5>1. k + 1 \in Attempts /\ k + 1 > k
            BY <2>a, <3>1, NextAttempt
        <5>2. \A m \in Members : seat[<<k + 1, m>>] = "none"
            BY <2>a, <5>1 DEF FutureIsFresh
        <5>3. \A y \in SeatsOf(k + 1) : seat[y] = "none"
          <6>1. roster \subseteq Members
              BY <2>a DEF TypeOK
          <6>2. \A y \in SeatsOf(k + 1) : y[2] \in roster /\ y = <<k + 1, y[2]>>
              BY DEF SeatsOf
          <6> QED
              BY <5>2, <6>1, <6>2
        <5> QED
            BY <2>1, <5>3
      <4> QED
          BY <4>1, <4>2
    <3>2. CASE (MonitorStep \/ CheckActiveError \/ GrantFails) /\ ~ReplacePrepared
        BY <3>2, MonitorKeepsWorld
    <3>3. CASE Next /\ ~(MonitorStep \/ CheckActiveError \/ GrantFails)
        BY <2>a, <3>3, SeatsMove
    <3>4. CASE UNCHANGED vars
        BY <3>4 DEF vars, serverVars
    <3> QED
        BY <3>1, <3>2, <3>3, <3>4
  <2>4. seat[x] = "waiting" /\ x \in granted => Verdict[x] = "ready"
      BY WaitingIsWatched
  <2>5. \/ Verdict'[x] = Verdict[x]
        \/ Verdict[x] = "prepared" /\ Verdict'[x] \in {"ready", "timed_out", "failed"}
        \/ Verdict[x] = "ready" /\ Verdict'[x] \in {"timed_out", "failed"}
      BY <2>a, VerdictMoves
  <2>6. \/ StateOf(x) = "prepared" /\ StateOf(x)' \in {"ready", "timed_out", "failed"}
        \/ StateOf(x) = "ready" /\ StateOf(x)' \in {"timed_out", "failed", "connected"}
        \/ StateOf(x) = "connected" /\ StateOf(x)' = "disconnected"
      BY <2>b, <2>1, <2>2, <2>3, <2>4, <2>5 DEF SeatStates
  <2> QED
      BY <2>6 DEF Lifecycle!CanTransition, Lifecycle!Legal
<1> QED
    BY <1>1, <1>2, <1>3, MonitorTimingIndInv, PTL DEF Spec, FollowsLifecycle
=============================================================================
