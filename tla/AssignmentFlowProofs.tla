------------------------ MODULE AssignmentFlowProofs ------------------------
(***************************************************************************)
(* Theorems about AssignmentFlow for any number of requests, servers,      *)
(* retries, faults and drains.                                             *)
(***************************************************************************)
EXTENDS AssignmentFlow, TLAPS

\* The current attempt of a request is an attempt, and once it is placed its
\* server is a server.
LEMMA CurrentIsAttempt ==
    ASSUME TypeOK, NEW r \in Requests
    PROVE  /\ Current(r) \in Attempts
           /\ Target(r) \in Servers \cup {NoServer}
BY FlowAssumption DEF TypeOK, Current, Target, Attempts

LEMMA InitTypeOK == Init => TypeOK
BY FlowAssumption DEF Init, TypeOK, Labels, WaitLabels, CleanupLabels, Attempts

\* What the end of a cleanup does to the types of the variables it assigns.
LEMMA AfterCleanupType ==
    ASSUME TypeOK, NEW r \in Requests, Target(r) \in Servers, AfterCleanup(r)
    PROVE  /\ pc' \in [Requests -> Labels]
           /\ attempt' \in [Requests -> 0..MaxRetries]
           /\ avoid' \in [Requests -> SUBSET Servers]
<1>1. CASE attempt[r] < MaxRetries
  <2>1. attempt[r] + 1 \in 0..MaxRetries
    BY <1>1, FlowAssumption DEF TypeOK
  <2>2. avoid[r] \cup {Target(r)} \in SUBSET Servers
    BY DEF TypeOK
  <2> QED
    BY <1>1, <2>1, <2>2 DEF AfterCleanup, TypeOK, Labels
<1>2. CASE ~(attempt[r] < MaxRetries)
  BY <1>2 DEF AfterCleanup, TypeOK, Labels
<1> QED
  BY <1>1, <1>2

\* Type correctness is preserved by every step.
LEMMA StepTypeOK == IndInv /\ [Next]_vars => TypeOK'
<1> SUFFICES ASSUME IndInv, [Next]_vars PROVE TypeOK'
  OBVIOUS
<1> USE FlowAssumption DEF TypeOK, Step, AdminStep, taskVars, bucketVars, serverVars,
            drainVars, jobVars
<1>a. /\ TypeOK
      /\ \A r \in Requests : Current(r) \in Attempts
  BY CurrentIsAttempt DEF IndInv
<1>b. \A r \in Requests : pc[r] \notin {"idle", "allocate", "failed"} => Target(r) \in Servers
  BY DEF IndInv, Placement
<1>1. CASE UNCHANGED vars
  BY <1>a, <1>1 DEF vars
<1>2. ASSUME NEW r \in Requests, RequestPlay(r) PROVE TypeOK'
  BY <1>a, <1>b, <1>2 DEF RequestPlay, Labels, WaitLabels, CleanupLabels
<1>3. ASSUME NEW r \in Requests, Allocate(r) PROVE TypeOK'
  BY <1>a, <1>b, <1>3 DEF Allocate, Candidates, Labels, WaitLabels, CleanupLabels
<1>4. ASSUME NEW r \in Requests, NoCapacity(r) PROVE TypeOK'
  BY <1>a, <1>b, <1>4 DEF NoCapacity, Labels, WaitLabels, CleanupLabels
<1>5. ASSUME NEW r \in Requests, PutByServer(r) PROVE TypeOK'
  <2>1. Target(r) \in Servers
    BY <1>b, <1>5 DEF PutByServer
  <2>2. byServer' \in [Servers -> SUBSET Attempts]
    <3>1. byServer[Target(r)] \cup {Current(r)} \in SUBSET Attempts
      BY <1>a, <2>1
    <3> QED
      BY <1>a, <1>5, <2>1, <3>1 DEF PutByServer
  <2> QED
    BY <1>a, <1>5, <2>2 DEF PutByServer, Labels
<1>6. ASSUME NEW r \in Requests, PutByClient(r) PROVE TypeOK'
  BY <1>a, <1>b, <1>6 DEF PutByClient, Labels, WaitLabels, CleanupLabels
<1>7. ASSUME NEW r \in Requests, CheckDrain(r) PROVE TypeOK'
  BY <1>a, <1>b, <1>7 DEF CheckDrain, Labels, WaitLabels, CleanupLabels
<1>8. ASSUME NEW r \in Requests, ReadAck(r) PROVE TypeOK'
  BY <1>a, <1>b, <1>8 DEF ReadAck, Labels, WaitLabels, CleanupLabels
<1>9. ASSUME NEW r \in Requests, PrepareTimeout(r) PROVE TypeOK'
  BY <1>a, <1>b, <1>9 DEF PrepareTimeout, Labels, WaitLabels, CleanupLabels
<1>10. ASSUME NEW r \in Requests, IssueGrant(r) PROVE TypeOK'
  BY <1>a, <1>b, <1>10 DEF IssueGrant, Labels, WaitLabels, CleanupLabels
<1>11. ASSUME NEW r \in Requests, DeleteForClient(r) PROVE TypeOK'
  <2>1. Target(r) \in Servers
    BY <1>b, <1>11 DEF DeleteForClient
  <2>2. byServer' \in [Servers -> SUBSET Attempts]
    <3>1. byServer[Target(r)] \ {Current(r)} \in SUBSET Attempts
      BY <1>a, <2>1
    <3> QED
      BY <1>a, <1>11, <2>1, <3>1 DEF DeleteForClient
  <2>3. pc' \in [Requests -> Labels]
    BY <1>a, <1>11, ZenonT(60) DEF DeleteForClient, Labels, CleanupLabels
  <2> QED
    BY <1>a, <1>11, <2>2, <2>3 DEF DeleteForClient
<1>12. ASSUME NEW r \in Requests, DeleteClientAck(r) PROVE TypeOK'
  BY <1>a, <1>b, <1>12 DEF DeleteClientAck, Labels, WaitLabels, CleanupLabels
<1>13. ASSUME NEW r \in Requests, DeleteIndex(r) PROVE TypeOK'
  BY <1>a, <1>b, <1>13 DEF DeleteIndex, Labels, WaitLabels, CleanupLabels
<1>14. ASSUME NEW r \in Requests, DeleteAck(r) PROVE TypeOK'
  BY <1>a, <1>b, <1>14 DEF DeleteAck, Labels, WaitLabels, CleanupLabels
<1>15. ASSUME NEW r \in Requests, EnqueueDelete(r) PROVE TypeOK'
  BY <1>a, <1>b, <1>15 DEF EnqueueDelete, Labels, WaitLabels, CleanupLabels
<1>16. ASSUME NEW r \in Requests, EnqueueRelease(r) PROVE TypeOK'
  <2>1. Target(r) \in Servers /\ AfterCleanup(r)
    BY <1>b, <1>16 DEF EnqueueRelease
  <2>2. releaseJobs' \in [Attempts -> Nat]
    BY <1>a, <1>16 DEF EnqueueRelease
  <2> QED
    BY <1>a, <1>16, <2>1, <2>2, AfterCleanupType DEF EnqueueRelease
<1>17. ASSUME NEW r \in Requests, TaskError(r) PROVE TypeOK'
  <2>1. faults' \in 0..MaxFaults
    BY <1>a, <1>17 DEF TaskError
  <2>2. CASE pc[r] = "enqueue_release"
    <3>1. Target(r) \in Servers /\ AfterCleanup(r)
      BY <1>b, <1>17, <2>2 DEF TaskError, WaitLabels
    <3> QED
      BY <1>a, <1>17, <2>1, <3>1, AfterCleanupType DEF TaskError
  <2>3. CASE pc[r] # "enqueue_release"
    BY <1>a, <1>17, <2>1, <2>3 DEF TaskError, Labels, WaitLabels, CleanupLabels
  <2> QED
    BY <2>2, <2>3
<1>18. ASSUME NEW s \in Servers, PollAssignments(s) PROVE TypeOK'
  BY <1>a, <1>18 DEF PollAssignments
<1>19. ASSUME NEW s \in Servers, RegisterAssignment(s) PROVE TypeOK'
  BY <1>a, <1>19 DEF RegisterAssignment
<1>20. ASSUME NEW s \in Servers, PublishPrepared(s) PROVE TypeOK'
  BY <1>a, <1>20 DEF PublishPrepared
<1>21. ASSUME NEW s \in Servers, ConsumeByServer(s) PROVE TypeOK'
  BY <1>a, <1>21 DEF ConsumeByServer
<1>22. ASSUME NEW s \in Servers, ConsumeByClient(s) PROVE TypeOK'
  <2>1. Len(outbox[s]) > 0
    BY <1>22 DEF ConsumeByClient, IndInv, Admission
  <2>2. Tail(outbox[s]) \in Seq(Attempts)
    BY <1>a, <2>1
  <2> QED
    BY <1>a, <1>22, <2>2 DEF ConsumeByClient
<1>23. ASSUME NEW s \in Servers, ReportLost(s) PROVE TypeOK'
  BY <1>a, <1>23 DEF ReportLost
<1>24. ASSUME NEW s \in Servers, DrainGameServer(s) PROVE TypeOK'
  BY <1>a, <1>24 DEF DrainGameServer
<1>25. ASSUME NEW s \in Servers, PublishServerDrain(s) PROVE TypeOK'
  BY <1>a, <1>25 DEF PublishServerDrain
<1>26. ASSUME NEW s \in Servers, ListPending(s) PROVE TypeOK'
  BY <1>a, <1>26 DEF ListPending
<1>27. ASSUME NEW s \in Servers, ClearPending(s) PROVE TypeOK'
  BY <1>a, <1>27 DEF ClearPending
<1>28. ASSUME NEW s \in Servers, PurgeCanceled(s) PROVE TypeOK'
  BY <1>a, <1>28 DEF PurgeCanceled
<1>29. ASSUME NEW s \in Servers, QueueDrainCleanup(s) PROVE TypeOK'
  BY <1>a, <1>29 DEF QueueDrainCleanup
<1>30. ASSUME NEW s \in Servers, DrainError(s) PROVE TypeOK'
  BY <1>a, <1>30 DEF DrainError
<1>31. ASSUME NEW s \in Servers, UndrainGameServer(s) PROVE TypeOK'
  BY <1>a, <1>31 DEF UndrainGameServer
<1>32. ASSUME NEW s \in Servers, ClearServerDrain(s) PROVE TypeOK'
  BY <1>a, <1>32 DEF ClearServerDrain
<1> QED
  BY <1>1, <1>2, <1>3, <1>4, <1>5, <1>6, <1>7, <1>8, <1>9, <1>10, <1>11, <1>12, <1>13, <1>14, <1>15, <1>16, <1>17, <1>18, <1>19, <1>20, <1>21, <1>22, <1>23, <1>24, <1>25, <1>26, <1>27, <1>28, <1>29, <1>30, <1>31, <1>32
  DEF Next, TaskStep, BridgeStep, DrainStep

\* Steps place attempts where only their server can find them.
LEMMA StepPlacement == IndInv /\ [Next]_vars => Placement'
<1> SUFFICES ASSUME IndInv, [Next]_vars PROVE Placement'
  OBVIOUS
<1> USE FlowAssumption DEF TypeOK, Step, AdminStep, taskVars, bucketVars,
        serverVars, drainVars, jobVars, Current, Target, Attempts, WaitLabels,
        CleanupLabels
<1>a. TypeOK /\ Placement
  BY DEF IndInv
<1>b. ASSUME NEW r \in Requests, pc[r] = "enqueue_release", AfterCleanup(r),
             UNCHANGED <<placed, byServer, seen, canceled>>
      PROVE  Placement'
  <2>1. CASE attempt[r] < MaxRetries
    <3>1. /\ attempt[r] + 1 \in 0..MaxRetries
          /\ attempt' = [attempt EXCEPT ![r] = attempt[r] + 1]
          /\ pc' = [pc EXCEPT ![r] = "allocate"]
      BY <1>a, <1>b, <2>1 DEF AfterCleanup
    <3>2. placed[<<r, attempt[r] + 1>>] = NoServer
      BY <1>a, <3>1 DEF Placement
    <3> QED
      BY <1>a, <1>b, <3>1, <3>2 DEF Placement
  <2>2. CASE ~(attempt[r] < MaxRetries)
    <3>1. pc' = [pc EXCEPT ![r] = "failed"] /\ attempt' = attempt
      BY <1>b, <2>2 DEF AfterCleanup
    <3> QED
      BY <1>a, <1>b, <3>1 DEF Placement
  <2> QED
    BY <2>1, <2>2
<1>1. CASE UNCHANGED vars
  BY <1>a, <1>1 DEF vars, Placement
<1>2. ASSUME NEW r \in Requests, ReadAck(r) PROVE Placement'
  <2>1. /\ pc[r] = "read_ack"
        /\ pc' = [pc EXCEPT ![r] = "issue_grant"] \/ pc' = [pc EXCEPT ![r] = "check_drain"]
        /\ UNCHANGED <<attempt, placed, byServer, seen, canceled>>
    BY <1>2 DEF ReadAck
  <2> QED
    BY <1>a, <2>1, ZenonT(60) DEF Placement
<1>3. ASSUME NEW r \in Requests, DeleteForClient(r) PROVE Placement'
  <2>1. CASE Current(r) \in byClient
    <3>1. /\ pc' = [pc EXCEPT ![r] = "delete_client_ack"]
          /\ pc[r] = "delete_for_client"
          /\ byServer' = [byServer EXCEPT ![Target(r)] = @ \ {Current(r)}]
          /\ UNCHANGED <<attempt, placed, seen, canceled>>
      BY <1>3, <2>1 DEF DeleteForClient
    <3>2. \A s \in Servers : byServer'[s] \subseteq byServer[s]
      BY <1>a, <3>1
    <3> QED
      BY <1>a, <3>1, <3>2, SMTT(30) DEF Placement
  <2>2. CASE Current(r) \notin byClient
    BY <1>a, <1>3, <2>2, ZenonT(60) DEF DeleteForClient, Placement
  <2> QED
    BY <2>1, <2>2
<1>4. ASSUME NEW r \in Requests, EnqueueRelease(r) PROVE Placement'
  <2>1. /\ pc[r] = "enqueue_release"
        /\ AfterCleanup(r)
        /\ UNCHANGED <<placed, byServer, seen, canceled>>
    BY <1>4 DEF EnqueueRelease
  <2> QED
    BY <1>a, <1>b, <2>1
<1>5. ASSUME NEW r \in Requests, TaskError(r) PROVE Placement'
  <2>1. UNCHANGED <<placed, byServer, seen, canceled>>
    BY <1>5 DEF TaskError
  <2>2. CASE pc[r] = "enqueue_release"
    BY <1>a, <1>b, <1>5, <2>1, <2>2 DEF TaskError
  <2>3. CASE pc[r] # "enqueue_release"
    <3>1. /\ UNCHANGED attempt
          /\ pc[r] # "idle"
          /\ \/ pc' = [pc EXCEPT ![r] = "failed"]
             \/ /\ pc[r] \notin {"idle", "allocate", "failed"}
                /\ \E l \in CleanupLabels : pc' = [pc EXCEPT ![r] = l]
      BY <1>5, <2>3 DEF TaskError
    <3> QED
      BY <1>a, <2>1, <3>1, ZenonT(60) DEF Placement
  <2> QED
    BY <2>2, <2>3
<1>6. ASSUME NEW r \in Requests,
              RequestPlay(r)
       PROVE  Placement'
  BY <1>a, <1>6 DEF RequestPlay, Placement
<1>7. ASSUME NEW r \in Requests,
              Allocate(r)
       PROVE  Placement'
  BY <1>a, <1>7 DEF Allocate, Candidates, Placement
<1>8. ASSUME NEW r \in Requests,
              NoCapacity(r)
       PROVE  Placement'
  BY <1>a, <1>8 DEF NoCapacity, Placement
<1>9. ASSUME NEW r \in Requests,
              PutByServer(r)
       PROVE  Placement'
  BY <1>a, <1>9 DEF PutByServer, Placement
<1>10. ASSUME NEW r \in Requests,
              PutByClient(r)
       PROVE  Placement'
  BY <1>a, <1>10 DEF PutByClient, Placement
<1>11. ASSUME NEW r \in Requests,
              CheckDrain(r)
       PROVE  Placement'
  BY <1>a, <1>11, SMTT(60) DEF CheckDrain, Placement
<1>12. ASSUME NEW r \in Requests,
              PrepareTimeout(r)
       PROVE  Placement'
  BY <1>a, <1>12 DEF PrepareTimeout, Placement
<1>13. ASSUME NEW r \in Requests,
              IssueGrant(r)
       PROVE  Placement'
  BY <1>a, <1>13 DEF IssueGrant, Placement
<1>14. ASSUME NEW r \in Requests,
              DeleteClientAck(r)
       PROVE  Placement'
  BY <1>a, <1>14 DEF DeleteClientAck, Placement
<1>15. ASSUME NEW r \in Requests,
              DeleteIndex(r)
       PROVE  Placement'
  BY <1>a, <1>15 DEF DeleteIndex, Placement
<1>16. ASSUME NEW r \in Requests,
              DeleteAck(r)
       PROVE  Placement'
  BY <1>a, <1>16 DEF DeleteAck, Placement
<1>17. ASSUME NEW r \in Requests,
              EnqueueDelete(r)
       PROVE  Placement'
  BY <1>a, <1>17 DEF EnqueueDelete, Placement
<1>18. ASSUME NEW s \in Servers,
              PollAssignments(s)
       PROVE  Placement'
  BY <1>a, <1>18 DEF PollAssignments, Placement
<1>19. ASSUME NEW s \in Servers,
              RegisterAssignment(s)
       PROVE  Placement'
  BY <1>a, <1>19 DEF RegisterAssignment, Placement
<1>20. ASSUME NEW s \in Servers,
              PublishPrepared(s)
       PROVE  Placement'
  BY <1>a, <1>20 DEF PublishPrepared, Placement
<1>21. ASSUME NEW s \in Servers,
              ConsumeByServer(s)
       PROVE  Placement'
  BY <1>a, <1>21 DEF ConsumeByServer, Placement
<1>22. ASSUME NEW s \in Servers,
              ConsumeByClient(s)
       PROVE  Placement'
  BY <1>a, <1>22 DEF ConsumeByClient, Placement
<1>23. ASSUME NEW s \in Servers,
              ReportLost(s)
       PROVE  Placement'
  BY <1>a, <1>23 DEF ReportLost, Placement
<1>24. ASSUME NEW s \in Servers,
              DrainGameServer(s)
       PROVE  Placement'
  BY <1>a, <1>24 DEF DrainGameServer, Placement
<1>25. ASSUME NEW s \in Servers,
              PublishServerDrain(s)
       PROVE  Placement'
  BY <1>a, <1>25 DEF PublishServerDrain, Placement
<1>26. ASSUME NEW s \in Servers,
              ListPending(s)
       PROVE  Placement'
  BY <1>a, <1>26 DEF ListPending, Placement
<1>27. ASSUME NEW s \in Servers,
              ClearPending(s)
       PROVE  Placement'
  BY <1>a, <1>27 DEF ClearPending, Placement
<1>28. ASSUME NEW s \in Servers,
              PurgeCanceled(s)
       PROVE  Placement'
  BY <1>a, <1>28 DEF PurgeCanceled, Placement
<1>29. ASSUME NEW s \in Servers,
              QueueDrainCleanup(s)
       PROVE  Placement'
  BY <1>a, <1>29 DEF QueueDrainCleanup, Placement
<1>30. ASSUME NEW s \in Servers,
              DrainError(s)
       PROVE  Placement'
  BY <1>a, <1>30 DEF DrainError, Placement
<1>31. ASSUME NEW s \in Servers,
              UndrainGameServer(s)
       PROVE  Placement'
  BY <1>a, <1>31 DEF UndrainGameServer, Placement
<1>32. ASSUME NEW s \in Servers,
              ClearServerDrain(s)
       PROVE  Placement'
  BY <1>a, <1>32 DEF ClearServerDrain, Placement
<1> QED
  BY <1>1, <1>2, <1>3, <1>4, <1>5, <1>6, <1>7, <1>8, <1>9, <1>10, <1>11, <1>12,
     <1>13, <1>14, <1>15, <1>16, <1>17, <1>18, <1>19, <1>20, <1>21, <1>22, <1>23,
     <1>24, <1>25, <1>26, <1>27, <1>28, <1>29, <1>30, <1>31, <1>32
  DEF Next, TaskStep, BridgeStep, DrainStep

\* No step acknowledges what its server's gate does not admit.
LEMMA StepAdmission == IndInv /\ [Next]_vars => Admission'
<1> SUFFICES ASSUME IndInv, [Next]_vars PROVE Admission'
  OBVIOUS
<1> USE FlowAssumption DEF TypeOK, Step, AdminStep, taskVars, bucketVars,
        serverVars, drainVars, jobVars, Current, Target, Attempts, WaitLabels,
        CleanupLabels
<1>a. TypeOK /\ Admission
  BY DEF IndInv
<1>1. CASE UNCHANGED vars
  BY <1>a, <1>1 DEF vars, Admission
<1>2. ASSUME NEW r \in Requests, Allocate(r) PROVE Admission'
  <2>1. Target(r) = NoServer /\ Current(r) \notin acks
    BY <1>a, <1>2 DEF Allocate, IndInv, Placement, Admission
  <2>2. \A a \in acks : placed'[a] = placed[a]
    BY <1>a, <1>2, <2>1 DEF Allocate, Candidates
  <2> QED
    BY <1>a, <1>2, <2>2 DEF Allocate, Admission
<1>3. ASSUME NEW s \in Servers, RegisterAssignment(s) PROVE Admission'
  <2>1. PICK a \in seen[s] \ gate[s] :
          /\ gate' = [gate EXCEPT ![s] = @ \cup {a}]
          /\ outbox' = [outbox EXCEPT ![s] = Append(@, a)]
    BY <1>3 DEF RegisterAssignment
  <2>2. UNCHANGED <<seen, bridge, acks, placed>>
    BY <1>3 DEF RegisterAssignment
  <2>3. \A t \in Servers : gate[t] \subseteq gate'[t] /\ gate'[t] \subseteq seen'[t]
    BY <1>a, <2>1, <2>2 DEF Admission
  <2>4. a \in gate'[s] /\ outbox'[s] = Append(outbox[s], a)
    BY <1>a, <2>1
  <2>5. \A i \in 1..Len(outbox'[s]) : outbox'[s][i] \in gate'[s]
    <3>1. outbox[s] \in Seq(Attempts) /\ a \in Attempts
      BY <1>a, <2>1
    <3>2. \A i \in 1..Len(outbox[s]) : outbox[s][i] \in gate'[s]
      BY <1>a, <2>3 DEF Admission
    <3> QED
      BY <2>4, <3>1, <3>2
  <2>6. \A t \in Servers \ {s} : outbox'[t] = outbox[t]
    BY <1>a, <2>1
  <2>7. Len(outbox'[s]) > 0
    <3>1. outbox[s] \in Seq(Attempts) /\ a \in Attempts
      BY <1>a, <2>1
    <3> QED
      BY <2>4, <3>1
  <2> QED
    BY <1>a, <2>2, <2>3, <2>5, <2>6, <2>7 DEF Admission
<1>4. ASSUME NEW s \in Servers, PublishPrepared(s) PROVE Admission'
  <2>1. Head(outbox[s]) \in gate[s]
    BY <1>a, <1>4 DEF PublishPrepared, Admission
  <2>2. placed[Head(outbox[s])] = s
    BY <1>a, <2>1 DEF IndInv, Placement, Admission
  <2> QED
    BY <1>a, <1>4, <2>1, <2>2 DEF PublishPrepared, Admission
<1>5. ASSUME NEW s \in Servers, ConsumeByClient(s) PROVE Admission'
  <2>1. outbox[s] \in Seq(Attempts) /\ Len(outbox[s]) > 0
    BY <1>a, <1>5 DEF ConsumeByClient, Admission
  <2>2. \A i \in 1..Len(Tail(outbox[s])) : Tail(outbox[s])[i] \in gate[s]
    BY <1>a, <2>1 DEF Admission
  <2>3. /\ outbox' = [outbox EXCEPT ![s] = Tail(outbox[s])]
        /\ bridge' = [bridge EXCEPT ![s] = "idle"]
        /\ UNCHANGED <<acks, seen, gate, placed>>
    BY <1>5 DEF ConsumeByClient
  <2> QED
    BY <1>a, <2>2, <2>3 DEF Admission
<1>6. ASSUME NEW s \in Servers, ReportLost(s) PROVE Admission'
  <2>1. outbox[s] \in Seq(Attempts) /\ outbox[s] # <<>>
    BY <1>a, <1>6 DEF ReportLost, Admission
  <2>2. \A i \in 1..Len(Tail(outbox[s])) : Tail(outbox[s])[i] \in gate[s]
    BY <1>a, <2>1 DEF Admission
  <2>3. /\ outbox' = [outbox EXCEPT ![s] = Tail(outbox[s])]
        /\ bridge' = [bridge EXCEPT ![s] = "idle"]
        /\ UNCHANGED <<acks, seen, gate, placed>>
    BY <1>6 DEF ReportLost
  <2> QED
    BY <1>a, <2>2, <2>3 DEF Admission
<1>7. ASSUME NEW r \in Requests,
              RequestPlay(r)
       PROVE  Admission'
  BY <1>a, <1>7 DEF RequestPlay, Admission
<1>8. ASSUME NEW r \in Requests,
              NoCapacity(r)
       PROVE  Admission'
  BY <1>a, <1>8 DEF NoCapacity, Admission
<1>9. ASSUME NEW r \in Requests,
              PutByServer(r)
       PROVE  Admission'
  BY <1>a, <1>9 DEF PutByServer, Admission
<1>10. ASSUME NEW r \in Requests,
              PutByClient(r)
       PROVE  Admission'
  BY <1>a, <1>10 DEF PutByClient, Admission
<1>11. ASSUME NEW r \in Requests,
              CheckDrain(r)
       PROVE  Admission'
  BY <1>a, <1>11 DEF CheckDrain, Admission
<1>12. ASSUME NEW r \in Requests,
              ReadAck(r)
       PROVE  Admission'
  BY <1>a, <1>12 DEF ReadAck, Admission
<1>13. ASSUME NEW r \in Requests,
              PrepareTimeout(r)
       PROVE  Admission'
  BY <1>a, <1>13 DEF PrepareTimeout, Admission
<1>14. ASSUME NEW r \in Requests,
              IssueGrant(r)
       PROVE  Admission'
  BY <1>a, <1>14 DEF IssueGrant, Admission
<1>15. ASSUME NEW r \in Requests,
              DeleteForClient(r)
       PROVE  Admission'
  BY <1>a, <1>15 DEF DeleteForClient, Admission
<1>16. ASSUME NEW r \in Requests,
              DeleteClientAck(r)
       PROVE  Admission'
  BY <1>a, <1>16 DEF DeleteClientAck, Admission
<1>17. ASSUME NEW r \in Requests,
              DeleteIndex(r)
       PROVE  Admission'
  BY <1>a, <1>17 DEF DeleteIndex, Admission
<1>18. ASSUME NEW r \in Requests,
              DeleteAck(r)
       PROVE  Admission'
  BY <1>a, <1>18 DEF DeleteAck, Admission
<1>19. ASSUME NEW r \in Requests,
              EnqueueDelete(r)
       PROVE  Admission'
  BY <1>a, <1>19 DEF EnqueueDelete, Admission
<1>20. ASSUME NEW r \in Requests,
              EnqueueRelease(r)
       PROVE  Admission'
  BY <1>a, <1>20 DEF EnqueueRelease, AfterCleanup, Admission
<1>21. ASSUME NEW r \in Requests,
              TaskError(r)
       PROVE  Admission'
  BY <1>a, <1>21 DEF TaskError, AfterCleanup, Admission
<1>22. ASSUME NEW s \in Servers,
              PollAssignments(s)
       PROVE  Admission'
  BY <1>a, <1>22 DEF PollAssignments, Admission
<1>23. ASSUME NEW s \in Servers,
              ConsumeByServer(s)
       PROVE  Admission'
  BY <1>a, <1>23 DEF ConsumeByServer, Admission
<1>24. ASSUME NEW s \in Servers,
              DrainGameServer(s)
       PROVE  Admission'
  BY <1>a, <1>24 DEF DrainGameServer, Admission
<1>25. ASSUME NEW s \in Servers,
              PublishServerDrain(s)
       PROVE  Admission'
  BY <1>a, <1>25 DEF PublishServerDrain, Admission
<1>26. ASSUME NEW s \in Servers,
              ListPending(s)
       PROVE  Admission'
  BY <1>a, <1>26 DEF ListPending, Admission
<1>27. ASSUME NEW s \in Servers,
              ClearPending(s)
       PROVE  Admission'
  BY <1>a, <1>27 DEF ClearPending, Admission
<1>28. ASSUME NEW s \in Servers,
              PurgeCanceled(s)
       PROVE  Admission'
  BY <1>a, <1>28 DEF PurgeCanceled, Admission
<1>29. ASSUME NEW s \in Servers,
              QueueDrainCleanup(s)
       PROVE  Admission'
  BY <1>a, <1>29 DEF QueueDrainCleanup, Admission
<1>30. ASSUME NEW s \in Servers,
              DrainError(s)
       PROVE  Admission'
  BY <1>a, <1>30 DEF DrainError, Admission
<1>31. ASSUME NEW s \in Servers,
              UndrainGameServer(s)
       PROVE  Admission'
  BY <1>a, <1>31 DEF UndrainGameServer, Admission
<1>32. ASSUME NEW s \in Servers,
              ClearServerDrain(s)
       PROVE  Admission'
  BY <1>a, <1>32 DEF ClearServerDrain, Admission
<1> QED
  BY <1>1, <1>2, <1>3, <1>4, <1>5, <1>6, <1>7, <1>8, <1>9, <1>10, <1>11, <1>12,
     <1>13, <1>14, <1>15, <1>16, <1>17, <1>18, <1>19, <1>20, <1>21, <1>22, <1>23,
     <1>24, <1>25, <1>26, <1>27, <1>28, <1>29, <1>30, <1>31, <1>32
  DEF Next, TaskStep, BridgeStep, DrainStep

\* Only a counted drain call lists and clears assignments.
LEMMA StepDrainsAreCounted == IndInv /\ [Next]_vars => DrainsAreCounted'
<1> SUFFICES ASSUME IndInv, [Next]_vars PROVE DrainsAreCounted'
  OBVIOUS
<1> USE FlowAssumption DEF TypeOK, Step, AdminStep, taskVars, bucketVars,
        serverVars, drainVars, jobVars, Current, Target, Attempts, WaitLabels,
        CleanupLabels
<1>a. TypeOK /\ DrainsAreCounted
  BY DEF IndInv
<1>1. CASE UNCHANGED vars
  BY <1>a, <1>1 DEF vars, DrainsAreCounted
<1>2. ASSUME NEW r \in Requests,
              RequestPlay(r) \/ Allocate(r) \/ NoCapacity(r) \/ PutByServer(r)
       PROVE  DrainsAreCounted'
  BY <1>a, <1>2 DEF RequestPlay, Allocate, NoCapacity, PutByServer, Candidates,
     DrainsAreCounted
<1>3. ASSUME NEW r \in Requests,
              PutByClient(r) \/ CheckDrain(r) \/ ReadAck(r) \/ PrepareTimeout(r)
       PROVE  DrainsAreCounted'
  BY <1>a, <1>3 DEF PutByClient, CheckDrain, ReadAck, PrepareTimeout,
     DrainsAreCounted
<1>4. ASSUME NEW r \in Requests,
              IssueGrant(r) \/ DeleteForClient(r) \/ DeleteClientAck(r) \/
              DeleteIndex(r)
       PROVE  DrainsAreCounted'
  BY <1>a, <1>4 DEF IssueGrant, DeleteForClient, DeleteClientAck, DeleteIndex,
     DrainsAreCounted
<1>5. ASSUME NEW r \in Requests,
              DeleteAck(r) \/ EnqueueDelete(r) \/ EnqueueRelease(r) \/ TaskError(r)
       PROVE  DrainsAreCounted'
  BY <1>a, <1>5 DEF DeleteAck, EnqueueDelete, EnqueueRelease, TaskError,
     AfterCleanup, DrainsAreCounted
<1>6. ASSUME NEW s \in Servers,
              PollAssignments(s) \/ RegisterAssignment(s) \/ PublishPrepared(s) \/
              ConsumeByServer(s) \/ ConsumeByClient(s)
       PROVE  DrainsAreCounted'
  BY <1>a, <1>6 DEF PollAssignments, RegisterAssignment, PublishPrepared,
     ConsumeByServer, ConsumeByClient, DrainsAreCounted
<1>7. ASSUME NEW s \in Servers,
              ReportLost(s) \/ DrainGameServer(s) \/ PublishServerDrain(s) \/
              ListPending(s) \/ ClearPending(s)
       PROVE  DrainsAreCounted'
  BY <1>a, <1>7, SMTT(30) DEF ReportLost, DrainGameServer, PublishServerDrain, ListPending,
     ClearPending, DrainsAreCounted
<1>8. ASSUME NEW s \in Servers,
              PurgeCanceled(s) \/ QueueDrainCleanup(s) \/ DrainError(s) \/
              UndrainGameServer(s) \/ ClearServerDrain(s)
       PROVE  DrainsAreCounted'
  BY <1>a, <1>8 DEF PurgeCanceled, QueueDrainCleanup, DrainError, UndrainGameServer,
     ClearServerDrain, DrainsAreCounted
<1> QED
  BY <1>1, <1>2, <1>3, <1>4, <1>5, <1>6, <1>7, <1>8
  DEF Next, TaskStep, BridgeStep, DrainStep

\* Every attempt given up on adds its server to the avoided ones.
LEMMA StepTriedAreAvoided == IndInv /\ [Next]_vars => TriedAreAvoided'
<1> SUFFICES ASSUME IndInv, [Next]_vars PROVE TriedAreAvoided'
  OBVIOUS
<1> USE FlowAssumption DEF TypeOK, Step, AdminStep, taskVars, bucketVars,
        serverVars, drainVars, jobVars, Current, Target, Attempts, WaitLabels,
        CleanupLabels
<1>a. TypeOK /\ TriedAreAvoided
  BY DEF IndInv
<1>b. ASSUME NEW r \in Requests, pc[r] = "enqueue_release", AfterCleanup(r), placed' = placed
      PROVE  TriedAreAvoided'
  <2>1. CASE attempt[r] < MaxRetries
    <3>1. /\ attempt' = [attempt EXCEPT ![r] = attempt[r] + 1]
          /\ avoid' = [avoid EXCEPT ![r] = avoid[r] \cup {Target(r)}]
      BY <1>b, <2>1 DEF AfterCleanup
    <3>2. ASSUME NEW q \in Requests, NEW i \in 0..MaxRetries,
                 i < attempt'[q], placed'[<<q, i>>] # NoServer
          PROVE  placed'[<<q, i>>] \in avoid'[q]
      <4>1. CASE q # r
        BY <1>a, <1>b, <3>1, <3>2, <4>1 DEF TriedAreAvoided
      <4>2. CASE q = r /\ i < attempt[r]
        BY <1>a, <1>b, <3>1, <3>2, <4>2 DEF TriedAreAvoided
      <4>3. CASE q = r /\ i = attempt[r]
        BY <1>a, <1>b, <3>1, <4>3
      <4> QED
        BY <1>a, <3>1, <3>2, <4>1, <4>2, <4>3
    <3> QED
      BY <3>2 DEF TriedAreAvoided
  <2>2. CASE ~(attempt[r] < MaxRetries)
    BY <1>a, <1>b, <2>2 DEF AfterCleanup, TriedAreAvoided
  <2> QED
    BY <2>1, <2>2
<1>1. CASE UNCHANGED vars
  BY <1>a, <1>1 DEF vars, TriedAreAvoided
<1>2. ASSUME NEW r \in Requests, RequestPlay(r) PROVE TriedAreAvoided'
  <2>1. attempt[r] = 0
    BY <1>a, <1>2 DEF RequestPlay, IndInv, Placement
  <2> QED
    BY <1>a, <1>2, <2>1 DEF RequestPlay, TriedAreAvoided
<1>3. ASSUME NEW r \in Requests, EnqueueRelease(r) PROVE TriedAreAvoided'
  BY <1>b, <1>3 DEF EnqueueRelease
<1>4. ASSUME NEW r \in Requests, TaskError(r) PROVE TriedAreAvoided'
  <2>1. CASE pc[r] = "enqueue_release"
    BY <1>b, <1>4, <2>1 DEF TaskError
  <2>2. CASE pc[r] # "enqueue_release"
    BY <1>a, <1>4, <2>2 DEF TaskError, TriedAreAvoided
  <2> QED
    BY <2>1, <2>2
<1>5. ASSUME NEW r \in Requests,
              Allocate(r) \/ NoCapacity(r)
       PROVE  TriedAreAvoided'
  BY <1>a, <1>5, SMTT(60) DEF Allocate, NoCapacity, Candidates, TriedAreAvoided
<1>6. ASSUME NEW r \in Requests,
              PutByServer(r) \/ PutByClient(r)
       PROVE  TriedAreAvoided'
  BY <1>a, <1>6 DEF PutByServer, PutByClient, TriedAreAvoided
<1>7. ASSUME NEW r \in Requests,
              CheckDrain(r) \/ ReadAck(r)
       PROVE  TriedAreAvoided'
  BY <1>a, <1>7 DEF CheckDrain, ReadAck, TriedAreAvoided
<1>8. ASSUME NEW r \in Requests,
              PrepareTimeout(r) \/ IssueGrant(r)
       PROVE  TriedAreAvoided'
  BY <1>a, <1>8 DEF PrepareTimeout, IssueGrant, TriedAreAvoided
<1>9. ASSUME NEW r \in Requests,
              DeleteForClient(r) \/ DeleteClientAck(r)
       PROVE  TriedAreAvoided'
  BY <1>a, <1>9 DEF DeleteForClient, DeleteClientAck, TriedAreAvoided
<1>10. ASSUME NEW r \in Requests,
              DeleteIndex(r) \/ DeleteAck(r)
       PROVE  TriedAreAvoided'
  BY <1>a, <1>10 DEF DeleteIndex, DeleteAck, TriedAreAvoided
<1>11. ASSUME NEW r \in Requests,
              EnqueueDelete(r)
       PROVE  TriedAreAvoided'
  BY <1>a, <1>11 DEF EnqueueDelete, TriedAreAvoided
<1>12. ASSUME NEW s \in Servers,
              PollAssignments(s) \/ RegisterAssignment(s) \/ PublishPrepared(s) \/
              ConsumeByServer(s)
       PROVE  TriedAreAvoided'
  BY <1>a, <1>12 DEF PollAssignments, RegisterAssignment, PublishPrepared,
     ConsumeByServer, TriedAreAvoided
<1>13. ASSUME NEW s \in Servers,
              ConsumeByClient(s) \/ ReportLost(s) \/ DrainGameServer(s) \/
              PublishServerDrain(s)
       PROVE  TriedAreAvoided'
  BY <1>a, <1>13 DEF ConsumeByClient, ReportLost, DrainGameServer,
     PublishServerDrain, TriedAreAvoided
<1>14. ASSUME NEW s \in Servers,
              ListPending(s) \/ ClearPending(s) \/ PurgeCanceled(s) \/
              QueueDrainCleanup(s)
       PROVE  TriedAreAvoided'
  BY <1>a, <1>14 DEF ListPending, ClearPending, PurgeCanceled, QueueDrainCleanup,
     TriedAreAvoided
<1>15. ASSUME NEW s \in Servers,
              DrainError(s) \/ UndrainGameServer(s) \/ ClearServerDrain(s)
       PROVE  TriedAreAvoided'
  BY <1>a, <1>15 DEF DrainError, UndrainGameServer, ClearServerDrain,
     TriedAreAvoided
<1> QED
  BY <1>1, <1>2, <1>3, <1>4, <1>5, <1>6, <1>7, <1>8, <1>9, <1>10, <1>11, <1>12,
     <1>13, <1>14, <1>15
  DEF Next, TaskStep, BridgeStep, DrainStep

\* Only giving an attempt up, or draining its server, queues its release.
LEMMA StepReleasesHaveCauses == IndInv /\ [Next]_vars => ReleasesHaveCauses'
<1> SUFFICES ASSUME IndInv, [Next]_vars PROVE ReleasesHaveCauses'
  OBVIOUS
<1> USE FlowAssumption DEF TypeOK, Step, AdminStep, taskVars, bucketVars,
        serverVars, drainVars, jobVars, Current, Target, Attempts, WaitLabels,
        CleanupLabels
<1>a. TypeOK /\ ReleasesHaveCauses
  BY DEF IndInv
<1>1. CASE UNCHANGED vars
  BY <1>a, <1>1 DEF vars, ReleasesHaveCauses
<1>2. ASSUME NEW r \in Requests, Allocate(r) PROVE ReleasesHaveCauses'
  <2>1. Target(r) = NoServer
    BY <1>2 DEF Allocate, IndInv, Placement
  <2>2. releaseJobs[Current(r)] = 0
    BY <1>a, <2>1, FlowAssumption DEF ReleasesHaveCauses
  <2>3. \A a \in Attempts : releaseJobs[a] > 0 => placed'[a] = placed[a]
    <3>1. \A a \in Attempts \ {Current(r)} : placed'[a] = placed[a]
      BY <1>a, <1>2 DEF Allocate
    <3> QED
      BY <2>2, <3>1
  <2>4. /\ pc[r] = "allocate"
        /\ pc' = [pc EXCEPT ![r] = "put_by_server"]
        /\ UNCHANGED <<attempt, drainCalls, releaseJobs>>
    BY <1>2 DEF Allocate
  <2> QED
    BY <1>a, <2>3, <2>4 DEF ReleasesHaveCauses
<1>3. ASSUME NEW r \in Requests, EnqueueRelease(r) PROVE ReleasesHaveCauses'
  <2>1. Target(r) \in Servers
    BY <1>3 DEF EnqueueRelease, IndInv, Placement
  <2>2. /\ releaseJobs' = [releaseJobs EXCEPT ![Current(r)] = @ + 1]
        /\ pc[r] = "enqueue_release"
        /\ UNCHANGED <<placed, drainCalls>>
    BY <1>3 DEF EnqueueRelease
  <2>3. CASE attempt[r] < MaxRetries
    <3>1. /\ attempt' = [attempt EXCEPT ![r] = attempt[r] + 1]
          /\ pc' = [pc EXCEPT ![r] = "allocate"]
      BY <1>3, <2>3 DEF EnqueueRelease, AfterCleanup
    <3>2. ASSUME NEW q \in Requests, NEW i \in 0..MaxRetries, releaseJobs'[<<q, i>>] > 0
          PROVE  /\ placed[<<q, i>>] \in Servers
                 /\ \/ drainCalls[placed[<<q, i>>]] > 0
                    \/ i < attempt'[q]
                    \/ i = attempt'[q] /\ pc'[q] = "failed"
      <4>1. CASE <<q, i>> # Current(r)
        BY <1>a, <2>2, <3>1, <3>2, <4>1 DEF ReleasesHaveCauses
      <4>2. CASE <<q, i>> = Current(r)
        BY <1>a, <2>1, <3>1, <4>2
      <4> QED
        BY <4>1, <4>2
    <3> QED
      BY <2>2, <3>2 DEF ReleasesHaveCauses
  <2>4. CASE ~(attempt[r] < MaxRetries)
    <3>1. attempt' = attempt /\ pc' = [pc EXCEPT ![r] = "failed"]
      BY <1>3, <2>4 DEF EnqueueRelease, AfterCleanup
    <3> QED
      BY <1>a, <2>1, <2>2, <3>1 DEF ReleasesHaveCauses
  <2> QED
    BY <2>3, <2>4
<1>4. ASSUME NEW r \in Requests, TaskError(r) PROVE ReleasesHaveCauses'
  <2>1. UNCHANGED <<placed, drainCalls, releaseJobs>> /\ pc[r] # "failed"
    BY <1>4 DEF TaskError
  <2>2. CASE attempt' = attempt
    BY <1>a, <1>4, <2>1, <2>2 DEF TaskError, AfterCleanup, ReleasesHaveCauses
  <2>3. CASE attempt' # attempt
    <3>1. attempt' = [attempt EXCEPT ![r] = attempt[r] + 1] /\ pc' = [pc EXCEPT ![r] = "allocate"]
      BY <1>4, <2>3 DEF TaskError, AfterCleanup
    <3> QED
      BY <1>a, <2>1, <3>1 DEF ReleasesHaveCauses
  <2> QED
    BY <2>2, <2>3
<1>5. ASSUME NEW s \in Servers, DrainGameServer(s) PROVE ReleasesHaveCauses'
  <2>1. /\ \A t \in Servers : drainCalls[t] > 0 => drainCalls'[t] > 0
        /\ UNCHANGED <<pc, attempt, placed, releaseJobs>>
    BY <1>a, <1>5 DEF DrainGameServer
  <2> QED
    BY <1>a, <2>1 DEF ReleasesHaveCauses
<1>6. ASSUME NEW s \in Servers, QueueDrainCleanup(s) PROVE ReleasesHaveCauses'
  <2>1. /\ \A a \in Attempts : releaseJobs'[a] > 0 => releaseJobs[a] > 0 \/ a \in canceled[s]
        /\ UNCHANGED <<pc, attempt, placed, drainCalls>>
    BY <1>a, <1>6 DEF QueueDrainCleanup
  <2>2. \A a \in canceled[s] : placed[a] = s /\ drainCalls[s] > 0
    BY DEF IndInv, Placement, DrainsAreCounted
  <2> QED
    BY <1>a, <2>1, <2>2 DEF ReleasesHaveCauses
<1>7. ASSUME NEW r \in Requests,
              RequestPlay(r) \/ NoCapacity(r) \/ PutByServer(r) \/ PutByClient(r)
       PROVE  ReleasesHaveCauses'
  BY <1>a, <1>7, SMTT(30) DEF RequestPlay, NoCapacity, PutByServer, PutByClient,
     ReleasesHaveCauses
<1>8. ASSUME NEW r \in Requests,
              CheckDrain(r) \/ ReadAck(r) \/ PrepareTimeout(r) \/ IssueGrant(r)
       PROVE  ReleasesHaveCauses'
  BY <1>a, <1>8, SMTT(30) DEF CheckDrain, ReadAck, PrepareTimeout, IssueGrant,
     ReleasesHaveCauses
<1>9. ASSUME NEW r \in Requests,
              DeleteForClient(r) \/ DeleteClientAck(r) \/ DeleteIndex(r) \/
              DeleteAck(r)
       PROVE  ReleasesHaveCauses'
  <2>1. /\ UNCHANGED <<attempt, placed, drainCalls, releaseJobs>>
        /\ \A q \in Requests : pc[q] = "failed" => pc'[q] = "failed"
    BY <1>a, <1>9 DEF DeleteForClient, DeleteClientAck, DeleteIndex, DeleteAck
  <2> QED
    BY <1>a, <2>1 DEF ReleasesHaveCauses
<1>10. ASSUME NEW r \in Requests,
              EnqueueDelete(r)
       PROVE  ReleasesHaveCauses'
  BY <1>a, <1>10 DEF EnqueueDelete, ReleasesHaveCauses
<1>11. ASSUME NEW s \in Servers,
              PollAssignments(s) \/ RegisterAssignment(s)
       PROVE  ReleasesHaveCauses'
  BY <1>a, <1>11 DEF PollAssignments, RegisterAssignment, ReleasesHaveCauses
<1>12. ASSUME NEW s \in Servers,
              PublishPrepared(s) \/ ConsumeByServer(s)
       PROVE  ReleasesHaveCauses'
  BY <1>a, <1>12 DEF PublishPrepared, ConsumeByServer, ReleasesHaveCauses
<1>13. ASSUME NEW s \in Servers,
              ConsumeByClient(s) \/ ReportLost(s)
       PROVE  ReleasesHaveCauses'
  BY <1>a, <1>13 DEF ConsumeByClient, ReportLost, ReleasesHaveCauses
<1>14. ASSUME NEW s \in Servers,
              PublishServerDrain(s) \/ ListPending(s)
       PROVE  ReleasesHaveCauses'
  BY <1>a, <1>14 DEF PublishServerDrain, ListPending, ReleasesHaveCauses
<1>15. ASSUME NEW s \in Servers,
              ClearPending(s) \/ PurgeCanceled(s)
       PROVE  ReleasesHaveCauses'
  BY <1>a, <1>15 DEF ClearPending, PurgeCanceled, ReleasesHaveCauses
<1>16. ASSUME NEW s \in Servers,
              DrainError(s) \/ UndrainGameServer(s)
       PROVE  ReleasesHaveCauses'
  BY <1>a, <1>16 DEF DrainError, UndrainGameServer, ReleasesHaveCauses
<1>17. ASSUME NEW s \in Servers,
              ClearServerDrain(s)
       PROVE  ReleasesHaveCauses'
  BY <1>a, <1>17 DEF ClearServerDrain, ReleasesHaveCauses
<1> QED
  BY <1>1, <1>2, <1>3, <1>4, <1>5, <1>6, <1>7, <1>8, <1>9, <1>10, <1>11, <1>12,
     <1>13, <1>14, <1>15, <1>16, <1>17
  DEF Next, TaskStep, BridgeStep, DrainStep

\* A grant follows an acknowledgement, and gates only grow.
LEMMA StepGrantsAreAdmitted == IndInv /\ [Next]_vars => GrantsAreAdmitted'
<1> SUFFICES ASSUME IndInv, [Next]_vars PROVE GrantsAreAdmitted'
  OBVIOUS
<1> USE FlowAssumption DEF TypeOK, Step, AdminStep, taskVars, bucketVars,
        serverVars, drainVars, jobVars, Current, Target, Attempts, WaitLabels,
        CleanupLabels
<1>a. TypeOK /\ GrantsAreAdmitted
  BY DEF IndInv
<1>1. CASE UNCHANGED vars
  BY <1>a, <1>1 DEF vars, GrantsAreAdmitted
<1>2. ASSUME NEW r \in Requests, ReadAck(r) PROVE GrantsAreAdmitted'
  BY <1>a, <1>2 DEF ReadAck, IndInv, Admission, GrantsAreAdmitted
<1>3. ASSUME NEW r \in Requests,
              RequestPlay(r)
       PROVE  GrantsAreAdmitted'
  BY <1>a, <1>3 DEF RequestPlay, GrantsAreAdmitted
<1>4. ASSUME NEW r \in Requests,
              Allocate(r)
       PROVE  GrantsAreAdmitted'
  BY <1>a, <1>4 DEF Allocate, Candidates, GrantsAreAdmitted
<1>5. ASSUME NEW r \in Requests,
              NoCapacity(r)
       PROVE  GrantsAreAdmitted'
  BY <1>a, <1>5 DEF NoCapacity, GrantsAreAdmitted
<1>6. ASSUME NEW r \in Requests,
              PutByServer(r)
       PROVE  GrantsAreAdmitted'
  BY <1>a, <1>6 DEF PutByServer, GrantsAreAdmitted
<1>7. ASSUME NEW r \in Requests,
              PutByClient(r)
       PROVE  GrantsAreAdmitted'
  BY <1>a, <1>7 DEF PutByClient, GrantsAreAdmitted
<1>8. ASSUME NEW r \in Requests,
              CheckDrain(r)
       PROVE  GrantsAreAdmitted'
  BY <1>a, <1>8, ZenonT(60) DEF CheckDrain, GrantsAreAdmitted
<1>9. ASSUME NEW r \in Requests,
              PrepareTimeout(r)
       PROVE  GrantsAreAdmitted'
  BY <1>a, <1>9 DEF PrepareTimeout, GrantsAreAdmitted
<1>10. ASSUME NEW r \in Requests,
              IssueGrant(r)
       PROVE  GrantsAreAdmitted'
  BY <1>a, <1>10 DEF IssueGrant, GrantsAreAdmitted
<1>11. ASSUME NEW r \in Requests,
              DeleteForClient(r)
       PROVE  GrantsAreAdmitted'
  BY <1>a, <1>11, ZenonT(60) DEF DeleteForClient, GrantsAreAdmitted
<1>12. ASSUME NEW r \in Requests,
              DeleteClientAck(r)
       PROVE  GrantsAreAdmitted'
  BY <1>a, <1>12 DEF DeleteClientAck, GrantsAreAdmitted
<1>13. ASSUME NEW r \in Requests,
              DeleteIndex(r)
       PROVE  GrantsAreAdmitted'
  BY <1>a, <1>13 DEF DeleteIndex, GrantsAreAdmitted
<1>14. ASSUME NEW r \in Requests,
              DeleteAck(r)
       PROVE  GrantsAreAdmitted'
  BY <1>a, <1>14 DEF DeleteAck, GrantsAreAdmitted
<1>15. ASSUME NEW r \in Requests,
              EnqueueDelete(r)
       PROVE  GrantsAreAdmitted'
  BY <1>a, <1>15 DEF EnqueueDelete, GrantsAreAdmitted
<1>16. ASSUME NEW r \in Requests,
              EnqueueRelease(r)
       PROVE  GrantsAreAdmitted'
  BY <1>a, <1>16 DEF EnqueueRelease, AfterCleanup, GrantsAreAdmitted
<1>17. ASSUME NEW r \in Requests,
              TaskError(r)
       PROVE  GrantsAreAdmitted'
  BY <1>a, <1>17, ZenonT(60) DEF TaskError, AfterCleanup, GrantsAreAdmitted
<1>18. ASSUME NEW s \in Servers,
              PollAssignments(s)
       PROVE  GrantsAreAdmitted'
  BY <1>a, <1>18 DEF PollAssignments, GrantsAreAdmitted
<1>19. ASSUME NEW s \in Servers,
              RegisterAssignment(s)
       PROVE  GrantsAreAdmitted'
  BY <1>a, <1>19 DEF RegisterAssignment, GrantsAreAdmitted
<1>20. ASSUME NEW s \in Servers,
              PublishPrepared(s)
       PROVE  GrantsAreAdmitted'
  BY <1>a, <1>20 DEF PublishPrepared, GrantsAreAdmitted
<1>21. ASSUME NEW s \in Servers,
              ConsumeByServer(s)
       PROVE  GrantsAreAdmitted'
  BY <1>a, <1>21 DEF ConsumeByServer, GrantsAreAdmitted
<1>22. ASSUME NEW s \in Servers,
              ConsumeByClient(s)
       PROVE  GrantsAreAdmitted'
  BY <1>a, <1>22 DEF ConsumeByClient, GrantsAreAdmitted
<1>23. ASSUME NEW s \in Servers,
              ReportLost(s)
       PROVE  GrantsAreAdmitted'
  BY <1>a, <1>23 DEF ReportLost, GrantsAreAdmitted
<1>24. ASSUME NEW s \in Servers,
              DrainGameServer(s)
       PROVE  GrantsAreAdmitted'
  BY <1>a, <1>24 DEF DrainGameServer, GrantsAreAdmitted
<1>25. ASSUME NEW s \in Servers,
              PublishServerDrain(s)
       PROVE  GrantsAreAdmitted'
  BY <1>a, <1>25 DEF PublishServerDrain, GrantsAreAdmitted
<1>26. ASSUME NEW s \in Servers,
              ListPending(s)
       PROVE  GrantsAreAdmitted'
  BY <1>a, <1>26 DEF ListPending, GrantsAreAdmitted
<1>27. ASSUME NEW s \in Servers,
              ClearPending(s)
       PROVE  GrantsAreAdmitted'
  BY <1>a, <1>27 DEF ClearPending, GrantsAreAdmitted
<1>28. ASSUME NEW s \in Servers,
              PurgeCanceled(s)
       PROVE  GrantsAreAdmitted'
  BY <1>a, <1>28 DEF PurgeCanceled, GrantsAreAdmitted
<1>29. ASSUME NEW s \in Servers,
              QueueDrainCleanup(s)
       PROVE  GrantsAreAdmitted'
  BY <1>a, <1>29 DEF QueueDrainCleanup, GrantsAreAdmitted
<1>30. ASSUME NEW s \in Servers,
              DrainError(s)
       PROVE  GrantsAreAdmitted'
  BY <1>a, <1>30 DEF DrainError, GrantsAreAdmitted
<1>31. ASSUME NEW s \in Servers,
              UndrainGameServer(s)
       PROVE  GrantsAreAdmitted'
  BY <1>a, <1>31 DEF UndrainGameServer, GrantsAreAdmitted
<1>32. ASSUME NEW s \in Servers,
              ClearServerDrain(s)
       PROVE  GrantsAreAdmitted'
  BY <1>a, <1>32 DEF ClearServerDrain, GrantsAreAdmitted
<1> QED
  BY <1>1, <1>2, <1>3, <1>4, <1>5, <1>6, <1>7, <1>8, <1>9, <1>10, <1>11, <1>12,
     <1>13, <1>14, <1>15, <1>16, <1>17, <1>18, <1>19, <1>20, <1>21, <1>22, <1>23,
     <1>24, <1>25, <1>26, <1>27, <1>28, <1>29, <1>30, <1>31, <1>32
  DEF Next, TaskStep, BridgeStep, DrainStep

\* What leaves a server's record was seen by its bridge, cleaned up or drained.
LEMMA StepWaitingIsNotLost == IndInv /\ [Next]_vars => WaitingIsNotLost'
<1> SUFFICES ASSUME IndInv, [Next]_vars PROVE WaitingIsNotLost'
  OBVIOUS
<1> USE FlowAssumption DEF TypeOK, Step, AdminStep, taskVars, bucketVars,
        serverVars, drainVars, jobVars, Current, Target, Attempts, WaitLabels,
        CleanupLabels
<1>a. TypeOK /\ WaitingIsNotLost
  BY DEF IndInv
<1>1. CASE UNCHANGED vars
  BY <1>a, <1>1 DEF vars, WaitingIsNotLost
<1>2. ASSUME NEW r \in Requests, PutByServer(r) PROVE WaitingIsNotLost'
  <2>1. Target(r) \in Servers
    BY <1>2 DEF PutByServer, IndInv, Placement
  <2>2. /\ byServer' = [byServer EXCEPT ![Target(r)] = @ \cup {Current(r)}]
        /\ pc' = [pc EXCEPT ![r] = "put_by_client"]
        /\ UNCHANGED <<attempt, placed, seen, drainCalls>>
    BY <1>2 DEF PutByServer
  <2>3. Current(r) \in byServer'[Target(r)] /\ (\A s \in Servers : byServer[s] \subseteq byServer'[s])
    BY <1>a, <2>1, <2>2
  <2>4. ASSUME NEW q \in Requests \ {r}, pc'[q] \in {"put_by_client"} \cup WaitLabels
        PROVE  \/ Current(q) \in byServer'[Target(q)] \cup seen[Target(q)]
               \/ drainCalls[Target(q)] > 0
    <3>1. pc[q] \in {"put_by_client"} \cup WaitLabels
      BY <1>a, <2>2, <2>4
    <3>2. Target(q) \in Servers
      BY <3>1 DEF IndInv, Placement
    <3> QED
      BY <1>a, <2>3, <3>1, <3>2 DEF WaitingIsNotLost
  <2> QED
    BY <1>a, <2>1, <2>2, <2>3, <2>4 DEF WaitingIsNotLost
<1>3. ASSUME NEW r \in Requests, DeleteForClient(r) PROVE WaitingIsNotLost'
  <2>1. \A s \in Servers : byServer[s] \ {Current(r)} \subseteq byServer'[s]
    <3>1. CASE Current(r) \in byClient
      <4>1. byServer' = [byServer EXCEPT ![Target(r)] = @ \ {Current(r)}]
        BY <1>3, <3>1 DEF DeleteForClient
      <4> QED
        BY <1>a, <4>1
    <3>2. CASE Current(r) \notin byClient
      BY <1>a, <1>3, <3>2 DEF DeleteForClient
    <3> QED
      BY <3>1, <3>2
  <2>2. /\ \A q \in Requests \ {r} : pc'[q] = pc[q]
        /\ pc'[r] \in {"delete_client_ack", "delete_index"}
        /\ UNCHANGED <<attempt, placed, seen, drainCalls>>
    BY <1>a, <1>3 DEF DeleteForClient
  <2>3. \A q \in Requests \ {r} : Current(q) # Current(r)
    OBVIOUS
  <2> QED
    BY <1>a, <2>1, <2>2, <2>3 DEF WaitingIsNotLost, IndInv, Placement
<1>4. ASSUME NEW r \in Requests, EnqueueRelease(r) PROVE WaitingIsNotLost'
  <2>1. /\ \A q \in Requests \ {r} : pc'[q] = pc[q] /\ attempt'[q] = attempt[q]
        /\ pc'[r] \in {"allocate", "failed"}
        /\ UNCHANGED <<placed, byServer, seen, drainCalls>>
    BY <1>a, <1>4 DEF EnqueueRelease, AfterCleanup
  <2> QED
    BY <1>a, <2>1 DEF WaitingIsNotLost
<1>5. ASSUME NEW r \in Requests, TaskError(r) PROVE WaitingIsNotLost'
  <2>1. /\ \A q \in Requests \ {r} : pc'[q] = pc[q] /\ attempt'[q] = attempt[q]
        /\ pc'[r] \in {"allocate", "failed"} \cup CleanupLabels
        /\ UNCHANGED <<placed, byServer, seen, drainCalls>>
    BY <1>a, <1>5 DEF TaskError, AfterCleanup
  <2> QED
    BY <1>a, <2>1 DEF WaitingIsNotLost
<1>6. ASSUME NEW s \in Servers, ConsumeByServer(s) PROVE WaitingIsNotLost'
  <2>1. Head(outbox[s]) \in seen[s]
    <3>1. Len(outbox[s]) > 0
      BY <1>6 DEF ConsumeByServer, IndInv, Admission
    <3>2. outbox[s][1] \in gate[s] /\ gate[s] \subseteq seen[s]
      BY <1>a, <3>1 DEF IndInv, Admission
    <3> QED
      BY <1>a, <3>1, <3>2
  <2>2. /\ \A t \in Servers \ {s} : byServer'[t] = byServer[t]
        /\ byServer'[s] = byServer[s] \ {Head(outbox[s])}
        /\ UNCHANGED <<pc, attempt, placed, seen, drainCalls>>
    BY <1>a, <1>6 DEF ConsumeByServer
  <2> QED
    BY <1>a, <2>1, <2>2, ZenonT(60) DEF WaitingIsNotLost, IndInv, Placement
<1>7. ASSUME NEW s \in Servers, ClearPending(s) PROVE WaitingIsNotLost'
  <2>1. drainCalls[s] > 0
    BY <1>7 DEF ClearPending, IndInv, DrainsAreCounted
  <2>2. /\ \A t \in Servers \ {s} : byServer'[t] = byServer[t]
        /\ UNCHANGED <<pc, attempt, placed, seen, drainCalls>>
    BY <1>a, <1>7 DEF ClearPending
  <2> QED
    BY <1>a, <2>1, <2>2 DEF WaitingIsNotLost, IndInv, Placement
<1>8. ASSUME NEW r \in Requests,
              RequestPlay(r)
       PROVE  WaitingIsNotLost'
  BY <1>a, <1>8 DEF RequestPlay, WaitingIsNotLost
<1>9. ASSUME NEW r \in Requests,
              Allocate(r)
       PROVE  WaitingIsNotLost'
  BY <1>a, <1>9, ZenonT(60) DEF Allocate, Candidates, WaitingIsNotLost
<1>10. ASSUME NEW r \in Requests,
              NoCapacity(r)
       PROVE  WaitingIsNotLost'
  BY <1>a, <1>10 DEF NoCapacity, WaitingIsNotLost
<1>11. ASSUME NEW r \in Requests,
              PutByClient(r)
       PROVE  WaitingIsNotLost'
  BY <1>a, <1>11 DEF PutByClient, WaitingIsNotLost
<1>12. ASSUME NEW r \in Requests,
              CheckDrain(r)
       PROVE  WaitingIsNotLost'
  BY <1>a, <1>12 DEF CheckDrain, WaitingIsNotLost
<1>13. ASSUME NEW r \in Requests,
              ReadAck(r)
       PROVE  WaitingIsNotLost'
  BY <1>a, <1>13 DEF ReadAck, WaitingIsNotLost
<1>14. ASSUME NEW r \in Requests,
              PrepareTimeout(r)
       PROVE  WaitingIsNotLost'
  BY <1>a, <1>14 DEF PrepareTimeout, WaitingIsNotLost
<1>15. ASSUME NEW r \in Requests,
              IssueGrant(r)
       PROVE  WaitingIsNotLost'
  BY <1>a, <1>15 DEF IssueGrant, WaitingIsNotLost
<1>16. ASSUME NEW r \in Requests,
              DeleteClientAck(r)
       PROVE  WaitingIsNotLost'
  BY <1>a, <1>16 DEF DeleteClientAck, WaitingIsNotLost
<1>17. ASSUME NEW r \in Requests,
              DeleteIndex(r)
       PROVE  WaitingIsNotLost'
  BY <1>a, <1>17 DEF DeleteIndex, WaitingIsNotLost
<1>18. ASSUME NEW r \in Requests,
              DeleteAck(r)
       PROVE  WaitingIsNotLost'
  BY <1>a, <1>18 DEF DeleteAck, WaitingIsNotLost
<1>19. ASSUME NEW r \in Requests,
              EnqueueDelete(r)
       PROVE  WaitingIsNotLost'
  BY <1>a, <1>19 DEF EnqueueDelete, WaitingIsNotLost
<1>20. ASSUME NEW s \in Servers,
              PollAssignments(s)
       PROVE  WaitingIsNotLost'
  BY <1>a, <1>20 DEF PollAssignments, WaitingIsNotLost
<1>21. ASSUME NEW s \in Servers,
              RegisterAssignment(s)
       PROVE  WaitingIsNotLost'
  BY <1>a, <1>21 DEF RegisterAssignment, WaitingIsNotLost
<1>22. ASSUME NEW s \in Servers,
              PublishPrepared(s)
       PROVE  WaitingIsNotLost'
  BY <1>a, <1>22 DEF PublishPrepared, WaitingIsNotLost
<1>23. ASSUME NEW s \in Servers,
              ConsumeByClient(s)
       PROVE  WaitingIsNotLost'
  BY <1>a, <1>23 DEF ConsumeByClient, WaitingIsNotLost
<1>24. ASSUME NEW s \in Servers,
              ReportLost(s)
       PROVE  WaitingIsNotLost'
  BY <1>a, <1>24 DEF ReportLost, WaitingIsNotLost
<1>25. ASSUME NEW s \in Servers,
              DrainGameServer(s)
       PROVE  WaitingIsNotLost'
  BY <1>a, <1>25 DEF DrainGameServer, WaitingIsNotLost
<1>26. ASSUME NEW s \in Servers,
              PublishServerDrain(s)
       PROVE  WaitingIsNotLost'
  BY <1>a, <1>26 DEF PublishServerDrain, WaitingIsNotLost
<1>27. ASSUME NEW s \in Servers,
              ListPending(s)
       PROVE  WaitingIsNotLost'
  BY <1>a, <1>27 DEF ListPending, WaitingIsNotLost
<1>28. ASSUME NEW s \in Servers,
              PurgeCanceled(s)
       PROVE  WaitingIsNotLost'
  BY <1>a, <1>28 DEF PurgeCanceled, WaitingIsNotLost
<1>29. ASSUME NEW s \in Servers,
              QueueDrainCleanup(s)
       PROVE  WaitingIsNotLost'
  BY <1>a, <1>29 DEF QueueDrainCleanup, WaitingIsNotLost
<1>30. ASSUME NEW s \in Servers,
              DrainError(s)
       PROVE  WaitingIsNotLost'
  BY <1>a, <1>30 DEF DrainError, WaitingIsNotLost
<1>31. ASSUME NEW s \in Servers,
              UndrainGameServer(s)
       PROVE  WaitingIsNotLost'
  BY <1>a, <1>31 DEF UndrainGameServer, WaitingIsNotLost
<1>32. ASSUME NEW s \in Servers,
              ClearServerDrain(s)
       PROVE  WaitingIsNotLost'
  BY <1>a, <1>32 DEF ClearServerDrain, WaitingIsNotLost
<1> QED
  BY <1>1, <1>2, <1>3, <1>4, <1>5, <1>6, <1>7, <1>8, <1>9, <1>10, <1>11, <1>12,
     <1>13, <1>14, <1>15, <1>16, <1>17, <1>18, <1>19, <1>20, <1>21, <1>22, <1>23,
     <1>24, <1>25, <1>26, <1>27, <1>28, <1>29, <1>30, <1>31, <1>32
  DEF Next, TaskStep, BridgeStep, DrainStep

\* Servers are chosen by Allocate and attempts counted by AfterCleanup only.
LEMMA OnlyAllocatePlaces ==
    ASSUME [Next]_vars
    PROVE  \/ UNCHANGED <<attempt, placed>>
           \/ \E r \in Requests : Allocate(r)
           \/ \E r \in Requests : AfterCleanup(r) /\ UNCHANGED placed
<1> USE DEF taskVars
<1>1. CASE UNCHANGED vars
  BY <1>1 DEF vars
<1>2. ASSUME NEW r \in Requests, RequestPlay(r) \/ TaskStep(r) \/ PrepareTimeout(r)
      PROVE  \/ UNCHANGED <<attempt, placed>>
             \/ Allocate(r)
             \/ AfterCleanup(r) /\ UNCHANGED placed
  BY <1>2 DEF TaskStep, RequestPlay, NoCapacity, PutByServer, PutByClient, CheckDrain, ReadAck,
     PrepareTimeout, IssueGrant, DeleteForClient, DeleteClientAck, DeleteIndex, DeleteAck,
     EnqueueDelete, EnqueueRelease
<1>3. ASSUME NEW r \in Requests, TaskError(r)
      PROVE  UNCHANGED <<attempt, placed>> \/ (AfterCleanup(r) /\ UNCHANGED placed)
  BY <1>3 DEF TaskError
<1>4. ASSUME NEW s \in Servers, \/ PollAssignments(s) \/ RegisterAssignment(s)
                                \/ BridgeStep(s) \/ ReportLost(s)
      PROVE  UNCHANGED <<attempt, placed>>
  BY <1>4 DEF BridgeStep, PollAssignments, RegisterAssignment, PublishPrepared,
     ConsumeByServer, ConsumeByClient, ReportLost
<1>5. ASSUME NEW s \in Servers, \/ DrainGameServer(s) \/ UndrainGameServer(s)
                                \/ DrainStep(s) \/ DrainError(s)
      PROVE  UNCHANGED <<attempt, placed>>
  BY <1>5 DEF DrainStep, DrainGameServer, UndrainGameServer, PublishServerDrain, ListPending,
     ClearPending, PurgeCanceled, QueueDrainCleanup, ClearServerDrain, DrainError
<1> QED
  BY <1>1, <1>2, <1>3, <1>4, <1>5 DEF Next

\* The only step that chooses a server excludes the servers tried before.
LEMMA StepRetriesMoveOn == IndInv /\ [Next]_vars => RetriesMoveOn'
<1> SUFFICES ASSUME IndInv, [Next]_vars PROVE RetriesMoveOn'
  OBVIOUS
<1> USE FlowAssumption DEF TypeOK, Current, Attempts
<1>a. TypeOK /\ RetriesMoveOn
  BY DEF IndInv
<1>b. \A r \in Requests, i \in 0..MaxRetries : i > attempt[r] => placed[<<r, i>>] = NoServer
  BY DEF IndInv, Placement
<1>1. CASE UNCHANGED <<attempt, placed>>
  BY <1>a, <1>1 DEF RetriesMoveOn
<1>2. ASSUME NEW r \in Requests, AfterCleanup(r), placed' = placed
      PROVE  RetriesMoveOn'
  <2>1. CASE attempt[r] < MaxRetries
    <3>1. attempt' = [attempt EXCEPT ![r] = attempt[r] + 1]
      BY <1>2, <2>1 DEF AfterCleanup
    <3>2. ASSUME NEW q \in Requests, NEW i \in 0..attempt'[q], NEW j \in 0..attempt'[q],
                 i < j, placed[<<q, i>>] # NoServer
          PROVE  placed[<<q, i>>] # placed[<<q, j>>]
      <4>1. CASE j \in 0..attempt[q]
        BY <1>a, <2>1, <3>1, <3>2, <4>1 DEF RetriesMoveOn
      <4>2. CASE j \notin 0..attempt[q]
        BY <1>a, <1>b, <2>1, <3>1, <3>2, <4>2
      <4> QED
        BY <4>1, <4>2
    <3> QED
      BY <1>2, <3>2 DEF RetriesMoveOn
  <2>2. CASE ~(attempt[r] < MaxRetries)
    BY <1>1, <1>2, <2>2 DEF AfterCleanup
  <2> QED
    BY <2>1, <2>2
<1>3. ASSUME NEW r \in Requests, Allocate(r) PROVE RetriesMoveOn'
  <2>1. PICK s \in Candidates(r) : placed' = [placed EXCEPT ![Current(r)] = s]
    BY <1>3 DEF Allocate
  <2>2. s \in Servers /\ s \notin avoid[r]
    BY <2>1 DEF Candidates
  <2>3. \A i \in 0..MaxRetries :
          (i < attempt[r] /\ placed[<<r, i>>] # NoServer) => placed[<<r, i>>] \in avoid[r]
    BY DEF IndInv, TriedAreAvoided
  <2>4. ASSUME NEW q \in Requests, NEW i \in 0..attempt[q], NEW j \in 0..attempt[q],
               i < j, placed'[<<q, i>>] # NoServer
        PROVE  placed'[<<q, i>>] # placed'[<<q, j>>]
    <3>1. i \in 0..MaxRetries /\ j \in 0..MaxRetries /\ attempt[q] \in 0..MaxRetries
      BY <1>a
    <3>2. CASE q = r /\ j = attempt[r]
      BY <1>a, <2>1, <2>2, <2>3, <2>4, <3>1, <3>2
    <3>3. CASE ~(q = r /\ j = attempt[r])
      <4>1. placed'[<<q, i>>] = placed[<<q, i>>] /\ placed'[<<q, j>>] = placed[<<q, j>>]
        BY <1>a, <2>1, <2>4, <3>1, <3>3
      <4> QED
        BY <1>a, <2>4, <4>1 DEF RetriesMoveOn
    <3> QED
      BY <3>2, <3>3
  <2>5. attempt' = attempt
    BY <1>3 DEF Allocate
  <2> QED
    BY <2>4, <2>5 DEF RetriesMoveOn
<1> QED
  BY <1>1, <1>2, <1>3, OnlyAllocatePlaces

\* The initial states satisfy the invariant.
LEMMA InitIndInv == Init => IndInv
<1> SUFFICES ASSUME Init PROVE IndInv
  OBVIOUS
<1>1. TypeOK
  BY InitTypeOK
<1> QED
  BY <1>1, FlowAssumption
  DEF IndInv, Init, Placement, Admission, DrainsAreCounted, TriedAreAvoided,
      ReleasesHaveCauses, GrantsAreAdmitted, WaitingIsNotLost, RetriesMoveOn, Attempts,
      Current, Target, WaitLabels

\* The inductive invariant holds in every reachable state.
THEOREM FlowIndInv == Spec => []IndInv
<1>1. Init => IndInv
  BY InitIndInv
<1>2. IndInv /\ [Next]_vars => IndInv'
  BY StepTypeOK, StepPlacement, StepAdmission, StepDrainsAreCounted, StepTriedAreAvoided,
     StepReleasesHaveCauses, StepGrantsAreAdmitted, StepWaitingIsNotLost, StepRetriesMoveOn
     DEF IndInv
<1> QED
  BY <1>1, <1>2, PTL DEF Spec

\* Every variable keeps its type.
THEOREM FlowTypeOK == Spec => []TypeOK
<1>1. IndInv => TypeOK
  BY DEF IndInv
<1> QED
  BY <1>1, FlowIndInv, PTL

\* A grant is handed out only for a client the chosen server's gate admits
\* (wait_for_assignment_prepared, register_assignment).
THEOREM FlowGrantsAreAdmitted == Spec => []GrantsAreAdmitted
<1>1. IndInv => GrantsAreAdmitted
  BY DEF IndInv
<1> QED
  BY <1>1, FlowIndInv, PTL

\* The assignment a task waits for is pending, seen by the bridge, or drained
\* (update_server_assignments, cancel_assignments_for_server).
THEOREM FlowWaitingIsNotLost == Spec => []WaitingIsNotLost
<1>1. IndInv => WaitingIsNotLost
  BY DEF IndInv
<1> QED
  BY <1>1, FlowIndInv, PTL

\* No retry of a request returns to a server it already failed on
\* (avoid_failed_server).
THEOREM FlowRetriesMoveOn == Spec => []RetriesMoveOn
<1>1. IndInv => RetriesMoveOn
  BY DEF IndInv
<1> QED
  BY <1>1, FlowIndInv, PTL

\* The allocation behind a grant has a release job only if its server was
\* drained (queue_failed_allocation_release, queue_server_drain_cleanup).
THEOREM FlowGrantKeepsAllocation == Spec => []GrantKeepsAllocation
<1>1. IndInv => GrantKeepsAllocation
  <2> SUFFICES ASSUME IndInv, NEW r \in Requests, pc[r] \in {"issue_grant", "granted"},
                      releaseJobs[Current(r)] > 0
               PROVE  drainCalls[Target(r)] > 0
    BY DEF GrantKeepsAllocation
  <2>1. attempt[r] \in 0..MaxRetries
    BY DEF IndInv, TypeOK
  <2> QED
    BY <2>1, FlowAssumption DEF IndInv, ReleasesHaveCauses, Current, Target
<1> QED
  BY <1>1, FlowIndInv, PTL

-----------------------------------------------------------------------------
(* How a task moves on, in three kinds of steps, and what follows for the  *)
(* cleanup jobs and for the states of attempts.                            *)

\* Where a task may go while it is at one attempt.
Ways == {<<"idle", "allocate">>, <<"put_by_server", "put_by_client">>,
         <<"put_by_client", "check_drain">>, <<"issue_grant", "granted">>}
        \cup ({"allocate", "put_by_server", "put_by_client", "issue_grant"} \X {"failed"})
        \cup (WaitLabels \X (WaitLabels \cup {"issue_grant", "delete_for_client"}))
        \cup ((CleanupLabels \ {"enqueue_release"}) \X CleanupLabels)

Places(r) ==
    /\ pc[r] = "allocate" /\ pc' = [pc EXCEPT ![r] = "put_by_server"]
    /\ \E s \in Servers : placed' = [placed EXCEPT ![Current(r)] = s]
    /\ UNCHANGED <<attempt, jobVars>>

Goes(r) ==
    /\ \E to \in Labels : /\ <<pc[r], to>> \in Ways
                          /\ pc' = [pc EXCEPT ![r] = to]
                          /\ to = "failed" /\ pc[r] # "allocate" => faults' = faults + 1
                          /\ to = "enqueue_release" => pc[r] = "enqueue_delete"
    /\ \/ pc[r] = "enqueue_delete" /\ deleteJobs' = [deleteJobs EXCEPT ![Current(r)] = @ + 1]
          /\ pc' = [pc EXCEPT ![r] = "enqueue_release"]
       \/ deleteJobs' = deleteJobs /\ (pc[r] = "enqueue_delete" => faults' = faults + 1)
    /\ UNCHANGED <<attempt, placed, releaseJobs>>

Finishes(r) ==
    /\ pc[r] = "enqueue_release" /\ AfterCleanup(r)
    /\ \/ releaseJobs' = [releaseJobs EXCEPT ![Current(r)] = @ + 1]
       \/ releaseJobs' = releaseJobs /\ faults' = faults + 1
    /\ UNCHANGED <<placed, deleteJobs>>

\* Every step of a task is of one of these kinds.
LEMMA TaskMoves ==
    ASSUME IndInv, NEW r \in Requests,
           RequestPlay(r) \/ TaskStep(r) \/ PrepareTimeout(r) \/ TaskError(r)
    PROVE  /\ Places(r) \/ Goes(r) \/ Finishes(r)
           /\ UNCHANGED <<admin, canceled, drainCalls>>
           /\ faults' = faults \/ faults' = faults + 1
<1> USE DEF Step, jobVars, drainVars, Places, Goes, Finishes
<1>1. CASE Allocate(r)
  BY <1>1 DEF Allocate, Candidates
<1>2. CASE EnqueueDelete(r)
  BY <1>2 DEF EnqueueDelete, Ways, Labels, CleanupLabels
<1>3. CASE EnqueueRelease(r)
  BY <1>3 DEF EnqueueRelease
<1>4. CASE RequestPlay(r) \/ NoCapacity(r) \/ PutByServer(r) \/ PutByClient(r) \/ IssueGrant(r)
  BY <1>4 DEF RequestPlay, NoCapacity, PutByServer, PutByClient, IssueGrant, Ways, Labels,
              WaitLabels, CleanupLabels
<1>5. CASE CheckDrain(r) \/ ReadAck(r) \/ PrepareTimeout(r)
  BY <1>5 DEF CheckDrain, ReadAck, PrepareTimeout, Ways, Labels, WaitLabels, CleanupLabels
<1>6. CASE DeleteForClient(r) \/ DeleteClientAck(r) \/ DeleteIndex(r) \/ DeleteAck(r)
  BY <1>6 DEF DeleteForClient, DeleteClientAck, DeleteIndex, DeleteAck, Ways, Labels,
              WaitLabels, CleanupLabels
<1>7. CASE TaskError(r)
  <2>1. CASE pc[r] = "enqueue_release"
    BY <1>7, <2>1 DEF TaskError, WaitLabels
  <2>2. CASE pc[r] # "enqueue_release"
    BY <1>7, <2>2 DEF TaskError, Ways, Labels, WaitLabels, CleanupLabels
  <2> QED
    BY <2>1, <2>2
<1> QED
  BY <1>1, <1>2, <1>3, <1>4, <1>5, <1>6, <1>7 DEF TaskStep

\* What the servers and the operator leave alone.
LEMMA OthersKeepTasks ==
    ASSUME Next, \A r \in Requests : ~(RequestPlay(r) \/ TaskStep(r) \/ PrepareTimeout(r) \/ TaskError(r))
    PROVE  /\ UNCHANGED taskVars
           /\ faults' = faults \/ faults' = faults + 1
           /\ UNCHANGED <<jobVars, admin, canceled, drainCalls>> \/ \E s \in Servers :
                DrainGameServer(s) \/ UndrainGameServer(s) \/ DrainStep(s) \/ DrainError(s)
<1>1. ASSUME NEW s \in Servers,
             \/ PollAssignments(s) \/ RegisterAssignment(s)
             \/ BridgeStep(s) \/ ReportLost(s)
      PROVE  /\ UNCHANGED <<taskVars, jobVars, drainVars>>
             /\ faults' = faults \/ faults' = faults + 1
  BY <1>1 DEF PollAssignments, RegisterAssignment, BridgeStep, ReportLost, PublishPrepared,
              ConsumeByServer, ConsumeByClient
<1>2. ASSUME NEW s \in Servers,
             DrainGameServer(s) \/ UndrainGameServer(s) \/ DrainStep(s) \/ DrainError(s)
      PROVE  /\ UNCHANGED taskVars
             /\ faults' = faults \/ faults' = faults + 1
  BY <1>2 DEF DrainGameServer, UndrainGameServer, DrainStep, DrainError, PublishServerDrain,
              ListPending, ClearPending, PurgeCanceled, QueueDrainCleanup, ClearServerDrain
<1> QED
  BY <1>1, <1>2 DEF Next, drainVars

\* Drain calls that have been counted but have not queued their jobs yet.
Owed == [s \in Servers |-> IF admin[s] \in {"publish_drain", "list_pending", "clear_pending",
                                            "purge_indexes", "queue_cleanup"} THEN 1 ELSE 0]

\* Attempts that are over: the task has gone on to the next one, or failed.
Over == {a \in Attempts : a[2] < attempt[a[1]] \/ (a[2] = attempt[a[1]] /\ pc[a[1]] = "failed")}

\* Attempts whose deletion their own task has queued, or failed to.
Deleted == Over \cup {a \in Attempts : a[2] = attempt[a[1]] /\ pc[a[1]] = "enqueue_release"}

\* The jobs of an attempt are those of its own cleanup, which is over when the
\* attempt is, and one for each drain call of its server that is not still to come.
JobsAreCounted ==
    /\ \A s \in Servers : Owed[s] <= drainCalls[s] /\ (canceled[s] # {} => Owed[s] = 1)
    /\ \A a \in Attempts : placed[a] = NoServer => releaseJobs[a] = 0 /\ deleteJobs[a] = 0
    /\ \A a \in Attempts : \A s \in Servers : placed[a] = s =>
         /\ releaseJobs[a] + Owed[s] <= (IF a \in Over THEN 1 ELSE 0) + drainCalls[s]
         /\ deleteJobs[a] + Owed[s] <= (IF a \in Deleted THEN 1 ELSE 0) + drainCalls[s]

\* Without faults an attempt that had a server is over only after its cleanup.
CleanupsAreDone ==
    faults = 0 =>
        /\ \A a \in Over : placed[a] # NoServer => releaseJobs[a] > 0 /\ deleteJobs[a] > 0
        /\ \A r \in Requests : pc[r] = "enqueue_release" => deleteJobs[Current(r)] > 0

\* What the pairs say: an attempt is one of its request's.
LEMMA AttemptIsPair ==
    /\ \A a \in Attempts : a[1] \in Requests /\ a[2] \in 0..MaxRetries /\ a = <<a[1], a[2]>>
    /\ \A r \in Requests : Current(r) = <<r, attempt[r]>>
    /\ \A r \in Requests : Current(r)[1] = r /\ Current(r)[2] = attempt[r]
BY DEF Attempts, Current

\* A step of a task changes what is over, and what is deleted, at its current attempt.
LEMMA OverMoves ==
    ASSUME IndInv, NEW r \in Requests, Places(r) \/ Goes(r) \/ Finishes(r)
    PROVE  /\ Over \subseteq Over' /\ Over' \subseteq Over \cup {Current(r)}
           /\ Deleted \subseteq Deleted' /\ Deleted' \subseteq Deleted \cup {Current(r)}
           /\ Current(r) \notin Over
           /\ Current(r) \in Deleted <=> pc[r] = "enqueue_release"
           /\ Current(r) \in Over' <=> Finishes(r) \/ pc'[r] = "failed"
           /\ pc'[r] \in {"enqueue_release", "failed"} \/ Finishes(r) => Current(r) \in Deleted'
<1>a. /\ TypeOK /\ pc \in [Requests -> Labels] /\ attempt \in [Requests -> 0..MaxRetries]
      /\ MaxRetries \in Nat /\ Current(r) \in Attempts
  BY CurrentIsAttempt, FlowAssumption DEF IndInv, TypeOK
<1>b. pc[r] # "failed"
  BY DEF Places, Goes, Finishes, Ways, WaitLabels, CleanupLabels
<1>c. /\ Current(r) \notin Over
      /\ Current(r) \in Deleted <=> pc[r] = "enqueue_release"
  BY <1>a, <1>b, AttemptIsPair DEF Over, Deleted
<1>1. CASE Places(r) \/ Goes(r)
  <2>1. PICK to \in Labels : pc' = [pc EXCEPT ![r] = to] /\ UNCHANGED attempt
    BY <1>1 DEF Places, Goes, Labels
  <2>2. pc[r] # "enqueue_release"
    BY <1>1 DEF Places, Goes, Ways, WaitLabels, CleanupLabels
  <2>3. \A a \in Attempts : a[1] # r => pc'[a[1]] = pc[a[1]]
    BY <1>a, <2>1, AttemptIsPair
  <2>4. \A a \in Attempts : a[1] = r /\ a[2] = attempt[r] => a = Current(r)
    BY AttemptIsPair
  <2>5. pc'[r] = to /\ attempt' = attempt /\ ~Finishes(r)
    BY <1>a, <2>1, <2>2 DEF Finishes
  <2> QED
    BY <1>a, <1>b, <1>c, <2>2, <2>3, <2>4, <2>5, AttemptIsPair DEF Over, Deleted
<1>2. CASE Finishes(r)
  <2>1. \A q \in Requests \ {r} : pc'[q] = pc[q] /\ attempt'[q] = attempt[q]
    BY <1>a, <1>2 DEF Finishes, AfterCleanup
  <2>2. \/ attempt'[r] = attempt[r] + 1 /\ pc'[r] = "allocate"
        \/ attempt'[r] = attempt[r] /\ pc'[r] = "failed"
    BY <1>a, <1>2 DEF Finishes, AfterCleanup
  <2>3. pc[r] = "enqueue_release" /\ attempt[r] \in Nat
    BY <1>a, <1>2 DEF Finishes
  <2>4. ASSUME NEW a \in Attempts
        PROVE  /\ a \in Over' <=> a \in Over \/ a = Current(r)
               /\ a \in Deleted' <=> a \in Deleted \/ a = Current(r)
    <3>1. /\ a[1] \in Requests /\ a[2] \in Nat /\ a = <<a[1], a[2]>>
          /\ Current(r) = <<r, attempt[r]>>
      BY <1>a, AttemptIsPair
    <3>2. CASE a[1] # r
      BY <2>1, <3>1, <3>2 DEF Over, Deleted
    <3>3. CASE a[1] = r
      <4>1. a \in Over' <=> a[2] < attempt'[r] \/ (a[2] = attempt'[r] /\ pc'[r] = "failed")
        BY <3>3 DEF Over
      <4>2. a \in Over <=> a[2] < attempt[r]
        BY <2>3, <3>3 DEF Over
      <4>3. a = Current(r) <=> a[2] = attempt[r]
        BY <3>1, <3>3
      <4>4. a \in Over' <=> a \in Over \/ a = Current(r)
        BY <2>2, <2>3, <3>1, <4>1, <4>2, <4>3
      <4>5. a \in Deleted' <=> a \in Over'
        BY <2>2, <3>3 DEF Deleted
      <4>6. a \in Deleted <=> a \in Over \/ a = Current(r)
        BY <2>3, <3>3, <4>3 DEF Deleted
      <4> QED
        BY <4>4, <4>5, <4>6
    <3> QED
      BY <3>2, <3>3
  <2>5. Over \subseteq Attempts /\ Over' \subseteq Attempts
    BY DEF Over
  <2>6. Deleted \subseteq Attempts /\ Deleted' \subseteq Attempts
    BY <2>5 DEF Deleted
  <2> QED
    BY <1>a, <1>2, <1>c, <2>4, <2>5, <2>6
<1> QED
  BY <1>1, <1>2

\* Jobs are never taken back.
LEMMA JobsGrow ==
    ASSUME IndInv, [Next]_vars
    PROVE  \A a \in Attempts : /\ releaseJobs'[a] \in Nat /\ releaseJobs'[a] >= releaseJobs[a]
                               /\ deleteJobs'[a] \in Nat /\ deleteJobs'[a] >= deleteJobs[a]
<1>a. /\ TypeOK /\ TypeOK'
      /\ releaseJobs \in [Attempts -> Nat] /\ deleteJobs \in [Attempts -> Nat]
      /\ releaseJobs' \in [Attempts -> Nat] /\ deleteJobs' \in [Attempts -> Nat]
      /\ \A r \in Requests : Current(r) \in Attempts
  BY StepTypeOK, CurrentIsAttempt DEF IndInv, TypeOK
<1>1. CASE UNCHANGED vars
  BY <1>a, <1>1 DEF vars, jobVars
<1>2. ASSUME NEW r \in Requests, RequestPlay(r) \/ TaskStep(r) \/ PrepareTimeout(r) \/ TaskError(r)
      PROVE  \A a \in Attempts : releaseJobs'[a] >= releaseJobs[a] /\ deleteJobs'[a] >= deleteJobs[a]
  <2>1. Places(r) \/ Goes(r) \/ Finishes(r)
    BY <1>2, TaskMoves
  <2> QED
    BY <1>a, <2>1 DEF Places, Goes, Finishes, jobVars
<1>3. ASSUME NEW s \in Servers,
             DrainGameServer(s) \/ UndrainGameServer(s) \/ DrainStep(s) \/ DrainError(s)
      PROVE  \A a \in Attempts : releaseJobs'[a] >= releaseJobs[a] /\ deleteJobs'[a] >= deleteJobs[a]
  <2>1. CASE QueueDrainCleanup(s)
    BY <1>a, <2>1 DEF QueueDrainCleanup
  <2>2. CASE ~QueueDrainCleanup(s)
    BY <1>a, <1>3, <2>2 DEF DrainGameServer, UndrainGameServer, DrainStep, DrainError,
       PublishServerDrain, ListPending, ClearPending, PurgeCanceled, ClearServerDrain, jobVars
  <2> QED
    BY <2>1, <2>2
<1>4. CASE UNCHANGED jobVars
  BY <1>a, <1>4 DEF jobVars
<1> QED
  BY <1>a, <1>1, <1>2, <1>3, <1>4, OthersKeepTasks DEF Next

\* A task leaves an attempt behind, or fails it, only after its jobs are queued.
LEMMA StepCleanupsAreDone ==
    ASSUME IndInv, CleanupsAreDone, [Next]_vars
    PROVE  CleanupsAreDone'
<1> SUFFICES ASSUME faults' = 0
             PROVE  /\ \A a \in Over' : placed'[a] # NoServer =>
                                           releaseJobs'[a] > 0 /\ deleteJobs'[a] > 0
                    /\ \A r \in Requests : pc'[r] = "enqueue_release" => deleteJobs'[Current(r)'] > 0
  BY DEF CleanupsAreDone, Current
<1>a. /\ TypeOK /\ faults \in Nat /\ FlowAssumption
      /\ pc \in [Requests -> Labels]
      /\ placed \in [Attempts -> Servers \cup {NoServer}]
      /\ releaseJobs \in [Attempts -> Nat] /\ deleteJobs \in [Attempts -> Nat]
      /\ \A r \in Requests : Current(r) \in Attempts
  BY CurrentIsAttempt, FlowAssumption DEF IndInv, TypeOK
<1>b. Over \subseteq Attempts
  BY DEF Over
<1>c. ASSUME faults = 0
      PROVE  /\ \A a \in Over : placed[a] # NoServer => releaseJobs[a] > 0 /\ deleteJobs[a] > 0
             /\ \A r \in Requests : pc[r] = "enqueue_release" => deleteJobs[Current(r)] > 0
  BY <1>c DEF CleanupsAreDone
<1>d. \A a \in Attempts : /\ releaseJobs'[a] \in Nat /\ releaseJobs'[a] >= releaseJobs[a]
                          /\ deleteJobs'[a] \in Nat /\ deleteJobs'[a] >= deleteJobs[a]
  BY JobsGrow
<1>1. CASE UNCHANGED taskVars /\ (faults' = faults \/ faults' = faults + 1)
  <2>1. faults = 0 /\ Over' = Over /\ placed' = placed /\ pc' = pc /\ attempt' = attempt
    BY <1>a, <1>1 DEF taskVars, Over
  <2> QED
    BY <1>a, <1>b, <1>c, <1>d, <2>1 DEF Current
<1>2. ASSUME NEW r \in Requests, RequestPlay(r) \/ TaskStep(r) \/ PrepareTimeout(r) \/ TaskError(r)
      PROVE  /\ \A a \in Over' : placed'[a] # NoServer =>
                                    releaseJobs'[a] > 0 /\ deleteJobs'[a] > 0
             /\ \A q \in Requests : pc'[q] = "enqueue_release" => deleteJobs'[Current(q)'] > 0
  <2>1. /\ Places(r) \/ Goes(r) \/ Finishes(r)
        /\ faults = 0 /\ faults' = faults
    BY <1>a, <1>2, TaskMoves
  <2>2. /\ Over' \subseteq Over \cup {Current(r)}
        /\ Current(r) \in Over' => Finishes(r) \/ pc'[r] = "failed"
    BY <2>1, OverMoves
  <2>3. \A a \in Over \ {Current(r)} : placed'[a] = placed[a]
    BY <1>a, <1>b, <2>1 DEF Places, Goes, Finishes
  <2>4. ASSUME Current(r) \in Over', placed'[Current(r)] # NoServer
        PROVE  releaseJobs'[Current(r)] > 0 /\ deleteJobs'[Current(r)] > 0
    <3>1. CASE Finishes(r)
      BY <1>a, <1>c, <2>1, <3>1 DEF Finishes
    <3>2. CASE pc'[r] = "failed" /\ ~Finishes(r)
      <4>1. ~Places(r)
        BY <1>a, <3>2 DEF Places
      <4>2. Goes(r)
        BY <2>1, <3>2, <4>1
      <4>3. pc[r] = "allocate" /\ placed' = placed
        BY <1>a, <2>1, <3>2, <4>2 DEF Goes
      <4>4. placed[Current(r)] = NoServer
        BY <4>3 DEF IndInv, Placement, Target
      <4> QED
        BY <2>4, <4>3, <4>4
    <3> QED
      BY <2>2, <2>4, <3>1, <3>2
  <2>5. ASSUME NEW q \in Requests, pc'[q] = "enqueue_release"
        PROVE  deleteJobs'[Current(q)'] > 0
    <3>1. CASE q = r
      <4>1. ~Places(r) /\ ~Finishes(r)
        BY <1>a, <2>5, <3>1 DEF Places, Finishes, AfterCleanup
      <4>2. Goes(r)
        BY <2>1, <4>1
      <4>3. pc[r] = "enqueue_delete" /\ attempt' = attempt
        BY <1>a, <2>5, <3>1, <4>2 DEF Goes
      <4>4. deleteJobs' = [deleteJobs EXCEPT ![Current(r)] = @ + 1]
        BY <1>a, <2>1, <4>2, <4>3 DEF Goes
      <4>5. Current(q)' = Current(r)
        BY <3>1, <4>3 DEF Current
      <4> QED
        BY <1>a, <4>4, <4>5
    <3>2. CASE q # r
      <4>1. pc'[q] = pc[q] /\ attempt'[q] = attempt[q]
        BY <1>a, <2>1, <3>2 DEF Places, Goes, Finishes, AfterCleanup, IndInv, TypeOK
      <4>2. Current(q)' = Current(q)
        BY <4>1 DEF Current
      <4> QED
        BY <1>a, <1>c, <1>d, <2>1, <2>5, <4>1, <4>2
    <3> QED
      BY <3>1, <3>2
  <2>6. ASSUME NEW a \in Over', placed'[a] # NoServer
        PROVE  releaseJobs'[a] > 0 /\ deleteJobs'[a] > 0
    <3>1. CASE a = Current(r)
      BY <2>4, <2>6, <3>1
    <3>2. CASE a # Current(r)
      <4>1. a \in Over /\ a \in Attempts /\ placed[a] # NoServer
        BY <1>b, <2>2, <2>3, <2>6, <3>2
      <4> QED
        BY <1>a, <1>c, <1>d, <2>1, <4>1
    <3> QED
      BY <3>1, <3>2
  <2> QED
    BY <2>5, <2>6
<1>3. CASE UNCHANGED vars
  BY <1>1, <1>3 DEF vars
<1> QED
  BY <1>1, <1>2, <1>3, OthersKeepTasks

\* Each abandoned attempt has its jobs when nothing failed
\* (wait_for_assignment_prepared's cleanup).
THEOREM FlowAbandonedIsQueued == Spec => []AbandonedIsQueued
<1>1. Init => CleanupsAreDone
  <2> SUFFICES ASSUME Init PROVE CleanupsAreDone
    OBVIOUS
  <2>1. \A a \in Attempts : a[2] \in Nat /\ a[1] \in Requests
    BY AttemptIsPair, FlowAssumption
  <2>2. Over = {}
    BY <2>1 DEF Init, Over
  <2> QED
    BY <2>2 DEF Init, CleanupsAreDone
<1>2. IndInv /\ CleanupsAreDone /\ [Next]_vars => CleanupsAreDone'
  BY StepCleanupsAreDone
<1>3. IndInv /\ CleanupsAreDone => AbandonedIsQueued
  <2> SUFFICES ASSUME IndInv, CleanupsAreDone, faults = 0, NEW r \in Requests, NEW i \in 0..attempt[r],
                      placed[<<r, i>>] # NoServer, i < attempt[r] \/ pc[r] = "failed"
               PROVE  releaseJobs[<<r, i>>] > 0 /\ deleteJobs[<<r, i>>] > 0
    BY DEF AbandonedIsQueued
  <2>1. attempt[r] \in 0..MaxRetries /\ <<r, i>> \in Attempts
    BY FlowAssumption DEF IndInv, TypeOK, Attempts
  <2>2. <<r, i>> \in Over
    BY <2>1, FlowAssumption DEF Over
  <2> QED
    BY <2>2 DEF CleanupsAreDone
<1> QED
  BY <1>1, <1>2, <1>3, FlowIndInv, PTL DEF Spec

\* A step of a task queues at most one job, for its current attempt, and then
\* that attempt is past its cleanup.
LEMMA TaskStepJobsAreCounted ==
    ASSUME IndInv, JobsAreCounted, NEW r \in Requests,
           Places(r) \/ Goes(r) \/ Finishes(r), UNCHANGED <<admin, canceled, drainCalls>>
    PROVE  JobsAreCounted'
<1>a. /\ FlowAssumption
      /\ pc \in [Requests -> Labels]
      /\ placed \in [Attempts -> Servers \cup {NoServer}]
      /\ releaseJobs \in [Attempts -> Nat] /\ deleteJobs \in [Attempts -> Nat]
      /\ drainCalls \in [Servers -> Nat] /\ Owed \in [Servers -> {0, 1}]
      /\ Current(r) \in Attempts
  BY CurrentIsAttempt, FlowAssumption DEF IndInv, TypeOK, Owed
<1>b. Owed' = Owed /\ drainCalls' = drainCalls /\ canceled' = canceled
  BY DEF Owed
<1>c. /\ Over \subseteq Over' /\ Deleted \subseteq Deleted'
      /\ Current(r) \notin Over
      /\ Current(r) \in Deleted <=> pc[r] = "enqueue_release"
      /\ Finishes(r) => Current(r) \in Over'
      /\ pc'[r] \in {"enqueue_release", "failed"} \/ Finishes(r) => Current(r) \in Deleted'
  BY OverMoves
<1>d. pc[r] \notin {"idle", "allocate", "failed"} => placed[Current(r)] \in Servers
  BY DEF IndInv, Placement, Target
<1>1. \A a \in Attempts \ {Current(r)} :
        placed'[a] = placed[a] /\ releaseJobs'[a] = releaseJobs[a] /\ deleteJobs'[a] = deleteJobs[a]
  BY <1>a DEF Places, Goes, Finishes, jobVars
<1>2. \A s \in Servers : Owed'[s] <= drainCalls'[s] /\ (canceled'[s] # {} => Owed'[s] = 1)
  BY <1>b DEF JobsAreCounted
<1>3. ASSUME NEW a \in Attempts, placed'[a] = NoServer
      PROVE  releaseJobs'[a] = 0 /\ deleteJobs'[a] = 0
  <2>1. CASE a # Current(r)
    BY <1>1, <1>3, <2>1 DEF JobsAreCounted
  <2>2. CASE a = Current(r)
    <3>1. ~Places(r) /\ placed' = placed
      BY <1>a, <1>3, <2>2 DEF Places, Goes, Finishes
    <3>2. pc[r] \in {"idle", "allocate", "failed"}
      BY <1>a, <1>d, <1>3, <2>2, <3>1
    <3>3. releaseJobs' = releaseJobs /\ deleteJobs' = deleteJobs
      BY <3>1, <3>2 DEF Goes, Finishes
    <3> QED
      BY <1>3, <3>1, <3>3 DEF JobsAreCounted
  <2> QED
    BY <2>1, <2>2
<1>4. ASSUME NEW a \in Attempts, NEW s \in Servers, placed'[a] = s
      PROVE  /\ releaseJobs'[a] + Owed[s] <= (IF a \in Over' THEN 1 ELSE 0) + drainCalls[s]
             /\ deleteJobs'[a] + Owed[s] <= (IF a \in Deleted' THEN 1 ELSE 0) + drainCalls[s]
  <2>1. CASE a # Current(r)
    <3>1. /\ placed[a] = s /\ releaseJobs'[a] = releaseJobs[a] /\ deleteJobs'[a] = deleteJobs[a]
          /\ (a \in Over => a \in Over') /\ (a \in Deleted => a \in Deleted')
      BY <1>1, <1>4, <1>c, <2>1
    <3>2. /\ releaseJobs[a] + Owed[s] <= (IF a \in Over THEN 1 ELSE 0) + drainCalls[s]
          /\ deleteJobs[a] + Owed[s] <= (IF a \in Deleted THEN 1 ELSE 0) + drainCalls[s]
      BY <3>1 DEF JobsAreCounted
    <3>3. releaseJobs[a] \in Nat /\ deleteJobs[a] \in Nat /\ Owed[s] \in {0, 1} /\ drainCalls[s] \in Nat
      BY <1>a
    <3> QED
      BY <1>c, <3>1, <3>2, <3>3
  <2>2. CASE a = Current(r) /\ Places(r)
    <3>1. placed[a] = NoServer /\ releaseJobs' = releaseJobs /\ deleteJobs' = deleteJobs
      BY <2>2 DEF Places, jobVars, IndInv, Placement, Target
    <3>2. releaseJobs'[a] = 0 /\ deleteJobs'[a] = 0 /\ Owed[s] <= drainCalls[s]
      BY <3>1 DEF JobsAreCounted
    <3>3. Owed[s] \in {0, 1} /\ drainCalls[s] \in Nat
      BY <1>a
    <3> QED
      BY <3>2, <3>3
  <2>3. CASE a = Current(r) /\ Goes(r)
    <3>1. placed[a] = s /\ releaseJobs'[a] = releaseJobs[a] /\ pc[r] # "enqueue_release"
      BY <1>4, <2>3 DEF Goes, Ways, WaitLabels, CleanupLabels
    <3>2. /\ releaseJobs[a] + Owed[s] <= drainCalls[s]
          /\ deleteJobs[a] + Owed[s] <= drainCalls[s]
      <4>1. a \notin Over /\ a \notin Deleted
        BY <1>c, <2>3, <3>1
      <4>2. 0 + drainCalls[s] = drainCalls[s]
        BY <1>a
      <4> QED
        BY <3>1, <4>1, <4>2 DEF JobsAreCounted
    <3>3. \/ deleteJobs'[a] = deleteJobs[a]
          \/ deleteJobs'[a] = deleteJobs[a] + 1 /\ a \in Deleted'
      BY <1>a, <1>c, <2>3 DEF Goes
    <3>4. releaseJobs[a] \in Nat /\ deleteJobs[a] \in Nat /\ Owed[s] \in {0, 1} /\ drainCalls[s] \in Nat
      BY <1>a
    <3> QED
      BY <3>1, <3>2, <3>3, <3>4
  <2>4. CASE a = Current(r) /\ Finishes(r)
    <3>1. /\ placed[a] = s /\ deleteJobs'[a] = deleteJobs[a]
          /\ a \in Over' /\ a \in Deleted' /\ a \notin Over /\ a \in Deleted
      BY <1>4, <1>c, <2>4 DEF Finishes
    <3>2. /\ releaseJobs[a] + Owed[s] <= 0 + drainCalls[s]
          /\ deleteJobs[a] + Owed[s] <= 1 + drainCalls[s]
      BY <3>1 DEF JobsAreCounted
    <3>3. releaseJobs'[a] = releaseJobs[a] \/ releaseJobs'[a] = releaseJobs[a] + 1
      BY <1>a, <2>4 DEF Finishes
    <3>4. releaseJobs[a] \in Nat /\ deleteJobs[a] \in Nat /\ Owed[s] \in {0, 1} /\ drainCalls[s] \in Nat
      BY <1>a
    <3> QED
      BY <3>1, <3>2, <3>3, <3>4
  <2> QED
    BY <2>1, <2>2, <2>3, <2>4
<1> QED
  BY <1>b, <1>2, <1>3, <1>4 DEF JobsAreCounted

\* A drain call owes its jobs from the moment it is counted until it queues them
\* or fails.
LEMMA DrainStepJobsAreCounted ==
    ASSUME IndInv, JobsAreCounted, UNCHANGED taskVars, NEW s \in Servers,
           DrainGameServer(s) \/ UndrainGameServer(s) \/ DrainStep(s) \/ DrainError(s)
    PROVE  JobsAreCounted'
<1>a. /\ FlowAssumption
      /\ placed \in [Attempts -> Servers \cup {NoServer}]
      /\ releaseJobs \in [Attempts -> Nat] /\ deleteJobs \in [Attempts -> Nat]
      /\ drainCalls \in [Servers -> Nat] /\ Owed \in [Servers -> {0, 1}] /\ Owed' \in [Servers -> {0, 1}]
      /\ admin \in [Servers -> {"idle", "publish_drain", "list_pending", "clear_pending",
                                "purge_indexes", "queue_cleanup", "clear_drain"}]
      /\ canceled \in [Servers -> SUBSET Attempts]
  BY FlowAssumption DEF IndInv, TypeOK, Owed
<1>b. Over' = Over /\ Deleted' = Deleted /\ placed' = placed
  BY DEF taskVars, Over, Deleted
<1>c. /\ \A t \in Servers : Owed[t] <= drainCalls[t] /\ (canceled[t] # {} => Owed[t] = 1)
      /\ \A a \in Attempts : placed[a] = NoServer => releaseJobs[a] = 0 /\ deleteJobs[a] = 0
      /\ \A a \in Attempts : \A t \in Servers : placed[a] = t =>
           /\ releaseJobs[a] + Owed[t] <= (IF a \in Over THEN 1 ELSE 0) + drainCalls[t]
           /\ deleteJobs[a] + Owed[t] <= (IF a \in Deleted THEN 1 ELSE 0) + drainCalls[t]
  BY DEF JobsAreCounted
<1>d. \A a \in canceled[s] : placed[a] = s
  BY DEF IndInv, Placement
<1>e. \A t \in Servers \ {s} : /\ admin'[t] = admin[t] /\ canceled'[t] = canceled[t]
                               /\ drainCalls'[t] = drainCalls[t] /\ Owed'[t] = Owed[t]
  <2>1. ASSUME NEW t \in Servers \ {s}
        PROVE  admin'[t] = admin[t] /\ canceled'[t] = canceled[t] /\ drainCalls'[t] = drainCalls[t]
    BY <1>a DEF DrainGameServer, UndrainGameServer, DrainStep, DrainError, PublishServerDrain,
       ListPending, ClearPending, PurgeCanceled, QueueDrainCleanup, ClearServerDrain, AdminStep
  <2> QED
    BY <2>1 DEF Owed
<1>1. CASE QueueDrainCleanup(s)
  <2>1. /\ Owed[s] = 1 /\ Owed'[s] = 0 /\ canceled'[s] = {} /\ drainCalls' = drainCalls
        /\ \A a \in Attempts :
             /\ releaseJobs'[a] = releaseJobs[a] + (IF a \in canceled[s] THEN 1 ELSE 0)
             /\ deleteJobs'[a] = deleteJobs[a] + (IF a \in canceled[s] THEN 1 ELSE 0)
    BY <1>a, <1>1 DEF QueueDrainCleanup, AdminStep, Owed
  <2>2. \A t \in Servers : Owed'[t] <= drainCalls'[t] /\ (canceled'[t] # {} => Owed'[t] = 1)
    BY <1>a, <1>c, <1>e, <2>1
  <2>3. \A a \in Attempts : placed'[a] = NoServer => releaseJobs'[a] = 0 /\ deleteJobs'[a] = 0
    BY <1>a, <1>b, <1>c, <1>d, <2>1
  <2>4. ASSUME NEW a \in Attempts, NEW t \in Servers, placed[a] = t
        PROVE  /\ releaseJobs'[a] + Owed'[t] <= (IF a \in Over THEN 1 ELSE 0) + drainCalls[t]
               /\ deleteJobs'[a] + Owed'[t] <= (IF a \in Deleted THEN 1 ELSE 0) + drainCalls[t]
    <3>1. /\ releaseJobs[a] + Owed[t] <= (IF a \in Over THEN 1 ELSE 0) + drainCalls[t]
          /\ deleteJobs[a] + Owed[t] <= (IF a \in Deleted THEN 1 ELSE 0) + drainCalls[t]
      BY <1>c, <2>4
    <3>2. \/ /\ releaseJobs'[a] = releaseJobs[a] /\ deleteJobs'[a] = deleteJobs[a]
             /\ Owed'[t] = Owed[t] \/ Owed'[t] = 0
          \/ /\ releaseJobs'[a] = releaseJobs[a] + 1 /\ deleteJobs'[a] = deleteJobs[a] + 1
             /\ Owed[t] = 1 /\ Owed'[t] = 0
      BY <1>a, <1>d, <1>e, <2>1, <2>4
    <3>3. releaseJobs[a] \in Nat /\ deleteJobs[a] \in Nat /\ Owed[t] \in {0, 1} /\ drainCalls[t] \in Nat
      BY <1>a
    <3> QED
      BY <3>1, <3>2, <3>3
  <2> QED
    BY <1>b, <2>1, <2>2, <2>3, <2>4 DEF JobsAreCounted
<1>2. CASE ~QueueDrainCleanup(s)
  <2>1. releaseJobs' = releaseJobs /\ deleteJobs' = deleteJobs
    BY <1>2 DEF DrainGameServer, UndrainGameServer, DrainStep, DrainError, PublishServerDrain,
       ListPending, ClearPending, PurgeCanceled, ClearServerDrain, jobVars
  <2>2. /\ \/ drainCalls'[s] = drainCalls[s] + 1 /\ Owed[s] = 0 /\ Owed'[s] = 1
           \/ drainCalls'[s] = drainCalls[s] /\ Owed'[s] <= Owed[s]
        /\ canceled'[s] # {} => Owed'[s] = 1
    <3>1. CASE DrainGameServer(s)
      <4>1. canceled[s] = {}
        BY <1>c, <3>1 DEF DrainGameServer, AdminStep, Owed
      <4> QED
        BY <1>a, <3>1, <4>1 DEF DrainGameServer, AdminStep, Owed
    <3>2. CASE UndrainGameServer(s) \/ ClearServerDrain(s)
      <4>1. canceled[s] = {} /\ canceled' = canceled /\ drainCalls' = drainCalls
        BY <1>c, <3>2 DEF UndrainGameServer, ClearServerDrain, AdminStep, Owed
      <4>2. Owed[s] = 0 /\ Owed'[s] = 0
        BY <1>a, <3>2 DEF UndrainGameServer, ClearServerDrain, AdminStep, Owed
      <4> QED
        BY <4>1, <4>2
    <3>3. CASE PublishServerDrain(s) \/ ListPending(s) \/ ClearPending(s) \/ PurgeCanceled(s)
      <4>1. Owed[s] = 1 /\ Owed'[s] = 1 /\ drainCalls' = drainCalls
        BY <1>a, <3>3 DEF PublishServerDrain, ListPending, ClearPending, PurgeCanceled, AdminStep, Owed
      <4> QED
        BY <4>1
    <3>4. CASE DrainError(s)
      <4>1. canceled'[s] = {} /\ drainCalls' = drainCalls /\ Owed'[s] = 0
        BY <1>a, <3>4 DEF DrainError, Owed
      <4> QED
        BY <1>a, <4>1
    <3> QED
      BY <1>2, <3>1, <3>2, <3>3, <3>4 DEF DrainStep
  <2>3. ASSUME NEW t \in Servers
        PROVE  Owed'[t] <= drainCalls'[t] /\ (canceled'[t] # {} => Owed'[t] = 1)
    BY <1>a, <1>c, <1>e, <2>2
  <2>4. ASSUME NEW a \in Attempts, NEW t \in Servers, placed[a] = t
        PROVE  /\ releaseJobs'[a] + Owed'[t] <= (IF a \in Over THEN 1 ELSE 0) + drainCalls'[t]
               /\ deleteJobs'[a] + Owed'[t] <= (IF a \in Deleted THEN 1 ELSE 0) + drainCalls'[t]
    <3>1. /\ releaseJobs[a] + Owed[t] <= (IF a \in Over THEN 1 ELSE 0) + drainCalls[t]
          /\ deleteJobs[a] + Owed[t] <= (IF a \in Deleted THEN 1 ELSE 0) + drainCalls[t]
      BY <1>c, <2>4
    <3>2. \/ drainCalls'[t] = drainCalls[t] + 1 /\ Owed[t] = 0 /\ Owed'[t] = 1
          \/ drainCalls'[t] = drainCalls[t] /\ Owed'[t] <= Owed[t]
      BY <1>a, <1>e, <2>2
    <3>3. /\ releaseJobs[a] \in Nat /\ deleteJobs[a] \in Nat /\ drainCalls[t] \in Nat
          /\ Owed[t] \in {0, 1} /\ Owed'[t] \in {0, 1}
      BY <1>a
    <3> QED
      BY <2>1, <3>1, <3>2, <3>3
  <2> QED
    BY <1>b, <1>c, <2>1, <2>3, <2>4 DEF JobsAreCounted
<1> QED
  BY <1>1, <1>2

\* An attempt has at most one release and one delete job of its own, and one more
\* for each drain of its server (enqueue_delete_assignment,
\* enqueue_release_allocation, queue_server_drain_cleanup).
THEOREM FlowJobsHaveCauses == Spec => []JobsHaveCauses
<1>1. Init => JobsAreCounted
  <2> SUFFICES ASSUME Init PROVE JobsAreCounted
    OBVIOUS
  <2>1. Owed = [s \in Servers |-> 0]
    BY DEF Init, Owed
  <2> QED
    BY <2>1, FlowAssumption DEF Init, JobsAreCounted
<1>2. IndInv /\ JobsAreCounted /\ [Next]_vars => JobsAreCounted'
  <2> SUFFICES ASSUME IndInv, JobsAreCounted, [Next]_vars PROVE JobsAreCounted'
    OBVIOUS
  <2>1. CASE UNCHANGED <<taskVars, jobVars, admin, canceled, drainCalls>>
    BY <2>1 DEF taskVars, jobVars, JobsAreCounted, Owed, Over, Deleted
  <2>2. CASE UNCHANGED vars
    BY <2>1, <2>2 DEF vars, drainVars
  <2>3. ASSUME NEW r \in Requests,
               RequestPlay(r) \/ TaskStep(r) \/ PrepareTimeout(r) \/ TaskError(r)
        PROVE  JobsAreCounted'
    BY <2>3, TaskMoves, TaskStepJobsAreCounted
  <2> QED
    BY <2>1, <2>2, <2>3, OthersKeepTasks, DrainStepJobsAreCounted
<1>3. IndInv /\ JobsAreCounted => JobsHaveCauses
  <2> SUFFICES ASSUME IndInv, JobsAreCounted, NEW a \in Attempts
               PROVE  LET drained == IF placed[a] = NoServer THEN 0 ELSE drainCalls[placed[a]]
                      IN  releaseJobs[a] <= 1 + drained /\ deleteJobs[a] <= 1 + drained
    BY DEF JobsHaveCauses
  <2>1. CASE placed[a] = NoServer
    BY <2>1 DEF JobsAreCounted
  <2>2. CASE placed[a] # NoServer
    <3>1. /\ placed[a] \in Servers /\ drainCalls[placed[a]] \in Nat
          /\ releaseJobs[a] \in Nat /\ deleteJobs[a] \in Nat /\ Owed[placed[a]] \in {0, 1}
      BY <2>2, FlowAssumption DEF IndInv, TypeOK, Owed
    <3>2. /\ releaseJobs[a] + Owed[placed[a]] <= (IF a \in Over THEN 1 ELSE 0) + drainCalls[placed[a]]
          /\ deleteJobs[a] + Owed[placed[a]] <= (IF a \in Deleted THEN 1 ELSE 0) + drainCalls[placed[a]]
      BY <3>1 DEF JobsAreCounted
    <3> QED
      BY <2>2, <3>1, <3>2
  <2> QED
    BY <2>1, <2>2
<1> QED
  BY <1>1, <1>2, <1>3, FlowIndInv, PTL DEF Spec

-----------------------------------------------------------------------------
(* The refinement: every step maps to a step of the abstract lifecycle.    *)

\* The abstract state of every attempt.
StateMap == [a \in Attempts |-> StateOf(a)]

\* The abstract state of an attempt says only what its request's task does.
StatesTellTasks ==
    \A a \in Attempts :
        /\ placed[a] = NoServer => StateMap[a] = "none"
        /\ placed[a] # NoServer /\ a[2] < attempt[a[1]] => StateMap[a] = "failed"
        /\ placed[a] # NoServer /\ a[2] = attempt[a[1]] =>
             /\ pc[a[1]] \in {"put_by_server", "put_by_client"} => StateMap[a] = "created"
             /\ pc[a[1]] \in WaitLabels => StateMap[a] = "preparing"
             /\ pc[a[1]] = "issue_grant" => StateMap[a] = "prepared"
             /\ pc[a[1]] = "granted" => StateMap[a] = "ready"
             /\ pc[a[1]] \in {"failed"} \cup CleanupLabels => StateMap[a] = "failed"

LEMMA StateOfAttempt == IndInv => StatesTellTasks
<1> SUFFICES ASSUME IndInv, NEW a \in Attempts
             PROVE  /\ placed[a] = NoServer => StateMap[a] = "none"
                    /\ placed[a] # NoServer /\ a[2] < attempt[a[1]] => StateMap[a] = "failed"
                    /\ placed[a] # NoServer /\ a[2] = attempt[a[1]] =>
                         /\ pc[a[1]] \in {"put_by_server", "put_by_client"} => StateMap[a] = "created"
                         /\ pc[a[1]] \in WaitLabels => StateMap[a] = "preparing"
                         /\ pc[a[1]] = "issue_grant" => StateMap[a] = "prepared"
                         /\ pc[a[1]] = "granted" => StateMap[a] = "ready"
                         /\ pc[a[1]] \in {"failed"} \cup CleanupLabels => StateMap[a] = "failed"
  BY DEF StatesTellTasks
<1>1. /\ a[1] \in Requests /\ attempt[a[1]] \in Nat /\ StateMap[a] = StateOf(a)
      /\ pc[a[1]] \in Labels
  BY AttemptIsPair, FlowAssumption DEF IndInv, TypeOK, StateMap
<1>2. CASE a[2] < attempt[a[1]] \/ placed[a] = NoServer
  <2>1. a[2] < attempt[a[1]] => a[2] # attempt[a[1]]
    BY <1>1, AttemptIsPair, FlowAssumption
  <2> QED
    BY <1>1, <1>2, <2>1 DEF StateOf
<1>3. CASE ~(a[2] < attempt[a[1]]) /\ placed[a] # NoServer
  <2>1. pc[a[1]] \in {"put_by_server", "put_by_client"} => StateOf(a) = "created"
    BY <1>3 DEF StateOf, WaitLabels
  <2>2. pc[a[1]] \in WaitLabels => StateOf(a) = "preparing"
    BY <1>3 DEF StateOf, WaitLabels
  <2>3. pc[a[1]] = "issue_grant" => StateOf(a) = "prepared"
    BY <1>3 DEF StateOf, WaitLabels
  <2>4. pc[a[1]] = "granted" => StateOf(a) = "ready"
    BY <1>3 DEF StateOf, WaitLabels
  <2>5. pc[a[1]] \in {"failed"} \cup CleanupLabels => StateOf(a) = "failed"
    BY <1>3 DEF StateOf, WaitLabels, CleanupLabels
  <2> QED
    BY <1>1, <1>3, <2>1, <2>2, <2>3, <2>4, <2>5
<1> QED
  BY <1>2, <1>3

\* A step of a task moves the abstract state of its current attempt only, along
\* a legal transition.
LEMMA TaskStepAdvances ==
    ASSUME IndInv, StatesTellTasks', NEW r \in Requests, Places(r) \/ Goes(r) \/ Finishes(r)
    PROVE  /\ \A a \in Attempts \ {Current(r)} : StateMap'[a] = StateMap[a]
           /\ \/ StateMap'[Current(r)] = StateMap[Current(r)]
              \/ <<StateMap[Current(r)], StateMap'[Current(r)]>> \in Lifecycle!Legal
<1>a. /\ FlowAssumption
      /\ pc \in [Requests -> Labels] /\ attempt \in [Requests -> 0..MaxRetries]
      /\ placed \in [Attempts -> Servers \cup {NoServer}]
      /\ Current(r) \in Attempts /\ Current(r)[1] = r /\ Current(r)[2] = attempt[r]
      /\ attempt[r] \in Nat
  BY CurrentIsAttempt, AttemptIsPair, FlowAssumption DEF IndInv, TypeOK
<1>b. \A a \in Attempts : /\ a[1] \in Requests /\ a[2] \in 0..MaxRetries
                          /\ a[2] > attempt[a[1]] => placed[a] = NoServer
                          /\ a # Current(r) => a[1] # r \/ a[2] # attempt[r]
  <2>1. \A q \in Requests, i \in 0..MaxRetries : i > attempt[q] => placed[<<q, i>>] = NoServer
    BY DEF IndInv, Placement
  <2>2. ASSUME NEW a \in Attempts
        PROVE  /\ a[1] \in Requests /\ a[2] \in 0..MaxRetries /\ a = <<a[1], a[2]>>
               /\ Current(r) = <<r, attempt[r]>>
    BY AttemptIsPair
  <2> QED
    BY <2>1, <2>2
<1>c. \A a \in Attempts : StateMap[a] = StateOf(a)
  BY DEF StateMap
<1>1. ASSUME NEW a \in Attempts \ {Current(r)} PROVE StateMap'[a] = StateMap[a]
  <2>1. placed'[a] = placed[a]
    BY <1>a DEF Places, Goes, Finishes
  <2>2. CASE placed[a] = NoServer
    BY <2>1, <2>2 DEF StateMap, StateOf
  <2>3. CASE placed[a] # NoServer /\ a[1] # r
    <3>1. pc'[a[1]] = pc[a[1]] /\ attempt'[a[1]] = attempt[a[1]]
      BY <1>a, <1>b, <2>3 DEF Places, Goes, Finishes, AfterCleanup
    <3> QED
      BY <2>1, <3>1 DEF StateMap, StateOf
  <2>4. CASE placed[a] # NoServer /\ a[1] = r
    <3>1. a[2] < attempt[r]
      BY <1>a, <1>b, <2>4
    <3>2. a[2] < attempt'[r]
      <4>1. attempt' = attempt \/ attempt'[r] = attempt[r] + 1
        BY <1>a DEF Places, Goes, Finishes, AfterCleanup
      <4> QED
        BY <1>a, <1>b, <3>1, <4>1
    <3> QED
      BY <2>1, <2>4, <3>1, <3>2 DEF StateMap, StateOf
  <2> QED
    BY <2>2, <2>3, <2>4
<1>2. \A from, to : <<from, to>> \in {<<"none", "created">>, <<"created", "preparing">>,
           <<"created", "failed">>, <<"preparing", "prepared">>, <<"preparing", "failed">>,
           <<"prepared", "ready">>, <<"prepared", "failed">>} => <<from, to>> \in Lifecycle!Legal
  BY DEF Lifecycle!Legal
<1>d. /\ placed[Current(r)] = NoServer => StateMap[Current(r)] = "none"
      /\ placed[Current(r)] # NoServer =>
                /\ pc[r] \in {"put_by_server", "put_by_client"} => StateMap[Current(r)] = "created"
                /\ pc[r] \in WaitLabels => StateMap[Current(r)] = "preparing"
                /\ pc[r] = "issue_grant" => StateMap[Current(r)] = "prepared"
                /\ pc[r] = "granted" => StateMap[Current(r)] = "ready"
                /\ pc[r] \in {"failed"} \cup CleanupLabels => StateMap[Current(r)] = "failed"
  BY <1>a, StateOfAttempt DEF StatesTellTasks
<1>3. CASE Places(r) \/ Goes(r)
  <2>1. attempt' = attempt
    BY <1>3 DEF Places, Goes
  <2>2. /\ placed'[Current(r)] = NoServer => StateMap'[Current(r)] = "none"
        /\ placed'[Current(r)] # NoServer =>
                /\ pc'[r] \in {"put_by_server", "put_by_client"} => StateMap'[Current(r)] = "created"
                /\ pc'[r] \in WaitLabels => StateMap'[Current(r)] = "preparing"
                /\ pc'[r] = "issue_grant" => StateMap'[Current(r)] = "prepared"
                /\ pc'[r] = "granted" => StateMap'[Current(r)] = "ready"
                /\ pc'[r] \in {"failed"} \cup CleanupLabels => StateMap'[Current(r)] = "failed"
    BY <1>a, <2>1 DEF StatesTellTasks
  <2>3. CASE Places(r)
    <3>1. placed[Current(r)] = NoServer
      BY <2>3 DEF Places, IndInv, Placement, Target
    <3>2. placed'[Current(r)] # NoServer /\ pc'[r] = "put_by_server"
      BY <1>a, <2>3 DEF Places
    <3> QED
      BY <1>1, <1>2, <1>d, <2>2, <3>1, <3>2
  <2>4. CASE Goes(r)
    <3>1. placed' = placed
      BY <2>4 DEF Goes
    <3>2. CASE placed[Current(r)] = NoServer
      BY <1>1, <1>d, <2>2, <3>1, <3>2
    <3>3. CASE placed[Current(r)] # NoServer
      <4>1. <<pc[r], pc'[r]>> \in Ways
        BY <1>a, <2>4 DEF Goes
      <4>2. pc[r] \notin {"idle", "allocate"}
        BY <3>3 DEF IndInv, Placement, Target
      <4>3. \/ pc[r] = "put_by_server" /\ pc'[r] \in {"put_by_client", "failed"}
            \/ pc[r] = "put_by_client" /\ pc'[r] \in {"check_drain", "failed"}
            \/ pc[r] \in WaitLabels /\ pc'[r] \in WaitLabels \cup {"issue_grant", "delete_for_client"}
            \/ pc[r] = "issue_grant" /\ pc'[r] \in {"granted", "failed"}
            \/ pc[r] \in CleanupLabels /\ pc'[r] \in CleanupLabels
        BY <4>1, <4>2 DEF Ways
      <4>4. "check_drain" \in WaitLabels /\ "delete_for_client" \in CleanupLabels
        BY DEF WaitLabels, CleanupLabels
      <4> DEFINE from == StateMap[Current(r)]
                 to == StateMap'[Current(r)]
      <4>5. from = to \/
            <<from, to>> \in {<<"none", "created">>, <<"created", "preparing">>,
              <<"created", "failed">>, <<"preparing", "prepared">>, <<"preparing", "failed">>,
              <<"prepared", "ready">>, <<"prepared", "failed">>}
        BY <1>d, <2>2, <3>1, <3>3, <4>3, <4>4
      <4> QED
        BY <1>1, <1>2, <4>5
    <3> QED
      BY <3>2, <3>3
  <2> QED
    BY <1>3, <2>3, <2>4
<1>4. CASE Finishes(r)
  <2>1. placed' = placed /\ pc[r] \in CleanupLabels
    BY <1>4 DEF Finishes, CleanupLabels
  <2>2. \/ attempt[r] < attempt'[r]
        \/ attempt' = attempt /\ pc'[r] = "failed"
    BY <1>a, <1>4 DEF Finishes, AfterCleanup
  <2>3. /\ placed'[Current(r)] = NoServer => StateMap'[Current(r)] = "none"
        /\ placed'[Current(r)] # NoServer /\ attempt[r] < attempt'[r]
             => StateMap'[Current(r)] = "failed"
        /\ placed'[Current(r)] # NoServer /\ attempt[r] = attempt'[r] /\ pc'[r] = "failed"
             => StateMap'[Current(r)] = "failed"
    BY <1>a DEF StatesTellTasks
  <2>4. StateMap'[Current(r)] = StateMap[Current(r)]
    BY <1>a, <1>d, <2>1, <2>2, <2>3
  <2> QED
    BY <1>1, <2>4
<1> QED
  BY <1>3, <1>4

\* Attempts go through the states of state.rs along the transitions
\* can_transition_to allows: the abstract lifecycle is implemented.
THEOREM FlowImplementsLifecycle == Spec => ImplementsLifecycle
<1>1. Init => Lifecycle!Init
  BY DEF Init, Lifecycle!Init, StateOf
<1>2. IndInv /\ StatesTellTasks' /\ [Next]_vars => [Lifecycle!Next]_StateMap
  <2> SUFFICES ASSUME IndInv, StatesTellTasks', [Next]_vars PROVE [Lifecycle!Next]_StateMap
    OBVIOUS
  <2>1. CASE UNCHANGED taskVars
    BY <2>1 DEF taskVars, StateMap, StateOf
  <2>2. CASE UNCHANGED vars
    BY <2>1, <2>2 DEF vars
  <2>3. ASSUME NEW r \in Requests,
               RequestPlay(r) \/ TaskStep(r) \/ PrepareTimeout(r) \/ TaskError(r)
        PROVE  [Lifecycle!Next]_StateMap
    <3> DEFINE c == Current(r)
    <3>1. Places(r) \/ Goes(r) \/ Finishes(r)
      BY <2>3, TaskMoves
    <3>2. c \in Attempts
      BY CurrentIsAttempt DEF IndInv
    <3>3. /\ \A a \in Attempts \ {c} : StateMap'[a] = StateMap[a]
          /\ StateMap'[c] = StateMap[c] \/ <<StateMap[c], StateMap'[c]>> \in Lifecycle!Legal
      BY <3>1, TaskStepAdvances
    <3>4. DOMAIN StateMap = Attempts /\ DOMAIN StateMap' = Attempts
          /\ StateMap = [a \in Attempts |-> StateMap[a]] /\ StateMap' = [a \in Attempts |-> StateMap'[a]]
      BY DEF StateMap
    <3>5. StateMap' = [StateMap EXCEPT ![c] = StateMap'[c]]
      BY <3>2, <3>3, <3>4
    <3>6. CASE StateMap'[c] = StateMap[c]
      BY <3>2, <3>3, <3>4, <3>6
    <3>7. CASE <<StateMap[c], StateMap'[c]>> \in Lifecycle!Legal
      <4>1. StateMap'[c] \in Lifecycle!States
        BY <3>7 DEF Lifecycle!Legal, Lifecycle!States, Lifecycle!Terminal
      <4>2. Lifecycle!Advance(c, StateMap'[c])
        BY <3>5, <3>7 DEF Lifecycle!Advance, Lifecycle!CanTransition, StateMap
      <4> QED
        BY <3>2, <4>1, <4>2 DEF Lifecycle!Next
    <3> QED
      BY <3>3, <3>6, <3>7
  <2> QED
    BY <2>1, <2>2, <2>3, OthersKeepTasks
<1> QED
  BY <1>1, <1>2, FlowIndInv, StateOfAttempt, PTL DEF Spec, ImplementsLifecycle, Lifecycle!Spec, StateMap
=============================================================================
