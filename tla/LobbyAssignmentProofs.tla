------------------------ MODULE LobbyAssignmentProofs ------------------------
(***************************************************************************)
(* Theorems about LobbyAssignment for a roster of any size and any number  *)
(* of servers, retries, faults and drains.                                 *)
(***************************************************************************)
EXTENDS LobbyAssignment, TLAPS

\* The current record is a record, and once it is placed its server is a server.
LEMMA RecordIsRecord ==
    ASSUME TypeOK
    PROVE  /\ Record \in Records
           /\ Target \in Servers \cup {NoServer}
BY LobbyAssumption DEF TypeOK, Record, Records, Target

\* The initial states satisfy the invariant.
LEMMA InitIndInv == Init => IndInv
<1> SUFFICES ASSUME Init PROVE IndInv
  OBVIOUS
<1> USE LobbyAssumption DEF Init, Attempts, Members, Records, Target, RecordsOf, WaitLabels,
        CleanupLabels, Kept
<1>1. TypeOK
  BY DEF TypeOK, Labels
<1>2. Placement /\ Admission
  BY DEF Placement, Admission
<1>3. WaitedAreAdmitted /\ PutsAreKept
  BY DEF WaitedAreAdmitted, PutsAreKept
<1>4. ReleasesHaveCauses
  BY DEF ReleasesHaveCauses, OwnRelease, DrainRelease
<1>5. GrantsAreWhole /\ WaitingIsNotLost
  BY DEF GrantsAreWhole, WaitingIsNotLost
<1> QED
  BY <1>1, <1>2, <1>3, <1>4, <1>5 DEF IndInv

\* Type correctness is preserved by every step.
LEMMA StepTypeOK == IndInv /\ [Next]_vars => TypeOK'
<1> SUFFICES ASSUME IndInv, [Next]_vars PROVE TypeOK'
  OBVIOUS
<1> USE LobbyAssumption DEF Goto, NextMember, GiveUp, AdminStep, Fault, taskVars, bucketVars,
        serverVars, drainVars, jobVars,
        TypeOK, Labels, WaitLabels, CleanupLabels, Attempts, Members
<1>a. TypeOK /\ Placement /\ Admission
  BY DEF IndInv
<1>b. /\ Record \in Records
      /\ Target \in Servers \cup {NoServer}
      /\ pc \notin {"idle", "allocate", "failed"} => Target \in Servers
  BY <1>a, RecordIsRecord DEF Placement
<1>1. CASE UNCHANGED vars
  BY <1>a, <1>b, <1>1 DEF vars
<1>2. CASE AssignLobby
  BY <1>a, <1>b, <1>2 DEF AssignLobby
<1>3. CASE Allocate
  BY <1>a, <1>b, <1>3 DEF Allocate, Candidates
<1>4. CASE NoCapacity
  BY <1>a, <1>b, <1>4 DEF NoCapacity, Candidates
<1>5. CASE PutByServer
  BY <1>a, <1>b, <1>5 DEF PutByServer
<1>6. CASE PutByClient
  BY <1>a, <1>b, <1>6 DEF PutByClient
<1>7. CASE CheckDrain
  BY <1>a, <1>b, <1>7 DEF CheckDrain
<1>8. CASE ReadAck
  BY <1>a, <1>b, <1>8 DEF ReadAck
<1>9. CASE PrepareTimeout
  BY <1>a, <1>b, <1>9 DEF PrepareTimeout
<1>10. CASE Grant
  BY <1>a, <1>b, <1>10 DEF Grant
<1>11. CASE DeletePending
  <2>1. Target \in Servers
    BY <1>b, <1>11 DEF DeletePending
  <2>2. byServer' \in [Servers -> SUBSET Records]
    <3>1. byServer[Target] \ {Record} \in SUBSET Records
      BY <1>a, <2>1
    <3>2. byServer' \in {byServer, [byServer EXCEPT ![Target] = @ \ {Record}]}
      BY <1>11 DEF DeletePending
    <3> QED
      BY <1>a, <2>1, <3>1, <3>2
  <2>3. /\ pc' = "delete_ack"
        /\ faults' \in 0..MaxFaults
        /\ byClient' \in SUBSET Records
        /\ acks' \in SUBSET Records
    BY <1>a, <1>11 DEF DeletePending
  <2>4. UNCHANGED <<attempt, member, avoid, server, granted, serverVars, drainVars, jobVars>>
    BY <1>11 DEF DeletePending
  <2> QED
    BY <1>a, <2>2, <2>3, <2>4
<1>12. CASE DeleteAck
  BY <1>a, <1>b, <1>12 DEF DeleteAck
<1>13. CASE EnqueueDelete
  BY <1>a, <1>b, <1>13, SMTT(30) DEF EnqueueDelete
<1>14. CASE EnqueueRelease
  <2>1. Target \in Servers /\ attempt \in Attempts
    BY <1>a, <1>b, <1>14 DEF EnqueueRelease
  <2>2. /\ pc' \in {"allocate", "failed"}
        /\ attempt' \in Attempts
        /\ avoid' \in SUBSET Servers
    <3>1. CASE attempt < MaxRetries
      BY <1>a, <1>14, <2>1, <3>1 DEF EnqueueRelease
    <3>2. CASE ~(attempt < MaxRetries)
      BY <1>a, <1>14, <3>2 DEF EnqueueRelease
    <3> QED
      BY <3>1, <3>2
  <2>3. releases' \in [Attempts -> Nat] /\ faults' \in 0..MaxFaults
    BY <1>a, <1>14, <2>1 DEF EnqueueRelease
  <2>4. UNCHANGED <<member, server, granted, bucketVars, serverVars, drainVars, deletes>>
    BY <1>14 DEF EnqueueRelease
  <2> QED
    BY <1>a, <2>2, <2>3, <2>4
<1>15. CASE TaskError
  BY <1>a, <1>b, <1>15 DEF TaskError
<1>16. ASSUME NEW s \in Alive, PollAssignments(s) PROVE TypeOK'
  BY <1>a, <1>b, <1>16 DEF PollAssignments
<1>17. ASSUME NEW s \in Alive, RegisterAssignment(s) PROVE TypeOK'
  BY <1>a, <1>b, <1>17 DEF RegisterAssignment
<1>18. ASSUME NEW s \in Alive, PublishPrepared(s) PROVE TypeOK'
  BY <1>a, <1>b, <1>18 DEF PublishPrepared
<1>19. ASSUME NEW s \in Alive, ConsumePrepared(s) PROVE TypeOK'
  <2>1. s \in Servers /\ Len(outbox[s]) > 0
    BY <1>a, <1>19 DEF ConsumePrepared, Admission
  <2>2. Tail(outbox[s]) \in Seq(Records)
    BY <1>a, <2>1
  <2> QED
    BY <1>a, <1>19, <2>1, <2>2 DEF ConsumePrepared
<1>20. ASSUME NEW s \in Alive, ReportLost(s) PROVE TypeOK'
  BY <1>a, <1>b, <1>20 DEF ReportLost
<1>21. ASSUME NEW s \in Servers, DrainGameServer(s) PROVE TypeOK'
  BY <1>a, <1>b, <1>21 DEF DrainGameServer
<1>22. ASSUME NEW s \in Servers, ListPending(s) PROVE TypeOK'
  BY <1>a, <1>b, <1>22 DEF ListPending
<1>23. ASSUME NEW s \in Servers, ClearPending(s) PROVE TypeOK'
  BY <1>a, <1>b, <1>23 DEF ClearPending
<1>24. ASSUME NEW s \in Servers, QueueDrainCleanup(s) PROVE TypeOK'
  BY <1>a, <1>b, <1>24, SMTT(30) DEF QueueDrainCleanup
<1> QED
  BY <1>1, <1>2, <1>3, <1>4, <1>5, <1>6, <1>7, <1>8, <1>9, <1>10, <1>11, <1>12,
     <1>13, <1>14, <1>15, <1>16, <1>17, <1>18, <1>19, <1>20, <1>21, <1>22, <1>23, <1>24
  DEF Next, TaskStep, DrainStep

\* Steps place a record where only its server can find it.
LEMMA StepPlacement == IndInv /\ [Next]_vars => Placement'
<1> SUFFICES ASSUME IndInv, [Next]_vars PROVE Placement'
  OBVIOUS
<1> USE LobbyAssumption DEF Goto, NextMember, GiveUp, AdminStep, Fault, taskVars, bucketVars,
        serverVars, drainVars, jobVars,
        TypeOK, Attempts, Members, Records, Record, Target, RecordsOf, WaitLabels, CleanupLabels
<1>a. TypeOK /\ Placement /\ WaitedAreAdmitted
  BY DEF IndInv
<1>b. /\ Record \in Records
      /\ Target \in Servers \cup {NoServer}
      /\ pc \notin {"idle", "allocate", "failed"} => Target \in Servers
  BY <1>a, RecordIsRecord DEF Placement
<1>1. CASE UNCHANGED vars
  BY <1>a, <1>b, <1>1 DEF vars, Placement
<1>2. CASE AssignLobby
  BY <1>a, <1>b, <1>2 DEF AssignLobby, Placement
<1>3. CASE Allocate
  BY <1>a, <1>b, <1>3 DEF Allocate, Candidates, Placement
<1>4. CASE NoCapacity
  BY <1>a, <1>b, <1>4 DEF NoCapacity, Candidates, Placement
<1>5. CASE PutByServer
  BY <1>a, <1>b, <1>5 DEF PutByServer, Placement
<1>6. CASE PutByClient
  BY <1>a, <1>b, <1>6 DEF PutByClient, Placement
<1>7. CASE CheckDrain
  BY <1>a, <1>b, <1>7 DEF CheckDrain, Placement
<1>8. CASE ReadAck
  BY <1>a, <1>b, <1>8 DEF ReadAck, Placement
<1>9. CASE PrepareTimeout
  BY <1>a, <1>b, <1>9 DEF PrepareTimeout, Placement
<1>10. CASE Grant
  BY <1>a, <1>b, <1>10 DEF Grant, Placement
<1>11. CASE DeletePending
  <2>1. Target \in Servers
    BY <1>b, <1>11 DEF DeletePending
  <2>2. byServer' \in {byServer, [byServer EXCEPT ![Target] = @ \ {Record}]}
    BY <1>11 DEF DeletePending
  <2>3. \A s \in Servers : byServer'[s] \subseteq byServer[s]
    <3>1. CASE byServer' = byServer
      BY <3>1
    <3>2. CASE byServer' = [byServer EXCEPT ![Target] = @ \ {Record}]
      <4>1. ASSUME NEW s \in Servers PROVE byServer'[s] \in {byServer[s], byServer[s] \ {Record}}
        BY <1>a, <2>1, <3>2
      <4> QED
        BY <4>1
    <3> QED
      BY <2>2, <3>1, <3>2
  <2>4. /\ pc = "delete_pending" /\ pc' = "delete_ack"
        /\ UNCHANGED <<attempt, server, seen, canceled>>
    BY <1>11 DEF DeletePending
  <2> QED
    BY <1>a, <2>3, <2>4 DEF Placement
<1>12. CASE DeleteAck
  BY <1>a, <1>b, <1>12 DEF DeleteAck, Placement
<1>13. CASE EnqueueDelete
  BY <1>a, <1>b, <1>13 DEF EnqueueDelete, Placement
<1>14. CASE EnqueueRelease
  BY <1>a, <1>b, <1>14, SMTT(30) DEF EnqueueRelease, Placement
<1>15. CASE TaskError
  BY <1>a, <1>b, <1>15 DEF TaskError, Placement
<1>16. ASSUME NEW s \in Alive, PollAssignments(s) PROVE Placement'
  BY <1>a, <1>b, <1>16 DEF PollAssignments, Placement
<1>17. ASSUME NEW s \in Alive, RegisterAssignment(s) PROVE Placement'
  BY <1>a, <1>b, <1>17 DEF RegisterAssignment, Placement
<1>18. ASSUME NEW s \in Alive, PublishPrepared(s) PROVE Placement'
  BY <1>a, <1>b, <1>18 DEF PublishPrepared, Placement
<1>19. ASSUME NEW s \in Alive, ConsumePrepared(s) PROVE Placement'
  BY <1>a, <1>b, <1>19 DEF ConsumePrepared, Placement
<1>20. ASSUME NEW s \in Alive, ReportLost(s) PROVE Placement'
  BY <1>a, <1>b, <1>20 DEF ReportLost, Placement
<1>21. ASSUME NEW s \in Servers, DrainGameServer(s) PROVE Placement'
  BY <1>a, <1>b, <1>21 DEF DrainGameServer, Placement
<1>22. ASSUME NEW s \in Servers, ListPending(s) PROVE Placement'
  BY <1>a, <1>b, <1>22 DEF ListPending, Placement
<1>23. ASSUME NEW s \in Servers, ClearPending(s) PROVE Placement'
  BY <1>a, <1>b, <1>23 DEF ClearPending, Placement
<1>24. ASSUME NEW s \in Servers, QueueDrainCleanup(s) PROVE Placement'
  BY <1>a, <1>b, <1>24 DEF QueueDrainCleanup, Placement
<1> QED
  BY <1>1, <1>2, <1>3, <1>4, <1>5, <1>6, <1>7, <1>8, <1>9, <1>10, <1>11, <1>12,
     <1>13, <1>14, <1>15, <1>16, <1>17, <1>18, <1>19, <1>20, <1>21, <1>22, <1>23, <1>24
  DEF Next, TaskStep, DrainStep

\* What is acknowledged stays admitted by the server it was put for.
LEMMA StepAdmission == IndInv /\ [Next]_vars => Admission'
<1> SUFFICES ASSUME IndInv, [Next]_vars PROVE Admission'
  OBVIOUS
<1> USE LobbyAssumption DEF Goto, NextMember, GiveUp, AdminStep, Fault, taskVars, bucketVars,
        serverVars, drainVars, jobVars,
        TypeOK, Attempts, Members, Records, Record, Target, RecordsOf, WaitLabels, CleanupLabels
<1>a. TypeOK /\ Placement /\ Admission
  BY DEF IndInv
<1>b. /\ Record \in Records
      /\ Target \in Servers \cup {NoServer}
      /\ pc \notin {"idle", "allocate", "failed"} => Target \in Servers
  BY <1>a, RecordIsRecord DEF Placement
<1>1. CASE UNCHANGED vars
  BY <1>a, <1>b, <1>1 DEF vars, Admission
<1>2. CASE AssignLobby
  BY <1>a, <1>b, <1>2 DEF AssignLobby, Admission
<1>3. CASE Allocate
  <2>1. \A r \in acks : r \in Attempts \X Members /\ r[1] # attempt
    BY <1>a, <1>3 DEF Allocate, Placement, Admission
  <2>2. \A r \in acks : server'[r[1]] = server[r[1]]
    BY <1>a, <1>3, <2>1 DEF Allocate, Candidates
  <2> QED
    BY <1>a, <1>3, <2>2 DEF Allocate, Admission
<1>4. CASE NoCapacity
  BY <1>a, <1>b, <1>4 DEF NoCapacity, Candidates, Admission
<1>5. CASE PutByServer
  BY <1>a, <1>b, <1>5 DEF PutByServer, Admission
<1>6. CASE PutByClient
  BY <1>a, <1>b, <1>6 DEF PutByClient, Admission
<1>7. CASE CheckDrain
  BY <1>a, <1>b, <1>7 DEF CheckDrain, Admission
<1>8. CASE ReadAck
  BY <1>a, <1>b, <1>8 DEF ReadAck, Admission
<1>9. CASE PrepareTimeout
  BY <1>a, <1>b, <1>9 DEF PrepareTimeout, Admission
<1>10. CASE Grant
  BY <1>a, <1>b, <1>10 DEF Grant, Admission
<1>11. CASE DeletePending
  BY <1>a, <1>b, <1>11 DEF DeletePending, Admission
<1>12. CASE DeleteAck
  BY <1>a, <1>b, <1>12 DEF DeleteAck, Admission
<1>13. CASE EnqueueDelete
  BY <1>a, <1>b, <1>13 DEF EnqueueDelete, Admission
<1>14. CASE EnqueueRelease
  BY <1>a, <1>b, <1>14 DEF EnqueueRelease, Admission
<1>15. CASE TaskError
  BY <1>a, <1>b, <1>15 DEF TaskError, Admission
<1>16. ASSUME NEW s \in Alive, PollAssignments(s) PROVE Admission'
  BY <1>a, <1>b, <1>16 DEF PollAssignments, Admission
<1>17. ASSUME NEW s \in Alive, RegisterAssignment(s) PROVE Admission'
  <2>1. PICK r \in seen[s] \ gate[s] :
          /\ gate' = [gate EXCEPT ![s] = @ \cup {r}]
          /\ outbox' = [outbox EXCEPT ![s] = Append(@, r)]
    BY <1>17 DEF RegisterAssignment
  <2>2. UNCHANGED <<seen, bridge, acks, server>>
    BY <1>17 DEF RegisterAssignment
  <2>3. s \in Servers
    OBVIOUS
  <2>4. \A t \in Servers : gate[t] \subseteq gate'[t] /\ gate'[t] \subseteq seen'[t]
    BY <1>a, <2>1, <2>2, <2>3 DEF Admission
  <2>5. /\ outbox[s] \in Seq(Attempts \X Members) /\ r \in Attempts \X Members
        /\ r \in gate'[s]
        /\ outbox'[s] = Append(outbox[s], r)
    BY <1>a, <2>1, <2>3
  <2>6. \A i \in 1..Len(outbox'[s]) : outbox'[s][i] \in gate'[s]
    <3>1. \A i \in 1..Len(outbox[s]) : outbox[s][i] \in gate'[s]
      BY <1>a, <2>3, <2>4 DEF Admission
    <3> QED
      BY <2>5, <3>1
  <2>7. Len(outbox'[s]) > 0
    BY <2>5
  <2>8. \A t \in Servers \ {s} : outbox'[t] = outbox[t]
    BY <1>a, <2>1
  <2> QED
    BY <1>a, <2>2, <2>4, <2>6, <2>7, <2>8 DEF Admission
<1>18. ASSUME NEW s \in Alive, PublishPrepared(s) PROVE Admission'
  <2>1. /\ s \in Servers
        /\ outbox[s] \in Seq(Attempts \X Members)
        /\ outbox[s] # <<>>
    BY <1>a, <1>18 DEF PublishPrepared
  <2>2. Head(outbox[s]) \in gate[s]
    BY <1>a, <2>1 DEF Admission
  <2>3. server[Head(outbox[s])[1]] = s
    BY <1>a, <2>1, <2>2 DEF Placement, Admission
  <2> QED
    BY <1>a, <1>18, <2>1, <2>2, <2>3, SMTT(30) DEF PublishPrepared, Admission
<1>19. ASSUME NEW s \in Alive, ConsumePrepared(s) PROVE Admission'
  <2>1. /\ s \in Servers
        /\ outbox[s] \in Seq(Attempts \X Members)
        /\ Len(outbox[s]) > 0
    BY <1>a, <1>19 DEF ConsumePrepared, Admission
  <2>2. \A i \in 1..Len(Tail(outbox[s])) : Tail(outbox[s])[i] \in gate[s]
    BY <1>a, <2>1 DEF Admission
  <2>3. /\ outbox' = [outbox EXCEPT ![s] = Tail(outbox[s])]
        /\ bridge' = [bridge EXCEPT ![s] = "idle"]
        /\ UNCHANGED <<acks, seen, gate, server>>
    BY <1>19 DEF ConsumePrepared
  <2> QED
    BY <1>a, <2>1, <2>2, <2>3 DEF Admission
<1>20. ASSUME NEW s \in Alive, ReportLost(s) PROVE Admission'
  <2>1. /\ s \in Servers
        /\ outbox[s] \in Seq(Attempts \X Members)
        /\ Len(outbox[s]) > 0
    BY <1>a, <1>20, SMTT(30) DEF ReportLost, Admission
  <2>2. \A i \in 1..Len(Tail(outbox[s])) : Tail(outbox[s])[i] \in gate[s]
    BY <1>a, <2>1 DEF Admission
  <2>3. /\ outbox' = [outbox EXCEPT ![s] = Tail(outbox[s])]
        /\ bridge' = [bridge EXCEPT ![s] = "idle"]
        /\ UNCHANGED <<acks, seen, gate, server>>
    BY <1>20 DEF ReportLost
  <2> QED
    BY <1>a, <2>1, <2>2, <2>3 DEF Admission
<1>21. ASSUME NEW s \in Servers, DrainGameServer(s) PROVE Admission'
  BY <1>a, <1>b, <1>21 DEF DrainGameServer, Admission
<1>22. ASSUME NEW s \in Servers, ListPending(s) PROVE Admission'
  BY <1>a, <1>b, <1>22 DEF ListPending, Admission
<1>23. ASSUME NEW s \in Servers, ClearPending(s) PROVE Admission'
  BY <1>a, <1>b, <1>23 DEF ClearPending, Admission
<1>24. ASSUME NEW s \in Servers, QueueDrainCleanup(s) PROVE Admission'
  BY <1>a, <1>b, <1>24 DEF QueueDrainCleanup, Admission
<1> QED
  BY <1>1, <1>2, <1>3, <1>4, <1>5, <1>6, <1>7, <1>8, <1>9, <1>10, <1>11, <1>12,
     <1>13, <1>14, <1>15, <1>16, <1>17, <1>18, <1>19, <1>20, <1>21, <1>22, <1>23, <1>24
  DEF Next, TaskStep, DrainStep

\* The wait moves on to the next member only past an admitted one.
LEMMA StepWaited == IndInv /\ [Next]_vars => WaitedAreAdmitted'
<1> SUFFICES ASSUME IndInv, [Next]_vars PROVE WaitedAreAdmitted'
  OBVIOUS
<1> USE LobbyAssumption DEF Goto, NextMember, GiveUp, AdminStep, Fault, taskVars, bucketVars,
        serverVars, drainVars, jobVars,
        TypeOK, Attempts, Members, Records, Record, Target, RecordsOf, WaitLabels, CleanupLabels
<1>a. TypeOK /\ Placement /\ Admission /\ WaitedAreAdmitted /\ GrantsAreWhole
  BY DEF IndInv
<1>b. /\ Record \in Records
      /\ Target \in Servers \cup {NoServer}
      /\ pc \notin {"idle", "allocate", "failed"} => Target \in Servers
  BY <1>a, RecordIsRecord DEF Placement
<1>1. CASE UNCHANGED vars
  BY <1>a, <1>b, <1>1 DEF vars, WaitedAreAdmitted
<1>2. CASE AssignLobby
  BY <1>a, <1>b, <1>2 DEF AssignLobby, WaitedAreAdmitted
<1>3. CASE Allocate
  BY <1>a, <1>b, <1>3 DEF Allocate, Candidates, WaitedAreAdmitted
<1>4. CASE NoCapacity
  BY <1>a, <1>b, <1>4 DEF NoCapacity, Candidates, WaitedAreAdmitted
<1>5. CASE PutByServer
  BY <1>a, <1>b, <1>5 DEF PutByServer, WaitedAreAdmitted
<1>6. CASE PutByClient
  BY <1>a, <1>b, <1>6, SMTT(30) DEF PutByClient, WaitedAreAdmitted
<1>7. CASE CheckDrain
  BY <1>a, <1>b, <1>7 DEF CheckDrain, WaitedAreAdmitted
<1>8. CASE ReadAck
  <2>1. /\ pc = "read_ack" /\ Target \in Servers
        /\ UNCHANGED <<attempt, server, granted, gate>>
        /\ granted = {}
    BY <1>a, <1>b, <1>8 DEF ReadAck, WaitedAreAdmitted
  <2>2. \A m \in 1..(member - 1) : <<attempt, m>> \in gate[Target]
    BY <1>a, <2>1 DEF WaitedAreAdmitted
  <2>3. CASE Record \in acks
    <3>1. <<attempt, member>> \in gate[Target]
      BY <1>a, <2>1, <2>3 DEF Admission
    <3>2. CASE member < Size
      <4>1. member' = member + 1 /\ pc' = "check_drain"
        BY <1>8, <2>3, <3>2 DEF ReadAck
      <4>2. \A m \in 1..member : <<attempt, m>> \in gate[Target]
        <5>1. ASSUME NEW m \in 1..member PROVE m = member \/ m \in 1..(member - 1)
          BY <1>a
        <5> QED
          BY <2>2, <3>1, <5>1
      <4> QED
        BY <1>a, <2>1, <4>1, <4>2 DEF WaitedAreAdmitted
    <3>3. CASE ~(member < Size)
      BY <1>8, <2>1, <2>3, <3>3 DEF ReadAck, WaitedAreAdmitted
    <3> QED
      BY <3>2, <3>3
  <2>4. CASE Record \notin acks
    BY <1>8, <2>1, <2>2, <2>4 DEF ReadAck, WaitedAreAdmitted
  <2> QED
    BY <2>3, <2>4
<1>9. CASE PrepareTimeout
  BY <1>a, <1>b, <1>9 DEF PrepareTimeout, WaitedAreAdmitted
<1>10. CASE Grant
  BY <1>a, <1>b, <1>10 DEF Grant, WaitedAreAdmitted
<1>11. CASE DeletePending
  BY <1>a, <1>b, <1>11 DEF DeletePending, WaitedAreAdmitted
<1>12. CASE DeleteAck
  BY <1>a, <1>b, <1>12 DEF DeleteAck, WaitedAreAdmitted
<1>13. CASE EnqueueDelete
  BY <1>a, <1>b, <1>13 DEF EnqueueDelete, WaitedAreAdmitted
<1>14. CASE EnqueueRelease
  BY <1>a, <1>b, <1>14 DEF EnqueueRelease, WaitedAreAdmitted
<1>15. CASE TaskError
  BY <1>a, <1>b, <1>15 DEF TaskError, WaitedAreAdmitted
<1>16. ASSUME NEW s \in Alive, PollAssignments(s) PROVE WaitedAreAdmitted'
  BY <1>a, <1>b, <1>16 DEF PollAssignments, WaitedAreAdmitted
<1>17. ASSUME NEW s \in Alive, RegisterAssignment(s) PROVE WaitedAreAdmitted'
  <2>1. \A t \in Servers : gate[t] \subseteq gate'[t]
    BY <1>a, <1>17 DEF RegisterAssignment
  <2>2. UNCHANGED <<pc, attempt, member, server, granted>>
    BY <1>17 DEF RegisterAssignment
  <2> QED
    BY <1>a, <1>b, <2>1, <2>2 DEF WaitedAreAdmitted
<1>18. ASSUME NEW s \in Alive, PublishPrepared(s) PROVE WaitedAreAdmitted'
  BY <1>a, <1>b, <1>18 DEF PublishPrepared, WaitedAreAdmitted
<1>19. ASSUME NEW s \in Alive, ConsumePrepared(s) PROVE WaitedAreAdmitted'
  BY <1>a, <1>b, <1>19 DEF ConsumePrepared, WaitedAreAdmitted
<1>20. ASSUME NEW s \in Alive, ReportLost(s) PROVE WaitedAreAdmitted'
  BY <1>a, <1>b, <1>20 DEF ReportLost, WaitedAreAdmitted
<1>21. ASSUME NEW s \in Servers, DrainGameServer(s) PROVE WaitedAreAdmitted'
  BY <1>a, <1>b, <1>21 DEF DrainGameServer, WaitedAreAdmitted
<1>22. ASSUME NEW s \in Servers, ListPending(s) PROVE WaitedAreAdmitted'
  BY <1>a, <1>b, <1>22 DEF ListPending, WaitedAreAdmitted
<1>23. ASSUME NEW s \in Servers, ClearPending(s) PROVE WaitedAreAdmitted'
  BY <1>a, <1>b, <1>23 DEF ClearPending, WaitedAreAdmitted
<1>24. ASSUME NEW s \in Servers, QueueDrainCleanup(s) PROVE WaitedAreAdmitted'
  BY <1>a, <1>b, <1>24 DEF QueueDrainCleanup, WaitedAreAdmitted
<1> QED
  BY <1>1, <1>2, <1>3, <1>4, <1>5, <1>6, <1>7, <1>8, <1>9, <1>10, <1>11, <1>12,
     <1>13, <1>14, <1>15, <1>16, <1>17, <1>18, <1>19, <1>20, <1>21, <1>22, <1>23, <1>24
  DEF Next, TaskStep, DrainStep

\* No step loses a record that was put before the wait.
LEMMA StepPuts == IndInv /\ [Next]_vars => PutsAreKept'
<1> SUFFICES ASSUME IndInv, [Next]_vars PROVE PutsAreKept'
  OBVIOUS
<1> USE LobbyAssumption DEF Goto, NextMember, GiveUp, AdminStep, Fault, taskVars, bucketVars,
        serverVars, drainVars, jobVars,
        TypeOK, Kept, Attempts, Members, Records, Record, Target, RecordsOf, WaitLabels, CleanupLabels
<1>a. TypeOK /\ Placement /\ Admission /\ PutsAreKept /\ ReleasesHaveCauses
  BY DEF IndInv
<1>b. /\ Record \in Records
      /\ Target \in Servers \cup {NoServer}
      /\ pc \notin {"idle", "allocate", "failed"} => Target \in Servers
  BY <1>a, RecordIsRecord DEF Placement
<1>1. CASE UNCHANGED vars
  BY <1>a, <1>b, <1>1 DEF vars, PutsAreKept
<1>2. CASE AssignLobby
  BY <1>a, <1>b, <1>2 DEF AssignLobby, PutsAreKept
<1>3. CASE Allocate
  BY <1>a, <1>b, <1>3 DEF Allocate, Candidates, PutsAreKept
<1>4. CASE NoCapacity
  BY <1>a, <1>b, <1>4 DEF NoCapacity, Candidates, PutsAreKept
<1>5. CASE PutByServer
  BY <1>a, <1>b, <1>5 DEF PutByServer, PutsAreKept
<1>6. CASE PutByClient
  BY <1>a, <1>b, <1>6 DEF PutByClient, PutsAreKept
<1>7. CASE CheckDrain
  BY <1>a, <1>b, <1>7 DEF CheckDrain, PutsAreKept
<1>8. CASE ReadAck
  BY <1>a, <1>b, <1>8 DEF ReadAck, PutsAreKept
<1>9. CASE PrepareTimeout
  BY <1>a, <1>b, <1>9 DEF PrepareTimeout, PutsAreKept
<1>10. CASE Grant
  BY <1>a, <1>b, <1>10 DEF Grant, PutsAreKept
<1>11. CASE DeletePending
  BY <1>a, <1>b, <1>11 DEF DeletePending, PutsAreKept
<1>12. CASE DeleteAck
  BY <1>a, <1>b, <1>12 DEF DeleteAck, PutsAreKept
<1>13. CASE EnqueueDelete
  BY <1>a, <1>b, <1>13 DEF EnqueueDelete, PutsAreKept
<1>14. CASE EnqueueRelease
  BY <1>a, <1>b, <1>14 DEF EnqueueRelease, PutsAreKept
<1>15. CASE TaskError
  BY <1>a, <1>b, <1>15 DEF TaskError, PutsAreKept
<1>16. ASSUME NEW s \in Alive, PollAssignments(s) PROVE PutsAreKept'
  BY <1>a, <1>b, <1>16 DEF PollAssignments, PutsAreKept
<1>17. ASSUME NEW s \in Alive, RegisterAssignment(s) PROVE PutsAreKept'
  BY <1>a, <1>b, <1>17 DEF RegisterAssignment, PutsAreKept
<1>18. ASSUME NEW s \in Alive, PublishPrepared(s) PROVE PutsAreKept'
  BY <1>a, <1>b, <1>18 DEF PublishPrepared, PutsAreKept
<1>19. ASSUME NEW s \in Alive, ConsumePrepared(s) PROVE PutsAreKept'
  <2>1. /\ s \in Servers
        /\ outbox[s] \in Seq(Attempts \X Members)
        /\ Len(outbox[s]) > 0
    BY <1>a, <1>19 DEF ConsumePrepared, Admission
  <2>2. Head(outbox[s]) \in seen[s]
    BY <1>a, <2>1 DEF Admission
  <2>3. \A t \in Servers : byServer[t] \subseteq byServer'[t] \cup seen[t]
    BY <1>a, <1>19, <2>1, <2>2 DEF ConsumePrepared
  <2>4. UNCHANGED <<pc, attempt, member, server, seen, drained>>
    BY <1>19 DEF ConsumePrepared
  <2> QED
    BY <1>a, <1>b, <2>3, <2>4 DEF PutsAreKept
<1>20. ASSUME NEW s \in Alive, ReportLost(s) PROVE PutsAreKept'
  BY <1>a, <1>b, <1>20 DEF ReportLost, PutsAreKept
<1>21. ASSUME NEW s \in Servers, DrainGameServer(s) PROVE PutsAreKept'
  BY <1>a, <1>b, <1>21 DEF DrainGameServer, PutsAreKept
<1>22. ASSUME NEW s \in Servers, ListPending(s) PROVE PutsAreKept'
  BY <1>a, <1>b, <1>22 DEF ListPending, PutsAreKept
<1>23. ASSUME NEW s \in Servers, ClearPending(s) PROVE PutsAreKept'
  <2>1. s \in drained
    BY <1>a, <1>23 DEF ClearPending, ReleasesHaveCauses
  <2>2. \A t \in Servers : byServer'[t] = byServer[t] \/ t = s
    BY <1>a, <1>23 DEF ClearPending
  <2>3. UNCHANGED <<pc, attempt, member, server, seen, drained>>
    BY <1>23 DEF ClearPending
  <2> QED
    BY <1>a, <1>b, <2>1, <2>2, <2>3 DEF PutsAreKept
<1>24. ASSUME NEW s \in Servers, QueueDrainCleanup(s) PROVE PutsAreKept'
  BY <1>a, <1>b, <1>24 DEF QueueDrainCleanup, PutsAreKept
<1> QED
  BY <1>1, <1>2, <1>3, <1>4, <1>5, <1>6, <1>7, <1>8, <1>9, <1>10, <1>11, <1>12,
     <1>13, <1>14, <1>15, <1>16, <1>17, <1>18, <1>19, <1>20, <1>21, <1>22, <1>23, <1>24
  DEF Next, TaskStep, DrainStep

\* Each release job has a cause of its own.
LEMMA StepReleases == IndInv /\ [Next]_vars => ReleasesHaveCauses'
<1> SUFFICES ASSUME IndInv, [Next]_vars PROVE ReleasesHaveCauses'
  OBVIOUS
<1> USE LobbyAssumption DEF Goto, NextMember, GiveUp, AdminStep, Fault, taskVars, bucketVars,
        serverVars, drainVars, jobVars,
        TypeOK, OwnRelease, DrainRelease, Attempts, Members, Records, Record, Target, RecordsOf, WaitLabels, CleanupLabels
<1>a. TypeOK /\ Placement /\ ReleasesHaveCauses
  BY DEF IndInv
<1>b. /\ Record \in Records
      /\ Target \in Servers \cup {NoServer}
      /\ pc \notin {"idle", "allocate", "failed"} => Target \in Servers
  BY <1>a, RecordIsRecord DEF Placement
<1>c. \A a \in Attempts : releases[a] \in Nat /\ OwnRelease(a) \in Nat /\ DrainRelease(a) \in Nat
  BY <1>a
<1>1. CASE UNCHANGED vars
  BY <1>a, <1>b, <1>1 DEF vars, ReleasesHaveCauses
<1>2. CASE AssignLobby
  BY <1>a, <1>b, <1>2 DEF AssignLobby, ReleasesHaveCauses
<1>3. CASE Allocate
  <2>1. /\ UNCHANGED <<attempt, releases, admin, drained>>
        /\ pc = "allocate" /\ pc' = "put_by_server"
        /\ server[attempt] = NoServer
    BY <1>a, <1>3 DEF Allocate, Placement
  <2>2. \A a \in Attempts : server'[a] = server[a] \/ (server[a] = NoServer /\ a = attempt)
    BY <1>a, <1>3, <2>1 DEF Allocate, Candidates
  <2>3. ASSUME NEW a \in Attempts
        PROVE  releases'[a] <= OwnRelease(a)' + DrainRelease(a)'
    <3>1. DrainRelease(a) <= DrainRelease(a)'
      <4>1. ASSUME NEW s \in Servers, server[a] = s PROVE server'[a] = s
        BY <1>a, <2>1, <2>2, <4>1
      <4> QED
        BY <2>1, <4>1
    <3>2. OwnRelease(a) = OwnRelease(a)'
      BY <2>1
    <3> QED
      BY <1>a, <1>c, <2>1, <3>1, <3>2, SMTT(30) DEF ReleasesHaveCauses
  <2> QED
    BY <1>a, <2>1, <2>3 DEF ReleasesHaveCauses
<1>4. CASE NoCapacity
  <2>1. /\ UNCHANGED <<attempt, releases, admin, drained, server>>
        /\ pc = "allocate" /\ pc' = "failed"
    BY <1>4 DEF NoCapacity
  <2> QED
    BY <1>a, <1>c, <2>1 DEF ReleasesHaveCauses
<1>5. CASE PutByServer
  BY <1>a, <1>b, <1>5 DEF PutByServer, ReleasesHaveCauses
<1>6. CASE PutByClient
  BY <1>a, <1>b, <1>6 DEF PutByClient, ReleasesHaveCauses
<1>7. CASE CheckDrain
  BY <1>a, <1>b, <1>7 DEF CheckDrain, ReleasesHaveCauses
<1>8. CASE ReadAck
  BY <1>a, <1>b, <1>8 DEF ReadAck, ReleasesHaveCauses
<1>9. CASE PrepareTimeout
  BY <1>a, <1>b, <1>9 DEF PrepareTimeout, ReleasesHaveCauses
<1>10. CASE Grant
  BY <1>a, <1>b, <1>10 DEF Grant, ReleasesHaveCauses
<1>11. CASE DeletePending
  BY <1>a, <1>b, <1>11 DEF DeletePending, ReleasesHaveCauses
<1>12. CASE DeleteAck
  BY <1>a, <1>b, <1>12 DEF DeleteAck, ReleasesHaveCauses
<1>13. CASE EnqueueDelete
  BY <1>a, <1>b, <1>13 DEF EnqueueDelete, ReleasesHaveCauses
<1>14. CASE EnqueueRelease
  <2>1. UNCHANGED <<admin, drained, server>> /\ pc = "enqueue_release"
    BY <1>14 DEF EnqueueRelease
  <2>2. /\ attempt' >= attempt
        /\ attempt' = attempt => pc' = "failed"
    BY <1>a, <1>14 DEF EnqueueRelease
  <2>3. \A a \in Attempts : releases'[a] <= releases[a] + (IF a = attempt THEN 1 ELSE 0)
    BY <1>a, <1>14 DEF EnqueueRelease
  <2>4. /\ attempt' \in Nat
        /\ releases' \in [Attempts -> Nat]
    BY <1>a, <1>14, SMTT(30) DEF EnqueueRelease
  <2>5. /\ \A a \in Attempts : DrainRelease(a)' = DrainRelease(a)
        /\ \A a \in Attempts : OwnRelease(a) + (IF a = attempt THEN 1 ELSE 0) <= OwnRelease(a)'
    BY <1>a, <2>1, <2>2, <2>4
  <2>6. ASSUME NEW a \in Attempts
        PROVE  releases'[a] <= OwnRelease(a)' + DrainRelease(a)'
    <3>1. /\ releases[a] <= OwnRelease(a) + DrainRelease(a)
          /\ OwnRelease(a)' \in Nat
      BY <1>a, <2>4 DEF ReleasesHaveCauses
    <3>2. releases'[a] \in Nat /\ releases[a] \in Nat /\ DrainRelease(a)' = DrainRelease(a)
      BY <1>a, <2>4, <2>5
    <3> HIDE DEF OwnRelease, DrainRelease
    <3>3. OwnRelease(a) \in Nat /\ DrainRelease(a) \in Nat
      BY <1>c
    <3>4. CASE a = attempt
      <4>1. releases'[a] <= releases[a] + 1 /\ OwnRelease(a) + 1 <= OwnRelease(a)'
        BY <2>3, <2>5, <3>4
      <4> QED
        BY <3>1, <3>2, <3>3, <4>1
    <3>5. CASE a # attempt
      <4>1. releases'[a] <= releases[a] + 0 /\ OwnRelease(a) + 0 <= OwnRelease(a)'
        BY <2>3, <2>5, <3>5
      <4> QED
        BY <3>1, <3>2, <3>3, <4>1
    <3> QED
      BY <3>4, <3>5
  <2> QED
    BY <1>a, <2>1, <2>6 DEF ReleasesHaveCauses
<1>15. CASE TaskError
  <2>1. /\ UNCHANGED <<attempt, releases, admin, drained, server>>
        /\ pc # "failed"
    BY <1>15 DEF TaskError
  <2> QED
    BY <1>a, <1>c, <2>1 DEF ReleasesHaveCauses
<1>16. ASSUME NEW s \in Alive, PollAssignments(s) PROVE ReleasesHaveCauses'
  BY <1>a, <1>b, <1>16 DEF PollAssignments, ReleasesHaveCauses
<1>17. ASSUME NEW s \in Alive, RegisterAssignment(s) PROVE ReleasesHaveCauses'
  BY <1>a, <1>b, <1>17 DEF RegisterAssignment, ReleasesHaveCauses
<1>18. ASSUME NEW s \in Alive, PublishPrepared(s) PROVE ReleasesHaveCauses'
  BY <1>a, <1>b, <1>18 DEF PublishPrepared, ReleasesHaveCauses
<1>19. ASSUME NEW s \in Alive, ConsumePrepared(s) PROVE ReleasesHaveCauses'
  BY <1>a, <1>b, <1>19 DEF ConsumePrepared, ReleasesHaveCauses
<1>20. ASSUME NEW s \in Alive, ReportLost(s) PROVE ReleasesHaveCauses'
  BY <1>a, <1>b, <1>20 DEF ReportLost, ReleasesHaveCauses
<1>21. ASSUME NEW s \in Servers, DrainGameServer(s) PROVE ReleasesHaveCauses'
  BY <1>a, <1>b, <1>21 DEF DrainGameServer, ReleasesHaveCauses
<1>22. ASSUME NEW s \in Servers, ListPending(s) PROVE ReleasesHaveCauses'
  BY <1>a, <1>b, <1>22 DEF ListPending, ReleasesHaveCauses
<1>23. ASSUME NEW s \in Servers, ClearPending(s) PROVE ReleasesHaveCauses'
  BY <1>a, <1>b, <1>23 DEF ClearPending, ReleasesHaveCauses
<1>24. ASSUME NEW s \in Servers, QueueDrainCleanup(s) PROVE ReleasesHaveCauses'
  <2>1. /\ UNCHANGED <<pc, attempt, server, drained>>
        /\ admin[s] = "queue_cleanup"
        /\ admin' = [admin EXCEPT ![s] = "done"]
    BY <1>24 DEF QueueDrainCleanup
  <2>2. s \in drained
    BY <1>a, <2>1 DEF ReleasesHaveCauses
  <2>3. ASSUME NEW a \in Attempts
        PROVE  releases'[a] <= OwnRelease(a)' + DrainRelease(a)'
    <3>1. CASE \E r \in canceled[s] : r[1] = a
      <4>1. server[a] = s
        BY <1>a, <3>1 DEF Placement
      <4>2. DrainRelease(a) = 0 /\ DrainRelease(a)' = 1
        BY <1>a, <2>1, <4>1
      <4>3. releases'[a] = releases[a] + 1
        BY <1>a, <1>24, <3>1 DEF QueueDrainCleanup
      <4> QED
        BY <1>a, <1>c, <2>1, <4>2, <4>3 DEF ReleasesHaveCauses
    <3>2. CASE ~\E r \in canceled[s] : r[1] = a
      <4>1. releases'[a] = releases[a]
        BY <1>a, <1>24, <3>2 DEF QueueDrainCleanup
      <4>2. DrainRelease(a) <= DrainRelease(a)'
        BY <1>a, <2>1
      <4> QED
        BY <1>a, <1>c, <2>1, <4>1, <4>2 DEF ReleasesHaveCauses
    <3> QED
      BY <3>1, <3>2
  <2> QED
    BY <1>a, <2>1, <2>2, <2>3 DEF ReleasesHaveCauses
<1> QED
  BY <1>1, <1>2, <1>3, <1>4, <1>5, <1>6, <1>7, <1>8, <1>9, <1>10, <1>11, <1>12,
     <1>13, <1>14, <1>15, <1>16, <1>17, <1>18, <1>19, <1>20, <1>21, <1>22, <1>23, <1>24
  DEF Next, TaskStep, DrainStep

\* Gates only grow, and grants begin when the last member is admitted.
LEMMA StepGrants == IndInv /\ [Next]_vars => GrantsAreWhole'
<1> SUFFICES ASSUME IndInv, [Next]_vars PROVE GrantsAreWhole'
  OBVIOUS
<1> USE LobbyAssumption DEF Goto, NextMember, GiveUp, AdminStep, Fault, taskVars, bucketVars,
        serverVars, drainVars, jobVars,
        TypeOK, Attempts, Members, Records, Record, Target, RecordsOf, WaitLabels, CleanupLabels
<1>a. TypeOK /\ Placement /\ Admission /\ WaitedAreAdmitted /\ GrantsAreWhole
  BY DEF IndInv
<1>b. /\ Record \in Records
      /\ Target \in Servers \cup {NoServer}
      /\ pc \notin {"idle", "allocate", "failed"} => Target \in Servers
  BY <1>a, RecordIsRecord DEF Placement
<1>1. CASE UNCHANGED vars
  BY <1>a, <1>b, <1>1 DEF vars, GrantsAreWhole
<1>2. CASE AssignLobby
  BY <1>a, <1>b, <1>2 DEF AssignLobby, GrantsAreWhole
<1>3. CASE Allocate
  <2>1. granted' = {} /\ pc' = "put_by_server"
    BY <1>a, <1>3 DEF Allocate, WaitedAreAdmitted
  <2> QED
    BY <2>1 DEF GrantsAreWhole
<1>4. CASE NoCapacity
  BY <1>a, <1>b, <1>4 DEF NoCapacity, Candidates, GrantsAreWhole
<1>5. CASE PutByServer
  BY <1>a, <1>b, <1>5 DEF PutByServer, GrantsAreWhole
<1>6. CASE PutByClient
  BY <1>a, <1>b, <1>6 DEF PutByClient, GrantsAreWhole
<1>7. CASE CheckDrain
  BY <1>a, <1>b, <1>7 DEF CheckDrain, GrantsAreWhole
<1>8. CASE ReadAck
  <2>1. /\ pc = "read_ack" /\ Target \in Servers
        /\ UNCHANGED <<attempt, server, granted, gate>>
        /\ granted = {}
    BY <1>a, <1>b, <1>8 DEF ReadAck, WaitedAreAdmitted
  <2>2. CASE Record \in acks /\ ~(member < Size)
    <3>1. member = Size
      BY <1>a, <2>2
    <3>2. <<attempt, member>> \in gate[Target]
      BY <1>a, <2>1, <2>2 DEF Admission
    <3>3. \A m \in 1..(member - 1) : <<attempt, m>> \in gate[Target]
      BY <1>a, <2>1 DEF WaitedAreAdmitted
    <3>4. \A m \in 1..Size : <<attempt, m>> \in gate[Target]
      <4>1. ASSUME NEW m \in 1..Size PROVE m = member \/ m \in 1..(member - 1)
        BY <1>a, <3>1
      <4> QED
        BY <3>2, <3>3, <4>1
    <3> QED
      BY <1>a, <2>1, <3>4 DEF GrantsAreWhole
  <2>3. CASE ~(Record \in acks /\ ~(member < Size))
    <3>1. pc' = "check_drain"
      BY <1>8, <2>3 DEF ReadAck
    <3> QED
      BY <2>1, <3>1 DEF GrantsAreWhole
  <2> QED
    BY <2>2, <2>3
<1>9. CASE PrepareTimeout
  BY <1>a, <1>b, <1>9 DEF PrepareTimeout, GrantsAreWhole
<1>10. CASE Grant
  BY <1>a, <1>b, <1>10 DEF Grant, GrantsAreWhole
<1>11. CASE DeletePending
  BY <1>a, <1>b, <1>11 DEF DeletePending, GrantsAreWhole
<1>12. CASE DeleteAck
  BY <1>a, <1>b, <1>12 DEF DeleteAck, GrantsAreWhole
<1>13. CASE EnqueueDelete
  BY <1>a, <1>b, <1>13 DEF EnqueueDelete, GrantsAreWhole
<1>14. CASE EnqueueRelease
  <2>1. granted' = {} /\ pc' \in {"allocate", "failed"}
    BY <1>a, <1>14 DEF EnqueueRelease, WaitedAreAdmitted
  <2> QED
    BY <2>1 DEF GrantsAreWhole
<1>15. CASE TaskError
  BY <1>a, <1>b, <1>15 DEF TaskError, GrantsAreWhole
<1>16. ASSUME NEW s \in Alive, PollAssignments(s) PROVE GrantsAreWhole'
  BY <1>a, <1>b, <1>16 DEF PollAssignments, GrantsAreWhole
<1>17. ASSUME NEW s \in Alive, RegisterAssignment(s) PROVE GrantsAreWhole'
  <2>1. \A t \in Servers : gate[t] \subseteq gate'[t]
    BY <1>a, <1>17 DEF RegisterAssignment
  <2>2. UNCHANGED <<pc, attempt, server, granted>>
    BY <1>17 DEF RegisterAssignment
  <2>3. (pc \in {"grant", "granted"} \/ granted # {}) => Target \in Servers
    BY <1>a, <1>b DEF WaitedAreAdmitted
  <2> QED
    BY <1>a, <2>1, <2>2, <2>3 DEF GrantsAreWhole
<1>18. ASSUME NEW s \in Alive, PublishPrepared(s) PROVE GrantsAreWhole'
  BY <1>a, <1>b, <1>18 DEF PublishPrepared, GrantsAreWhole
<1>19. ASSUME NEW s \in Alive, ConsumePrepared(s) PROVE GrantsAreWhole'
  BY <1>a, <1>b, <1>19 DEF ConsumePrepared, GrantsAreWhole
<1>20. ASSUME NEW s \in Alive, ReportLost(s) PROVE GrantsAreWhole'
  BY <1>a, <1>b, <1>20 DEF ReportLost, GrantsAreWhole
<1>21. ASSUME NEW s \in Servers, DrainGameServer(s) PROVE GrantsAreWhole'
  BY <1>a, <1>b, <1>21 DEF DrainGameServer, GrantsAreWhole
<1>22. ASSUME NEW s \in Servers, ListPending(s) PROVE GrantsAreWhole'
  BY <1>a, <1>b, <1>22 DEF ListPending, GrantsAreWhole
<1>23. ASSUME NEW s \in Servers, ClearPending(s) PROVE GrantsAreWhole'
  BY <1>a, <1>b, <1>23 DEF ClearPending, GrantsAreWhole
<1>24. ASSUME NEW s \in Servers, QueueDrainCleanup(s) PROVE GrantsAreWhole'
  BY <1>a, <1>b, <1>24 DEF QueueDrainCleanup, GrantsAreWhole
<1> QED
  BY <1>1, <1>2, <1>3, <1>4, <1>5, <1>6, <1>7, <1>8, <1>9, <1>10, <1>11, <1>12,
     <1>13, <1>14, <1>15, <1>16, <1>17, <1>18, <1>19, <1>20, <1>21, <1>22, <1>23, <1>24
  DEF Next, TaskStep, DrainStep

\* No step loses a record the task waits for.
LEMMA StepWaiting == IndInv /\ [Next]_vars => WaitingIsNotLost'
<1> SUFFICES ASSUME IndInv, [Next]_vars PROVE WaitingIsNotLost'
  OBVIOUS
<1> USE LobbyAssumption DEF Goto, NextMember, GiveUp, AdminStep, Fault, taskVars, bucketVars,
        serverVars, drainVars, jobVars,
        TypeOK, Kept, Attempts, Members, Records, Record, Target, RecordsOf, WaitLabels, CleanupLabels
<1>a. TypeOK /\ Placement /\ Admission /\ PutsAreKept /\ ReleasesHaveCauses /\ WaitingIsNotLost
  BY DEF IndInv
<1>b. /\ Record \in Records
      /\ Target \in Servers \cup {NoServer}
      /\ pc \notin {"idle", "allocate", "failed"} => Target \in Servers
  BY <1>a, RecordIsRecord DEF Placement
<1>1. CASE UNCHANGED vars
  BY <1>a, <1>b, <1>1 DEF vars, WaitingIsNotLost
<1>2. CASE AssignLobby
  BY <1>a, <1>b, <1>2 DEF AssignLobby, WaitingIsNotLost
<1>3. CASE Allocate
  BY <1>a, <1>b, <1>3 DEF Allocate, Candidates, WaitingIsNotLost
<1>4. CASE NoCapacity
  BY <1>a, <1>b, <1>4 DEF NoCapacity, Candidates, WaitingIsNotLost
<1>5. CASE PutByServer
  BY <1>a, <1>b, <1>5 DEF PutByServer, WaitingIsNotLost
<1>6. CASE PutByClient
  <2>1. CASE member < Size
    BY <1>6, <2>1 DEF PutByClient, WaitingIsNotLost
  <2>2. CASE ~(member < Size)
    <3>1. member = Size /\ \A m \in 1..member : Kept(m)
      BY <1>a, <1>6, <2>2 DEF PutByClient, PutsAreKept
    <3>2. UNCHANGED <<attempt, server, byServer, seen, drained>> /\ member' = 1
      BY <1>6, <2>2 DEF PutByClient
    <3> QED
      BY <3>1, <3>2 DEF WaitingIsNotLost
  <2> QED
    BY <2>1, <2>2
<1>7. CASE CheckDrain
  BY <1>a, <1>b, <1>7 DEF CheckDrain, WaitingIsNotLost
<1>8. CASE ReadAck
  BY <1>a, <1>b, <1>8 DEF ReadAck, WaitingIsNotLost
<1>9. CASE PrepareTimeout
  BY <1>a, <1>b, <1>9 DEF PrepareTimeout, WaitingIsNotLost
<1>10. CASE Grant
  BY <1>a, <1>b, <1>10 DEF Grant, WaitingIsNotLost
<1>11. CASE DeletePending
  BY <1>a, <1>b, <1>11 DEF DeletePending, WaitingIsNotLost
<1>12. CASE DeleteAck
  BY <1>a, <1>b, <1>12 DEF DeleteAck, WaitingIsNotLost
<1>13. CASE EnqueueDelete
  BY <1>a, <1>b, <1>13 DEF EnqueueDelete, WaitingIsNotLost
<1>14. CASE EnqueueRelease
  BY <1>a, <1>b, <1>14 DEF EnqueueRelease, WaitingIsNotLost
<1>15. CASE TaskError
  BY <1>a, <1>b, <1>15 DEF TaskError, WaitingIsNotLost
<1>16. ASSUME NEW s \in Alive, PollAssignments(s) PROVE WaitingIsNotLost'
  BY <1>a, <1>b, <1>16 DEF PollAssignments, WaitingIsNotLost
<1>17. ASSUME NEW s \in Alive, RegisterAssignment(s) PROVE WaitingIsNotLost'
  BY <1>a, <1>b, <1>17 DEF RegisterAssignment, WaitingIsNotLost
<1>18. ASSUME NEW s \in Alive, PublishPrepared(s) PROVE WaitingIsNotLost'
  BY <1>a, <1>b, <1>18 DEF PublishPrepared, WaitingIsNotLost
<1>19. ASSUME NEW s \in Alive, ConsumePrepared(s) PROVE WaitingIsNotLost'
  <2>1. /\ s \in Servers
        /\ outbox[s] \in Seq(Attempts \X Members)
        /\ Len(outbox[s]) > 0
    BY <1>a, <1>19 DEF ConsumePrepared, Admission
  <2>2. Head(outbox[s]) \in seen[s]
    BY <1>a, <2>1 DEF Admission
  <2>3. \A t \in Servers : byServer[t] \subseteq byServer'[t] \cup seen[t]
    BY <1>a, <1>19, <2>1, <2>2 DEF ConsumePrepared
  <2>4. UNCHANGED <<pc, attempt, member, server, seen, drained>>
    BY <1>19 DEF ConsumePrepared
  <2> QED
    BY <1>a, <1>b, <2>3, <2>4 DEF WaitingIsNotLost
<1>20. ASSUME NEW s \in Alive, ReportLost(s) PROVE WaitingIsNotLost'
  BY <1>a, <1>b, <1>20 DEF ReportLost, WaitingIsNotLost
<1>21. ASSUME NEW s \in Servers, DrainGameServer(s) PROVE WaitingIsNotLost'
  BY <1>a, <1>b, <1>21 DEF DrainGameServer, WaitingIsNotLost
<1>22. ASSUME NEW s \in Servers, ListPending(s) PROVE WaitingIsNotLost'
  BY <1>a, <1>b, <1>22 DEF ListPending, WaitingIsNotLost
<1>23. ASSUME NEW s \in Servers, ClearPending(s) PROVE WaitingIsNotLost'
  <2>1. s \in drained
    BY <1>a, <1>23 DEF ClearPending, ReleasesHaveCauses
  <2>2. \A t \in Servers : byServer'[t] = byServer[t] \/ t = s
    BY <1>a, <1>23 DEF ClearPending
  <2>3. UNCHANGED <<pc, attempt, member, server, seen, drained>>
    BY <1>23 DEF ClearPending
  <2> QED
    BY <1>a, <1>b, <2>1, <2>2, <2>3 DEF WaitingIsNotLost
<1>24. ASSUME NEW s \in Servers, QueueDrainCleanup(s) PROVE WaitingIsNotLost'
  BY <1>a, <1>b, <1>24 DEF QueueDrainCleanup, WaitingIsNotLost
<1> QED
  BY <1>1, <1>2, <1>3, <1>4, <1>5, <1>6, <1>7, <1>8, <1>9, <1>10, <1>11, <1>12,
     <1>13, <1>14, <1>15, <1>16, <1>17, <1>18, <1>19, <1>20, <1>21, <1>22, <1>23, <1>24
  DEF Next, TaskStep, DrainStep

\* A release has a cause of its own: the attempt's, or its server's drain's.
LEMMA CausesBoundReleases == IndInv => SharedRelease
<1> SUFFICES ASSUME IndInv, NEW a \in Attempts
             PROVE  /\ releases[a] <= (IF server[a] \in drained THEN 2 ELSE 1)
                    /\ (a = attempt /\ pc \in {"grant", "granted"} /\ releases[a] > 0)
                          => server[a] \in drained
  BY DEF SharedRelease
<1>1. releases[a] <= OwnRelease(a) + DrainRelease(a) /\ releases[a] \in Nat
  BY DEF IndInv, ReleasesHaveCauses, TypeOK
<1>2. OwnRelease(a) \in {0, 1}
  BY DEF OwnRelease
<1>3. DrainRelease(a) \in {0, 1} /\ (server[a] \notin drained => DrainRelease(a) = 0)
  BY DEF DrainRelease, IndInv, ReleasesHaveCauses
<1>4. a = attempt /\ pc \in {"grant", "granted"} => OwnRelease(a) = 0
  BY LobbyAssumption DEF OwnRelease, IndInv, TypeOK, Attempts
<1> QED
  BY <1>1, <1>2, <1>3, <1>4

\* The invariant holds in every reachable state of the attempts of a lobby.
THEOREM LobbyIndInv == Spec => []IndInv
<1>1. IndInv /\ [Next]_vars => IndInv'
  BY StepTypeOK, StepPlacement, StepAdmission, StepWaited, StepPuts, StepReleases, StepGrants,
     StepWaiting
  DEF IndInv
<1> QED
  BY InitIndInv, <1>1, PTL DEF Spec

\* Every variable keeps to its type, for rosters of any size.
THEOREM LobbyTypeOK == Spec => []TypeOK
<1>1. IndInv => TypeOK
  BY DEF IndInv
<1> QED
  BY <1>1, LobbyIndInv, PTL

\* When the first member is sent a grant, the gate of the attempt's server admits the
\* whole roster, and it does from then on.
THEOREM LobbyGrantsAreWhole == Spec => []GrantsAreWhole
<1>1. IndInv => GrantsAreWhole
  BY DEF IndInv
<1> QED
  BY <1>1, LobbyIndInv, PTL

\* The allocation the members share is released at most once by the attempt and once
\* by a drain, and behind a grant by a drain only.
THEOREM LobbySharedRelease == Spec => []SharedRelease
<1> QED
  BY CausesBoundReleases, LobbyIndInv, PTL

\* Whatever the task still waits for can be acknowledged or ends with a drain.
THEOREM LobbyWaitingIsNotLost == Spec => []WaitingIsNotLost
<1>1. IndInv => WaitingIsNotLost
  BY DEF IndInv
<1> QED
  BY <1>1, LobbyIndInv, PTL

\* How far the cleanup of an attempt has come: without faults the records of the
\* members before the current one are queued, and all of them before the release.
CleanupsAreDone ==
    faults = 0 =>
        /\ \A a \in Attempts :
             (server[a] # NoServer /\ (a < attempt \/ (a = attempt /\ pc = "failed"))) =>
                /\ releases[a] > 0
                /\ \A m \in Members : deletes[<<a, m>>] > 0
        /\ pc \in {"delete_pending", "delete_ack", "enqueue_delete"} =>
             \A m \in 1..(member - 1) : deletes[<<attempt, m>>] > 0
        /\ pc = "enqueue_release" => \A m \in Members : deletes[<<attempt, m>>] > 0

\* Jobs are never taken back.
LEMMA JobsGrow ==
    ASSUME IndInv, [Next]_vars
    PROVE  /\ \A a \in Attempts : releases'[a] \in Nat /\ releases'[a] >= releases[a]
           /\ \A r \in Records : deletes'[r] \in Nat /\ deletes'[r] >= deletes[r]
<1>a. /\ deletes \in [Records -> Nat] /\ releases \in [Attempts -> Nat]
      /\ deletes' \in [Records -> Nat] /\ releases' \in [Attempts -> Nat]
      /\ Record \in Records /\ attempt \in Attempts
  BY StepTypeOK, RecordIsRecord DEF IndInv, TypeOK
<1>1. CASE UNCHANGED jobVars
  BY <1>a, <1>1 DEF jobVars
<1>2. CASE EnqueueDelete
  BY <1>a, <1>2 DEF EnqueueDelete
<1>3. CASE EnqueueRelease
  BY <1>a, <1>3 DEF EnqueueRelease
<1>4. ASSUME NEW s \in Servers, QueueDrainCleanup(s)
      PROVE  /\ \A a \in Attempts : releases'[a] >= releases[a]
             /\ \A r \in Records : deletes'[r] >= deletes[r]
  BY <1>a, <1>4 DEF QueueDrainCleanup
<1>5. CASE Next /\ ~EnqueueDelete /\ ~EnqueueRelease /\ \A s \in Servers : ~QueueDrainCleanup(s)
  BY <1>1, <1>5 DEF Next, TaskStep, DrainStep, AssignLobby, Allocate, NoCapacity, PutByServer,
     PutByClient, CheckDrain, ReadAck, Grant, DeletePending, DeleteAck, PrepareTimeout, TaskError,
     PollAssignments, RegisterAssignment, PublishPrepared, ConsumePrepared, ReportLost,
     DrainGameServer, ListPending, ClearPending
<1> QED
  BY <1>a, <1>1, <1>2, <1>3, <1>4, <1>5 DEF vars

\* An attempt comes to its end only by its cleanup, and the cleanup by its loop.
LEMMA StepCleanupsAreDone ==
    ASSUME IndInv, CleanupsAreDone, [Next]_vars
    PROVE  CleanupsAreDone'
<1> SUFFICES ASSUME faults' = 0
             PROVE  /\ \A a \in Attempts :
                         (server'[a] # NoServer /\ (a < attempt' \/ (a = attempt' /\ pc' = "failed"))) =>
                            /\ releases'[a] > 0
                            /\ \A m \in Members : deletes'[<<a, m>>] > 0
                    /\ pc' \in {"delete_pending", "delete_ack", "enqueue_delete"} =>
                         \A m \in 1..(member' - 1) : deletes'[<<attempt', m>>] > 0
                    /\ pc' = "enqueue_release" => \A m \in Members : deletes'[<<attempt', m>>] > 0
  BY DEF CleanupsAreDone
<1> USE LobbyAssumption
<1>a. /\ faults \in Nat /\ attempt \in Nat /\ attempt \in Attempts /\ member \in Nat /\ member \in 1..Size
      /\ MaxRetries \in Nat /\ Size \in Nat \ {0}
      /\ server \in [Attempts -> Servers \cup {NoServer}]
      /\ deletes \in [Records -> Nat] /\ releases \in [Attempts -> Nat]
      /\ Members = 1..Size /\ Attempts = 0..MaxRetries /\ Records = Attempts \X Members
  BY DEF IndInv, TypeOK, Attempts, Members, Records
<1>b. /\ \A a \in Attempts : releases[a] > 0 => releases'[a] > 0
      /\ \A a \in Attempts, m \in Members : deletes[<<a, m>>] > 0 => deletes'[<<a, m>>] > 0
  <2>1. \A a \in Attempts : releases[a] > 0 => releases'[a] > 0
    BY <1>a, JobsGrow
  <2>2. \A r \in Records : deletes[r] > 0 => deletes'[r] > 0
    BY <1>a, JobsGrow
  <2>3. \A a \in Attempts, m \in Members : <<a, m>> \in Records
    BY <1>a
  <2> QED
    BY <2>1, <2>2, <2>3
<1>c. ASSUME faults = 0
      PROVE  /\ \A a \in Attempts :
                  (server[a] # NoServer /\ (a < attempt \/ (a = attempt /\ pc = "failed"))) =>
                     /\ releases[a] > 0
                     /\ \A m \in Members : deletes[<<a, m>>] > 0
             /\ pc \in {"delete_pending", "delete_ack", "enqueue_delete"} =>
                  \A m \in 1..(member - 1) : deletes[<<attempt, m>>] > 0
             /\ pc = "enqueue_release" => \A m \in Members : deletes[<<attempt, m>>] > 0
  BY <1>c DEF CleanupsAreDone
<1>d. pc = "allocate" => server[attempt] = NoServer
  BY DEF IndInv, Placement, Target
<1>e. ~Fault
  BY <1>a DEF Fault
<1>f. ASSUME faults = 0, UNCHANGED <<attempt, server>>, pc' # "failed"
      PROVE  \A a \in Attempts :
               (server'[a] # NoServer /\ (a < attempt' \/ (a = attempt' /\ pc' = "failed"))) =>
                  /\ releases'[a] > 0
                  /\ \A m \in Members : deletes'[<<a, m>>] > 0
  BY <1>a, <1>b, <1>c, <1>f
<1>1. CASE UNCHANGED <<taskVars, faults>>
  <2>1. /\ faults = 0 /\ pc' = pc /\ attempt' = attempt /\ member' = member /\ server' = server
    BY <1>1 DEF taskVars
  <2>2. \A m \in 1..(member - 1) : m \in Members
    BY <1>a
  <2> QED
    BY <1>a, <1>b, <1>c, <2>1, <2>2
<1>2. CASE Allocate
  <2>1. /\ faults = 0 /\ pc' = "put_by_server" /\ attempt' = attempt
        /\ \A a \in Attempts \ {attempt} : server'[a] = server[a]
    BY <1>a, <1>2 DEF Allocate, Goto
  <2> QED
    BY <1>a, <1>b, <1>c, <2>1
<1>3. CASE NoCapacity
  <2>1. faults = 0 /\ pc' = "failed" /\ attempt' = attempt /\ server' = server /\ pc = "allocate"
    BY <1>3 DEF NoCapacity, Goto
  <2> QED
    BY <1>a, <1>b, <1>c, <1>d, <2>1
<1>4. CASE AssignLobby \/ PutByServer \/ PutByClient \/ ReadAck \/ Grant
  <2>1. /\ faults = 0 /\ attempt' = attempt /\ server' = server
        /\ pc' \notin {"delete_pending", "delete_ack", "enqueue_delete", "enqueue_release", "failed"}
    BY <1>4 DEF AssignLobby, PutByServer, PutByClient, ReadAck, Grant, Goto, NextMember
  <2> QED
    BY <1>f, <2>1
<1>5. CASE CheckDrain \/ PrepareTimeout
  <2>1. /\ faults = 0 /\ attempt' = attempt /\ server' = server
        /\ pc' \notin {"delete_ack", "enqueue_delete", "enqueue_release", "failed"}
        /\ pc' = "delete_pending" => member' = 1
    BY <1>5 DEF CheckDrain, PrepareTimeout, Goto, GiveUp
  <2>2. member' = 1 => \A m \in 1..(member' - 1) : FALSE
    OBVIOUS
  <2> QED
    BY <1>f, <2>1, <2>2
<1>6. CASE DeletePending \/ DeleteAck
  <2>1. /\ faults = 0 /\ attempt' = attempt /\ server' = server /\ member' = member
        /\ pc \in {"delete_pending", "delete_ack"} /\ pc' \in {"delete_ack", "enqueue_delete"}
    BY <1>6, <1>e DEF DeletePending, DeleteAck, Goto
  <2>2. \A m \in 1..(member - 1) : m \in Members
    BY <1>a
  <2>3. \A m \in 1..(member - 1) : deletes[<<attempt, m>>] > 0
    BY <1>c, <2>1
  <2>4. \A m \in 1..(member - 1) : deletes'[<<attempt, m>>] > 0
    BY <1>a, <1>b, <2>2, <2>3
  <2> QED
    BY <1>f, <2>1, <2>4
<1>7. CASE EnqueueDelete
  <2>1. /\ faults = 0 /\ attempt' = attempt /\ server' = server /\ pc = "enqueue_delete"
        /\ deletes' = [deletes EXCEPT ![Record] = @ + 1]
        /\ \/ member < Size /\ pc' = "delete_pending" /\ member' = member + 1
           \/ member >= Size /\ pc' = "enqueue_release"
    BY <1>7, <1>a, <1>e DEF EnqueueDelete, NextMember, Goto
  <2>2. deletes'[<<attempt, member>>] > 0
    <3>1. Record \in Records /\ Record = <<attempt, member>>
      BY <1>a DEF Record
    <3>2. deletes[Record] \in Nat /\ deletes'[Record] = deletes[Record] + 1
      BY <1>a, <2>1, <3>1
    <3>3. deletes'[Record] > 0
      BY <3>2
    <3> QED
      BY <3>1, <3>3
  <2>3. ASSUME NEW m \in 1..member PROVE deletes'[<<attempt, m>>] > 0
    <3>1. CASE m = member
      BY <2>2, <3>1
    <3>2. CASE m # member
      <4>1. m \in 1..(member - 1) /\ m \in Members
        BY <1>a, <3>2
      <4>2. deletes[<<attempt, m>>] > 0
        BY <1>c, <2>1, <4>1
      <4> QED
        BY <1>a, <1>b, <4>1, <4>2
    <3> QED
      BY <3>1, <3>2
  <2>4. pc' = "delete_pending" => \A m \in 1..(member' - 1) : deletes'[<<attempt', m>>] > 0
    BY <1>a, <2>1, <2>3
  <2>5. pc' = "enqueue_release" => \A m \in Members : deletes'[<<attempt', m>>] > 0
    BY <1>a, <2>1, <2>3
  <2>6. ASSUME NEW a \in Attempts, server'[a] # NoServer, a < attempt' \/ (a = attempt' /\ pc' = "failed")
        PROVE  releases'[a] > 0 /\ \A m \in Members : deletes'[<<a, m>>] > 0
    <3>1. releases[a] > 0 /\ \A m \in Members : deletes[<<a, m>>] > 0
      BY <1>c, <2>1, <2>6
    <3> QED
      BY <1>a, <1>b, <3>1
  <2> QED
    BY <2>1, <2>4, <2>5, <2>6
<1>8. CASE EnqueueRelease
  <2>1. /\ faults = 0 /\ server' = server /\ pc = "enqueue_release" /\ pc' \in {"allocate", "failed"}
        /\ \/ attempt' = attempt + 1 /\ pc' = "allocate"
           \/ attempt' = attempt
        /\ releases'[attempt] = releases[attempt] + 1
    BY <1>8, <1>a, <1>e DEF EnqueueRelease, Goto
  <2>2. ASSUME NEW a \in Attempts, server'[a] # NoServer, a < attempt' \/ (a = attempt' /\ pc' = "failed")
        PROVE  releases'[a] > 0 /\ \A m \in Members : deletes'[<<a, m>>] > 0
    <3>1. CASE a = attempt
      BY <1>a, <1>b, <1>c, <2>1, <3>1
    <3>2. CASE a # attempt
      <4>1. a < attempt
        BY <1>a, <2>1, <2>2, <3>2
      <4>2. releases[a] > 0 /\ \A m \in Members : deletes[<<a, m>>] > 0
        BY <1>c, <2>1, <2>2, <4>1
      <4> QED
        BY <1>a, <1>b, <4>2
    <3> QED
      BY <3>1, <3>2
  <2> QED
    BY <2>1, <2>2
<1>9. CASE TaskError
  BY <1>9, <1>e DEF TaskError
<1>10. ASSUME NEW s \in Servers, \/ PollAssignments(s) \/ RegisterAssignment(s) \/ PublishPrepared(s)
                                 \/ ConsumePrepared(s) \/ ReportLost(s) \/ DrainGameServer(s)
                                 \/ DrainStep(s)
       PROVE  UNCHANGED <<taskVars, faults>>
  BY <1>10, <1>e DEF PollAssignments, RegisterAssignment, PublishPrepared, ConsumePrepared,
     ReportLost, DrainGameServer, DrainStep, ListPending, ClearPending, QueueDrainCleanup
<1>11. CASE UNCHANGED vars
  BY <1>1, <1>11 DEF vars
<1>12. Alive \subseteq Servers
  OBVIOUS
<1> QED
  BY <1>1, <1>2, <1>3, <1>4, <1>5, <1>6, <1>7, <1>8, <1>9, <1>10, <1>11, <1>12 DEF Next, TaskStep

\* A lobby none of whose calls failed leaves no record and no allocation of a
\* failed attempt without its cleanup job, for rosters of any size
\* (the cleanup loop after a failed wait_for_assignment_prepared).
THEOREM LobbyAttemptsAreQueued == Spec => []AttemptsAreQueued
<1>1. Init => CleanupsAreDone
  BY LobbyAssumption DEF Init, CleanupsAreDone, Attempts
<1>2. IndInv /\ CleanupsAreDone /\ [Next]_vars => CleanupsAreDone'
  BY StepCleanupsAreDone
<1>3. IndInv /\ CleanupsAreDone => AttemptsAreQueued
  <2> SUFFICES ASSUME IndInv, CleanupsAreDone, faults = 0, NEW a \in 0..attempt,
                      server[a] # NoServer, a < attempt \/ pc = "failed"
               PROVE  releases[a] > 0 /\ \A r \in RecordsOf(a) : deletes[r] > 0
    BY DEF AttemptsAreQueued
  <2>1. a \in Attempts /\ (a < attempt \/ (a = attempt /\ pc = "failed"))
    BY LobbyAssumption DEF IndInv, TypeOK, Attempts
  <2> QED
    BY <2>1 DEF CleanupsAreDone, RecordsOf
<1> QED
  BY <1>1, <1>2, <1>3, LobbyIndInv, PTL DEF Spec
=============================================================================
