-------------------------- MODULE ServerBridgeProofs --------------------------
(***************************************************************************)
(* Proofs about a game server's bridge and connection gate, for every      *)
(* number of clients, failures and crashes: who was revoked stays out, a   *)
(* record is kept until its acknowledgement is stored, and the end of a    *)
(* connection is never reported before its beginning.                      *)
(***************************************************************************)
EXTENDS ServerBridge, FiniteSetTheorems, SequenceTheorems, WellFoundedInduction, TLAPS

\* The types of what decides on admission.
AppTypes ==
    /\ pending \in SUBSET Clients
    /\ seen \in SUBSET Clients
    /\ inbox \in Seq(Clients)
    /\ tracked \in [Clients -> {"none", "waiting", "connected", "gone"}]
    /\ gate \in SUBSET Clients

\* A record goes to the app once: what is under way has been seen, and what the app
\* has or had is not under way again.
SentOnce ==
    /\ ToSet(inbox) \subseteq seen
    /\ \A c \in Clients : tracked[c] # "none" => c \in seen /\ c \notin ToSet(inbox)

\* The gate admits those only whose assignment is tracked.
GateIsTracked == \A c \in gate : tracked[c] \in {"waiting", "connected"}

GateIndInv == AppTypes /\ SentOnce /\ GateIsTracked

\* The records found by a poll become a sequence of nothing else.
LEMMA SetToSeqContents ==
    ASSUME NEW S \in SUBSET Clients
    PROVE  SetToSeq(S) \in Seq(S) /\ ToSet(SetToSeq(S)) \subseteq S
<1> DEFINE n == Cardinality(S)
<1>1. IsFiniteSet(S)
    BY BridgeAssumption, FS_Subset
<1>2. n \in Nat /\ ExistsBijection(1..n, S)
    BY <1>1, FS_CardinalityType
<1>3. \E f \in [1..n -> S] : IsInjective(f)
    BY <1>2 DEF ExistsBijection, Bijection, Injection
<1>4. SetToSeq(S) \in [1..n -> S]
    BY <1>3 DEF SetToSeq
<1> QED
    BY <1>2, <1>4 DEF ToSet

\* What is appended to the inbox is added to its contents.
LEMMA ToSetOfConcat ==
    ASSUME NEW s \in Seq(Clients), NEW t \in Seq(Clients)
    PROVE  s \o t \in Seq(Clients) /\ ToSet(s \o t) \subseteq ToSet(s) \cup ToSet(t)
<1>1. /\ s \o t \in Seq(Clients) /\ Len(s \o t) = Len(s) + Len(t)
      /\ \A i \in 1..Len(s) + Len(t) : (s \o t)[i] = IF i <= Len(s) THEN s[i] ELSE t[i - Len(s)]
    BY ConcatProperties
<1>2. Len(s) \in Nat /\ Len(t) \in Nat
    OBVIOUS
<1> SUFFICES ASSUME NEW i \in 1..Len(s) + Len(t)
             PROVE (s \o t)[i] \in ToSet(s) \cup ToSet(t)
    BY <1>1 DEF ToSet
<1>3. CASE i <= Len(s)
    BY <1>1, <1>2, <1>3 DEF ToSet
<1>4. CASE ~(i <= Len(s))
  <2>1. i - Len(s) \in 1..Len(t)
      BY <1>2, <1>4
  <2> QED
      BY <1>1, <1>4, <2>1 DEF ToSet
<1> QED
    BY <1>3, <1>4

\* What an action leaves alone when it does not touch the gate, the inbox and what
\* is tracked, nor adds to the server's set.
Quiet ==
    /\ UNCHANGED <<seen, inbox, tracked, gate>>
    /\ pending' \in SUBSET Clients

\* The actions without an influence on admission.
LEMMA QuietActions ==
    ASSUME AppTypes,
           \/ Connect \/ ConnectFails \/ TakeReport \/ PublishStep \/ PublishFails
           \/ InstallHandler \/ UNCHANGED vars
           \/ \E c \in Clients : PutByServer(c) \/ PutByClient(c) \/ Withdraw(c)
                                 \/ HandleRequest(c) \/ Leave(c)
    PROVE  Quiet
<1> USE DEF Quiet, AppTypes, matchVars, bucketVars, bridgeVars, appVars, transport,
            AppUnchanged, OthersUnchanged
<1>1. CASE Connect \/ ConnectFails \/ TakeReport \/ PublishFails \/ InstallHandler \/ UNCHANGED vars
    BY <1>1 DEF Connect, ConnectFails, TakeReport, PublishFails, InstallHandler, vars
<1>2. CASE PublishStep
    BY <1>2 DEF PublishStep, PutAck, ConsumeSet, ConsumeIndex, PutActive, DeleteActive,
       ReadIndex, DeleteSet, DeleteAck, DeleteIndex
<1>3. ASSUME NEW c \in Clients,
             PutByServer(c) \/ PutByClient(c) \/ Withdraw(c) \/ HandleRequest(c) \/ Leave(c)
      PROVE Quiet
    BY <1>3 DEF PutByServer, PutByClient, Withdraw, HandleRequest, Leave, Move
<1> QED
    BY <1>1, <1>2, <1>3

\* A revocation closes the gate for clients and marks them as gone.
LEMMA RevokeCloses ==
    ASSUME NEW clients \in SUBSET Clients, GateIndInv, Revoke(clients),
           \A c \in clients : tracked[c] # "none",
           UNCHANGED <<seen, inbox, pending>>
    PROVE  GateIndInv'
BY DEF GateIndInv, AppTypes, SentOnce, GateIsTracked, Revoke

\* The initial states satisfy the inductive invariant.
LEMMA InitInv == Init => GateIndInv
BY DEF Init, GateIndInv, AppTypes, SentOnce, GateIsTracked, ToSet

\* Every step keeps the inductive invariant.
LEMMA StepGateIndInv == GateIndInv /\ [Next]_vars => GateIndInv'
<1> SUFFICES ASSUME GateIndInv, [Next]_vars PROVE GateIndInv'
    OBVIOUS
<1>a. AppTypes /\ SentOnce /\ GateIsTracked
    BY DEF GateIndInv
<1>1. CASE Poll
  <2> DEFINE new == pending \ seen
  <2>1. inbox' = inbox \o SetToSeq(new) /\ seen' = seen \cup new
        /\ UNCHANGED <<pending, tracked, gate>>
      BY <1>1 DEF Poll, appVars, bucketVars
  <2>2. new \in SUBSET Clients
      BY <1>a DEF AppTypes
  <2>3. SetToSeq(new) \in Seq(Clients) /\ ToSet(SetToSeq(new)) \subseteq new
    <3>1. SetToSeq(new) \in Seq(new) /\ ToSet(SetToSeq(new)) \subseteq new
        BY <2>2, SetToSeqContents
    <3> HIDE DEF new
    <3> QED
        BY <2>2, <3>1, SeqMonotonic
  <2>4. inbox' \in Seq(Clients) /\ ToSet(inbox') \subseteq ToSet(inbox) \cup new
      BY <1>a, <2>1, <2>3, ToSetOfConcat DEF AppTypes
  <2> QED
      BY <1>a, <2>1, <2>2, <2>4 DEF GateIndInv, AppTypes, SentOnce, GateIsTracked
<1>2. CASE SyncNatsBridge
  <2>1. /\ inbox' = <<>> /\ gate' = gate \cup New /\ UNCHANGED <<pending, seen>>
        /\ tracked' = [c \in Clients |-> IF c \in New THEN "waiting" ELSE tracked[c]]
      BY <1>2 DEF SyncNatsBridge, bucketVars
  <2>2. New \subseteq ToSet(inbox) /\ New \subseteq seen /\ New \subseteq Clients
      BY <1>a DEF New, SentOnce, AppTypes
  <2>3. ToSet(<<>>) = {}
      BY DEF ToSet
  <2> HIDE DEF New
  <2> QED
      BY <1>a, <2>1, <2>2, <2>3 DEF GateIndInv, AppTypes, SentOnce, GateIsTracked
<1>3. ASSUME NEW c \in Clients, HandleConnected(c) PROVE GateIndInv'
    BY <1>a, <1>3 DEF HandleConnected, AppUnchanged, bridgeVars, bucketVars, GateIndInv,
       AppTypes, SentOnce, GateIsTracked
<1>4. ASSUME NEW c \in Clients, HandleDisconnected(c) PROVE GateIndInv'
  <2>1. UNCHANGED <<seen, inbox, pending>>
      BY <1>4 DEF HandleDisconnected, AppUnchanged, bridgeVars, bucketVars
  <2>2. CASE tracked[c] \in {"waiting", "connected"}
      BY <1>4, <2>1, <2>2, RevokeCloses DEF HandleDisconnected
  <2>3. CASE tracked[c] \notin {"waiting", "connected"}
      BY <1>a, <1>4, <2>1, <2>3 DEF HandleDisconnected, GateIndInv, AppTypes, SentOnce,
         GateIsTracked
  <2> QED
      BY <2>2, <2>3
<1>5. CASE ExpireUnconnected
  <2>1. UNCHANGED <<seen, inbox, pending>>
      BY <1>5 DEF ExpireUnconnected, AppUnchanged, bridgeVars, bucketVars
  <2> QED
      BY <1>5, <2>1, RevokeCloses DEF ExpireUnconnected
<1>6. CASE Crash
    BY <1>a, <1>6 DEF Crash, bucketVars, GateIndInv, AppTypes, SentOnce, GateIsTracked, ToSet
<1>7. CASE Quiet
    BY <1>a, <1>7 DEF Quiet, GateIndInv, AppTypes, SentOnce, GateIsTracked
<1> QED
    BY <1>a, <1>1, <1>2, <1>3, <1>4, <1>5, <1>6, <1>7, QuietActions DEF Next

\* No step lets a client in again that is gone.
LEMMA StepRevoked ==
    ASSUME GateIndInv, [Next]_vars, NEW c \in Clients, tracked[c] = "gone", tracked'[c] # "none"
    PROVE  c \notin gate'
<1>a. AppTypes /\ SentOnce /\ GateIsTracked
    BY DEF GateIndInv
<1>1. GateIsTracked'
    BY StepGateIndInv DEF GateIndInv
<1> SUFFICES tracked'[c] \in {"none", "gone"}
    BY <1>1 DEF GateIsTracked
<1>2. CASE SyncNatsBridge
  <2>1. c \notin New
      BY <1>a DEF SentOnce, New
  <2> QED
      BY <1>2, <2>1 DEF SyncNatsBridge
<1>3. ASSUME NEW d \in Clients, HandleConnected(d) \/ HandleDisconnected(d)
      PROVE tracked'[c] \in {"none", "gone"}
    BY <1>a, <1>3 DEF HandleConnected, HandleDisconnected, Revoke, AppTypes
<1>4. CASE ExpireUnconnected
    BY <1>a, <1>4 DEF ExpireUnconnected, Revoke, AppTypes
<1>5. CASE Poll \/ Quiet
    BY <1>5 DEF Poll, Quiet, appVars
<1>6. CASE Crash
    BY <1>6 DEF Crash
<1> QED
    BY <1>a, <1>2, <1>3, <1>4, <1>5, <1>6, QuietActions DEF Next

\* The inductive invariant of the gate: bridge and app preserve it with every step.
THEOREM BridgeGateIndInv == Spec => []GateIndInv
BY InitInv, StepGateIndInv, PTL DEF Spec

\* Within one life of the server process, a client whose assignment was revoked - it
\* left, or never came - is not admitted again, however often the bridge polls a
\* record that is still in the server's set.
THEOREM BridgeRevokedStaysRevoked == Spec => RevokedStaysRevoked
<1>1. GateIndInv /\ [Next]_vars =>
        [\A c \in Clients : (tracked[c] = "gone" /\ tracked'[c] # "none") => c \notin gate']_vars
    BY StepRevoked
<1> QED
    BY <1>1, BridgeGateIndInv, PTL DEF Spec, RevokedStaysRevoked

\* A set of numbers has a least element.
LEMMA LeastNumber ==
    ASSUME NEW T \in SUBSET Nat, T # {}
    PROVE  \E n \in T : \A m \in T : n <= m
<1> DEFINE less == {p \in Nat \X Nat : p[1] < p[2]}
<1>1. IsWellFoundedOn(less, Nat)
    BY NatLessThanWellFounded, Zenon DEF OpToRel
<1>2. PICK n \in T : \A m \in T : <<m, n>> \notin less
  <2> HIDE DEF less
  <2> QED
      BY <1>1, WFMin, Zenon
<1>3. ASSUME NEW m \in T PROVE n <= m
  <2>1. <<m, n>> \in Nat \X Nat /\ <<m, n>>[1] = m /\ <<m, n>>[2] = n
      OBVIOUS
  <2>2. ~(m < n)
      BY <1>2, <2>1
  <2> QED
      BY <2>2
<1> QED
    BY <1>3

\* When all that has arrived is new, each arrival is answered by an acknowledgement.
LEMMA RepliesArePrepared ==
    ASSUME inbox \in Seq(Clients), ToSet(inbox) \subseteq New
    PROVE  PreparedReports \in Seq({"prepared"} \X Clients)
<1> DEFINE n == Len(inbox)
           prepared == {"prepared"} \X Clients
           step(f) == [i \in 0..n |->
                         IF i = 0 THEN <<>>
                         ELSE IF inbox[i] \in New THEN Append(f[i - 1], <<"prepared", inbox[i]>>)
                         ELSE f[i - 1]]
           all == [i \in 0..n |-> [k \in 1..i |-> <<"prepared", inbox[k]>>]]
<1>1. n \in Nat /\ \A i \in 1..n : inbox[i] \in Clients /\ inbox[i] \in New
    BY DEF ToSet
<1>2. \A i \in 0..n : all[i] \in Seq(prepared) /\ Len(all[i]) = i
    BY <1>1
<1>3. \A i \in 1..n : all[i] = Append(all[i - 1], <<"prepared", inbox[i]>>)
  <2> SUFFICES ASSUME NEW i \in 1..n PROVE all[i] = Append(all[i - 1], <<"prepared", inbox[i]>>)
      OBVIOUS
  <2>1. i - 1 \in 0..n /\ i \in 0..n
      BY <1>1
  <2>2. all[i - 1] \in Seq(prepared) /\ Len(all[i - 1]) = i - 1
    <3> HIDE DEF all
    <3> QED
        BY <1>2, <2>1
  <2> QED
      BY <1>1, <2>1, <2>2
<1>4. step(all) = all
  <2>1. \A i \in 0..n : i # 0 => i \in 1..n
      BY <1>1
  <2>2. all[0] = <<>>
      BY <1>1
  <2>3. ASSUME NEW i \in 0..n PROVE step(all)[i] = all[i]
      BY <1>1, <1>3, <2>1, <2>2
  <2> QED
      BY <2>3, Zenon
<1>5. step(Replies) = Replies
  <2>1. Replies = CHOOSE f : f = step(f)
      BY DEF Replies
  <2> HIDE DEF all, step
  <2> QED
      BY <1>4, <2>1
<1>6. ASSUME NEW i \in 0..n, Replies[i] # all[i] PROVE FALSE
  <2> HIDE DEF all
  <2> DEFINE wrong == {j \in 0..n : Replies[j] # all[j]}
  <2>1. wrong \in SUBSET Nat /\ wrong # {}
      BY <1>1, <1>6
  <2>2. PICK j \in wrong : \A m \in wrong : j <= m
      BY <2>1, LeastNumber
  <2>3. Replies[j] # all[j] /\ j \in 0..n /\ j \in Nat
      BY <1>1
  <2>4. CASE j = 0
    <3>1. all[0] = <<>>
        BY <1>1 DEF all
    <3>2. Replies[0] = <<>>
        BY <1>1, <1>5
    <3> QED
        BY <2>3, <2>4, <3>1, <3>2
  <2>5. CASE j # 0
    <3>1. j \in 1..n /\ j - 1 \in 0..n
        BY <1>1, <2>3, <2>5
    <3>2. Replies[j - 1] = all[j - 1]
      <4>1. CASE j - 1 \in wrong
          BY <2>2, <2>3, <3>1, <4>1
      <4> QED
          BY <3>1, <4>1
    <3>3. Replies[j] = Append(Replies[j - 1], <<"prepared", inbox[j]>>)
        BY <1>1, <1>5, <2>3, <2>5, <3>1
    <3> QED
        BY <1>3, <2>3, <3>1, <3>2, <3>3
  <2> QED
      BY <2>4, <2>5
<1>7. n \in 0..n
    BY <1>1
<1> QED
    BY <1>2, <1>6, <1>7 DEF PreparedReports

\* The reports queued for clients whose assignments are revoked.
LEMMA RevocationReports ==
    ASSUME NEW S \in SUBSET Clients
    PROVE  LET reports == [i \in 1..Cardinality(S) |-> <<"inactive", SetToSeq(S)[i]>>] IN
           /\ reports \in Seq({"inactive"} \X S)
           /\ ToSet(reports) = {"inactive"} \X S
<1> DEFINE n == Cardinality(S)
           seq == SetToSeq(S)
           reports == [i \in 1..n |-> <<"inactive", seq[i]>>]
<1>1. IsFiniteSet(S)
    BY BridgeAssumption, FS_Subset
<1>2. n \in Nat /\ ExistsBijection(1..n, S)
    BY <1>1, FS_CardinalityType
<1>3. \E f \in [1..n -> S] : IsInjective(f)
    BY <1>2 DEF ExistsBijection, Bijection, Injection
<1>4. seq \in [1..n -> S] /\ IsInjective(seq)
    BY <1>3 DEF SetToSeq
<1>5. seq \in Surjection(1..n, S)
  <2>1. IsFiniteSet(1..n) /\ Cardinality(1..n) = n
      BY <1>2, FS_Interval
  <2>2. seq \in Injection(1..n, S)
    <3> HIDE DEF seq, n
    <3> QED
      BY <1>4 DEF Injection, IsInjective
  <2> QED
      BY <1>1, <2>1, <2>2, FS_Injection, Zenon
<1> HIDE DEF seq
<1>6. reports \in Seq({"inactive"} \X S)
    BY <1>2, <1>4
<1>7. DOMAIN reports = 1..n
    OBVIOUS
<1>8. ASSUME NEW c \in S PROVE <<"inactive", c>> \in ToSet(reports)
  <2>1. PICK i \in 1..n : seq[i] = c
      BY <1>5 DEF Surjection
  <2> QED
      BY <1>7, <2>1 DEF ToSet
<1>9. ToSet(reports) \subseteq {"inactive"} \X S
    BY <1>4, <1>7 DEF ToSet
<1> QED
    BY <1>6, <1>8, <1>9 DEF seq

-----------------------------------------------------------------------------
(* What is not acknowledged is still pending.                              *)

\* An inactive report is about a client that was revoked.
Told == {r \in Reports : r[1] = "inactive" => r[2] \in revoked}

\* The operations that publish a report of each kind.
StepsOf ==
    [prepared |-> {"put_ack", "consume_set", "consume_index"},
     active   |-> {"put_active"},
     inactive |-> {"delete_active", "read_index", "delete_set", "delete_ack", "delete_index"}]

\* The reports on their way, and the thread publishes the one it has taken.
ReportsAreTold ==
    /\ channel \in Seq(Told)
    /\ outbox \in Seq(Told)
    /\ IF bridge \in PublishSteps THEN current \in Told /\ bridge \in StepsOf[current[1]]
       ELSE current = <<>>

\* The set is left to an acknowledgement that is stored, unless a matchmaker or a
\* revocation has removed it since.
ConsumesAfterAck == bridge = "consume_set" => Subject \in acks \cup withdrawn \cup revoked

AckIndInv ==
    /\ GateIndInv
    /\ put \in [Clients -> {"none", "set", "done"}]
    /\ ReportsAreTold
    /\ ConsumesAfterAck
    /\ UnackedIsPending

\* The initial states satisfy the inductive invariant.
LEMMA AckInit == Init => AckIndInv
<1> SUFFICES ASSUME Init PROVE AckIndInv
    OBVIOUS
<1>1. <<>> \in Seq(Told)
    BY EmptySeq
<1> QED
    BY <1>1, InitInv DEF Init, AckIndInv, ReportsAreTold, ConsumesAfterAck, UnackedIsPending, PublishSteps

\* What has arrived is new, so all replies to it are acknowledgements.
LEMMA ArrivalsArePrepared ==
    ASSUME GateIndInv
    PROVE  PreparedReports \in Seq({"prepared"} \X Clients)
<1>1. inbox \in Seq(Clients) /\ ToSet(inbox) \subseteq New
    BY DEF GateIndInv, AppTypes, SentOnce, New, ToSet
<1> QED
    BY <1>1, RepliesArePrepared

\* A revocation keeps the reports that were queued, and queues inactive ones.
LEMMA RevokeTells ==
    ASSUME ReportsAreTold, NEW clients \in SUBSET Clients, Revoke(clients),
           UNCHANGED <<channel, bridge, current>>
    PROVE  ReportsAreTold'
<1> DEFINE reports == [i \in 1..Cardinality(clients) |-> <<"inactive", SetToSeq(clients)[i]>>]
<1>1. outbox' = outbox \o reports /\ revoked' = revoked \cup clients
    BY DEF Revoke
<1>2. reports \in Seq({"inactive"} \X clients)
    BY RevocationReports
<1> HIDE DEF reports
<1>3. Told \subseteq Told' /\ {"inactive"} \X clients \subseteq Told'
    BY <1>1 DEF Told, Reports
<1>4. channel \in Seq(Told') /\ outbox \in Seq(Told') /\ reports \in Seq(Told')
    BY <1>2, <1>3, SeqMonotonic DEF ReportsAreTold
<1>5. outbox' \in Seq(Told')
    BY <1>1, <1>4
<1> QED
    BY <1>3, <1>4, <1>5 DEF ReportsAreTold

\* The actions that leave the reports alone, and what they are about.
LEMMA ReportsAreLeft ==
    ASSUME \/ Poll \/ InstallHandler \/ UNCHANGED vars
           \/ \E c \in Clients : PutByServer(c) \/ PutByClient(c) \/ Withdraw(c)
                                 \/ HandleRequest(c) \/ Leave(c)
    PROVE  UNCHANGED <<channel, outbox, bridge, current, revoked>>
<1> USE DEF matchVars, bucketVars, bridgeVars, appVars, transport, AppUnchanged
<1>1. CASE Poll \/ InstallHandler \/ UNCHANGED vars
    BY <1>1 DEF Poll, InstallHandler, vars
<1>2. ASSUME NEW c \in Clients,
             PutByServer(c) \/ PutByClient(c) \/ Withdraw(c) \/ HandleRequest(c) \/ Leave(c)
      PROVE UNCHANGED <<channel, outbox, bridge, current, revoked>>
    BY <1>2 DEF PutByServer, PutByClient, Withdraw, HandleRequest, Leave, Move
<1> QED
    BY <1>1, <1>2

\* Every step keeps the reports told.
LEMMA StepReportsAreTold ==
    ASSUME GateIndInv, ReportsAreTold, [Next]_vars
    PROVE  ReportsAreTold'
<1> USE DEF matchVars, bucketVars, bridgeVars, appVars, transport, AppUnchanged, OthersUnchanged
<1>1. revoked' = revoked => Told' = Told
    BY DEF Told
<1>2. CASE Connect \/ ConnectFails \/ PublishFails \/ Crash
    BY <1>1, <1>2, EmptySeq DEF Connect, ConnectFails, PublishFails, Crash, Step,
       ReportsAreTold, PublishSteps
<1>3. CASE TakeReport
  <2>1. /\ channel # <<>> /\ current' = Head(channel) /\ channel' = Tail(channel)
        /\ bridge' = FirstStep(Head(channel)) /\ UNCHANGED <<outbox, revoked>>
      BY <1>3 DEF TakeReport, Step
  <2>2. Head(channel) \in Told /\ Tail(channel) \in Seq(Told)
      BY <2>1 DEF ReportsAreTold
  <2>3. FirstStep(Head(channel)) \in StepsOf[Head(channel)[1]] \cap PublishSteps
      BY <2>2 DEF FirstStep, StepsOf, Told, Reports, PublishSteps
  <2> QED
      BY <1>1, <2>1, <2>2, <2>3 DEF ReportsAreTold
<1>4. CASE PublishStep
  <2>1. /\ current \in Told /\ current[1] \in {"prepared", "active", "inactive"}
        /\ bridge \in StepsOf[current[1]] /\ UNCHANGED <<channel, outbox, revoked>>
      BY <1>4 DEF PublishStep, PutAck, ConsumeSet, ConsumeIndex, PutActive, DeleteActive,
         ReadIndex, DeleteSet, DeleteAck, DeleteIndex, Step, ReportsAreTold, PublishSteps,
         Told, Reports
  <2>2. CASE ConsumeIndex \/ PutActive \/ DeleteIndex
      BY <1>1, <2>1, <2>2 DEF ConsumeIndex, PutActive, DeleteIndex, Step, ReportsAreTold,
         PublishSteps
  <2>3. CASE PutAck \/ ConsumeSet \/ DeleteActive \/ ReadIndex \/ DeleteSet \/ DeleteAck
      BY <1>1, <2>1, <2>3 DEF PutAck, ConsumeSet, DeleteActive, ReadIndex, DeleteSet,
         DeleteAck, Step, StepsOf, ReportsAreTold, PublishSteps
  <2> QED
      BY <1>4, <2>2, <2>3 DEF PublishStep
<1>5. CASE SyncNatsBridge
  <2>1. PreparedReports \in Seq(Told)
    <3>1. {"prepared"} \X Clients \subseteq Told
        BY DEF Told, Reports
    <3> QED
        BY <3>1, ArrivalsArePrepared, SeqMonotonic
  <2>2. outbox \o PreparedReports \in Seq(Told)
      BY <2>1 DEF ReportsAreTold
  <2>3. /\ channel' = channel \/ channel' = channel \o (outbox \o PreparedReports)
        /\ outbox' = <<>> /\ UNCHANGED <<bridge, current, revoked>>
      BY <1>5 DEF SyncNatsBridge
  <2>4. channel' \in Seq(Told)
    <3>1. channel \in Seq(Told)
        BY DEF ReportsAreTold
    <3> QED
        BY <2>2, <2>3, <3>1, ConcatProperties
  <2> QED
      BY <1>1, <2>3, <2>4, EmptySeq DEF ReportsAreTold
<1>6. ASSUME NEW c \in Clients, HandleConnected(c) PROVE ReportsAreTold'
  <2>1. /\ UNCHANGED <<channel, bridge, current, revoked>>
        /\ outbox' = outbox \/ outbox' = Append(outbox, <<"active", c>>)
      BY <1>6 DEF HandleConnected
  <2>2. <<"active", c>> \in Told
      BY DEF Told, Reports
  <2>3. outbox' \in Seq(Told)
    <3>1. outbox \in Seq(Told)
        BY DEF ReportsAreTold
    <3>2. Append(outbox, <<"active", c>>) \in Seq(Told)
        BY <2>2, <3>1, AppendProperties
    <3> QED
        BY <2>1, <3>1, <3>2
  <2> QED
      BY <1>1, <2>1, <2>3 DEF ReportsAreTold
<1>7. ASSUME NEW c \in Clients, HandleDisconnected(c) PROVE ReportsAreTold'
  <2>1. UNCHANGED <<channel, bridge, current>>
      BY <1>7 DEF HandleDisconnected
  <2>2. CASE Revoke({c})
      BY <2>1, <2>2, RevokeTells
  <2>3. CASE UNCHANGED <<outbox, revoked>>
      BY <1>1, <2>1, <2>3 DEF ReportsAreTold
  <2> QED
      BY <1>7, <2>2, <2>3 DEF HandleDisconnected
<1>8. CASE ExpireUnconnected
  <2>1. PICK overdue \in SUBSET Clients : Revoke(overdue)
      BY <1>8 DEF ExpireUnconnected
  <2>2. UNCHANGED <<channel, bridge, current>>
      BY <1>8 DEF ExpireUnconnected
  <2> QED
      BY <2>1, <2>2, RevokeTells
<1>9. CASE UNCHANGED <<channel, outbox, bridge, current, revoked>>
    BY <1>1, <1>9 DEF ReportsAreTold
<1> QED
    BY <1>2, <1>3, <1>4, <1>5, <1>6, <1>7, <1>8, <1>9, ReportsAreLeft DEF Next

\* Every step keeps the inductive invariant.
LEMMA StepAckIndInv == AckIndInv /\ [Next]_vars => AckIndInv'
<1> SUFFICES ASSUME AckIndInv, [Next]_vars PROVE AckIndInv'
    OBVIOUS
<1> USE DEF matchVars, bucketVars, bridgeVars, appVars, transport, AppUnchanged, OthersUnchanged
<1>a. /\ GateIndInv /\ ReportsAreTold /\ ConsumesAfterAck /\ UnackedIsPending
      /\ put \in [Clients -> {"none", "set", "done"}]
    BY DEF AckIndInv
<1>b. GateIndInv' /\ ReportsAreTold'
    BY <1>a, StepGateIndInv, StepReportsAreTold
<1> SUFFICES /\ put' \in [Clients -> {"none", "set", "done"}]
             /\ ConsumesAfterAck' /\ UnackedIsPending'
    BY <1>b DEF AckIndInv
<1>1. ASSUME NEW c \in Clients, PutByServer(c) \/ PutByClient(c) \/ Withdraw(c)
      PROVE put' \in [Clients -> {"none", "set", "done"}] /\ ConsumesAfterAck' /\ UnackedIsPending'
    BY <1>a, <1>1 DEF PutByServer, PutByClient, Withdraw, ConsumesAfterAck, UnackedIsPending, Subject
<1>2. CASE PublishStep
  <2>1. /\ bridge \in {"read_index", "delete_active", "delete_set", "delete_ack", "delete_index"}
             => Subject \in revoked
        /\ UNCHANGED <<put, withdrawn, revoked>>
      BY <1>a, <1>2 DEF PublishStep, PutAck, ConsumeSet, ConsumeIndex, PutActive, DeleteActive,
         ReadIndex, DeleteSet, DeleteAck, DeleteIndex, ReportsAreTold, PublishSteps, StepsOf,
         Told, Reports, Subject
  <2>2. CASE PutAck \/ ConsumeSet \/ ConsumeIndex \/ PutActive \/ DeleteActive
      BY <1>a, <2>1, <2>2 DEF PutAck, ConsumeSet, ConsumeIndex, PutActive, DeleteActive, Step,
         ConsumesAfterAck, UnackedIsPending, Subject
  <2>3. CASE ReadIndex \/ DeleteSet \/ DeleteAck \/ DeleteIndex
      BY <1>a, <2>1, <2>3 DEF ReadIndex, DeleteSet, DeleteAck, DeleteIndex, Step,
         ConsumesAfterAck, UnackedIsPending, Subject
  <2> QED
      BY <1>2, <2>2, <2>3 DEF PublishStep
<1>3. CASE /\ UNCHANGED <<put, withdrawn, pending, acks>>
           /\ revoked \subseteq revoked'
           /\ bridge' # "consume_set" \/ UNCHANGED <<bridge, current>>
    BY <1>a, <1>3 DEF ConsumesAfterAck, UnackedIsPending, Subject
<1>4. CASE Connect \/ ConnectFails \/ Poll \/ PublishFails \/ SyncNatsBridge \/ InstallHandler
           \/ Crash \/ UNCHANGED vars
    BY <1>3, <1>4 DEF Connect, ConnectFails, Poll, PublishFails, SyncNatsBridge, InstallHandler,
       Crash, Step, vars
<1>5. CASE TakeReport
  <2>1. bridge' # "consume_set"
      BY <1>a, <1>5 DEF TakeReport, Step, FirstStep, ReportsAreTold, Told, Reports
  <2> QED
      BY <1>3, <1>5, <2>1 DEF TakeReport
<1>6. CASE ExpireUnconnected
    BY <1>3, <1>6 DEF ExpireUnconnected, Revoke
<1>7. ASSUME NEW c \in Clients,
             HandleConnected(c) \/ HandleDisconnected(c) \/ HandleRequest(c) \/ Leave(c)
      PROVE put' \in [Clients -> {"none", "set", "done"}] /\ ConsumesAfterAck' /\ UnackedIsPending'
    BY <1>3, <1>7 DEF HandleConnected, HandleDisconnected, Revoke, HandleRequest, Leave, Move
<1> QED
    BY <1>1, <1>2, <1>4, <1>5, <1>6, <1>7 DEF Next
\* The inductive invariant of acknowledgements: the steps of the publishing thread, of
\* the app and of the matchmakers preserve it.
THEOREM BridgeAckIndInv == Spec => []AckIndInv
BY AckInit, StepAckIndInv, PTL DEF Spec

\* A record leaves the server's set only after its acknowledgement is stored, the client
\* is revoked, or a matchmaker has withdrawn it - whatever fails or crashes in between.
THEOREM BridgeUnackedIsPending == Spec => []UnackedIsPending
<1>1. AckIndInv => UnackedIsPending
    BY DEF AckIndInv
<1> QED
    BY <1>1, BridgeAckIndInv, PTL

-----------------------------------------------------------------------------
(* Reports do not overtake each other.                                     *)

\* The sequences in which no connection is reported after its end.
Ordered ==
    {s \in Seq(Reports) : \A i, j \in 1..Len(s) :
        (i < j /\ s[i][1] = "inactive" /\ s[j][1] = "active") => s[i][2] # s[j][2]}

\* What a concatenation contains.
LEMMA ContentsOfConcat ==
    ASSUME NEW S, NEW s \in Seq(S), NEW t \in Seq(S)
    PROVE  s \o t \in Seq(S) /\ ToSet(s \o t) = ToSet(s) \cup ToSet(t)
<1>1. \A q \in Seq(S) : ToSet(q) = Range(q)
    BY DEF ToSet, Range
<1>2. s \o t \in Seq(S)
    BY ConcatProperties
<1>3. Range(s \o t) = Range(s) \cup Range(t)
    BY RangeConcatenation
<1> QED
    BY <1>1, <1>2, <1>3

LEMMA ContentsOfReports ==
    \A s, t \in Seq(Reports) : ToSet(s \o t) = ToSet(s) \cup ToSet(t)
BY ContentsOfConcat

\* A concatenation is in order when its parts are and no connection is reported in
\* the second that has ended in the first.
LEMMA OrderOfConcat ==
    ASSUME NEW s \in Seq(Reports), NEW t \in Seq(Reports)
    PROVE  s \o t \in Ordered <=>
             /\ s \in Ordered
             /\ t \in Ordered
             /\ \A c \in Clients : <<"inactive", c>> \in ToSet(s) => <<"active", c>> \notin ToSet(t)
<1> DEFINE n == Len(s)
           m == Len(t)
           u == s \o t
<1>1. u \in Seq(Reports) /\ Len(u) = n + m /\ n \in Nat /\ m \in Nat
    BY ConcatProperties
<1>2. \A i \in 1..n : u[i] = s[i] /\ i \in 1..n + m
    BY <1>1, ConcatProperties
<1>3. \A i \in 1..m : u[n + i] = t[i] /\ n + i \in 1..n + m
  <2> SUFFICES ASSUME NEW i \in 1..m PROVE u[n + i] = t[i] /\ n + i \in 1..n + m
      OBVIOUS
  <2>1. n + i \in 1..n + m /\ ~(n + i <= n) /\ (n + i) - n = i
      BY <1>1
  <2> QED
      BY <2>1, ConcatProperties
<1>4. \A i \in 1..n + m : i \in 1..n \/ (i - n \in 1..m /\ i = n + (i - n))
    BY <1>1
<1>5. (\A i \in 1..n : s[i] \in Reports) /\ (\A i \in 1..m : t[i] \in Reports)
    OBVIOUS
<1>6. ToSet(s) = {s[i] : i \in 1..n} /\ ToSet(t) = {t[i] : i \in 1..m}
    BY DEF ToSet
<1> HIDE DEF n, m, u
<1>7. ASSUME u \in Ordered PROVE s \in Ordered
  <2> SUFFICES ASSUME NEW i \in 1..n, NEW j \in 1..n, i < j, s[i][1] = "inactive", s[j][1] = "active"
               PROVE  s[i][2] # s[j][2]
      BY DEF Ordered, n
  <2>1. i \in 1..Len(u) /\ j \in 1..Len(u) /\ u[i] = s[i] /\ u[j] = s[j]
      BY <1>1, <1>2
  <2>2. (u[i][1] = "inactive" /\ u[j][1] = "active") => u[i][2] # u[j][2]
      BY <1>7, <2>1 DEF Ordered
  <2> QED
      BY <2>1, <2>2
<1>8. ASSUME u \in Ordered PROVE t \in Ordered
  <2> SUFFICES ASSUME NEW i \in 1..m, NEW j \in 1..m, i < j, t[i][1] = "inactive", t[j][1] = "active"
               PROVE  t[i][2] # t[j][2]
      BY DEF Ordered, m
  <2>1. n + i < n + j
      BY <1>1
  <2>2. n + i \in 1..Len(u) /\ n + j \in 1..Len(u) /\ u[n + i] = t[i] /\ u[n + j] = t[j]
      BY <1>1, <1>3
  <2>3. (u[n + i][1] = "inactive" /\ u[n + j][1] = "active") => u[n + i][2] # u[n + j][2]
      BY <1>8, <2>1, <2>2 DEF Ordered
  <2> QED
      BY <2>2, <2>3
<1>9. ASSUME u \in Ordered, NEW c \in Clients, <<"inactive", c>> \in ToSet(s),
             <<"active", c>> \in ToSet(t)
      PROVE FALSE
  <2>1. PICK i \in 1..n : s[i] = <<"inactive", c>>
      BY <1>6, <1>9
  <2>2. PICK j \in 1..m : t[j] = <<"active", c>>
      BY <1>6, <1>9
  <2>3. i < n + j /\ i \in 1..n + m /\ n + j \in 1..n + m
      BY <1>1
  <2>4. u[i] = <<"inactive", c>> /\ u[n + j] = <<"active", c>>
      BY <1>2, <1>3, <2>1, <2>2
  <2>5. (u[i][1] = "inactive" /\ u[n + j][1] = "active") => u[i][2] # u[n + j][2]
      BY <1>1, <1>9, <2>3 DEF Ordered
  <2> QED
      BY <2>4, <2>5
<1>10. ASSUME s \in Ordered, t \in Ordered,
              \A c \in Clients : <<"inactive", c>> \in ToSet(s) => <<"active", c>> \notin ToSet(t)
       PROVE u \in Ordered
  <2> SUFFICES ASSUME NEW i \in 1..n + m, NEW j \in 1..n + m, i < j,
                      u[i][1] = "inactive", u[j][1] = "active", u[i][2] = u[j][2]
               PROVE  FALSE
      BY <1>1 DEF Ordered
  <2>1. CASE i \in 1..n /\ j \in 1..n
      BY <1>2, <1>10, <2>1 DEF Ordered, n
  <2>2. CASE i \in 1..n /\ j \notin 1..n
    <3>1. s[i] \in Reports /\ t[j - n] \in Reports /\ j - n \in 1..m
        BY <1>4, <1>5, <2>2
    <3>2. u[i] = s[i] /\ u[j] = t[j - n]
        BY <1>2, <1>3, <1>4, <2>2
    <3>3. PICK c \in Clients : s[i] = <<"inactive", c>> /\ t[j - n] = <<"active", c>>
        BY <3>1, <3>2 DEF Reports
    <3> QED
        BY <1>6, <1>10, <2>2, <3>1, <3>3
  <2>3. CASE i \notin 1..n /\ j \notin 1..n
    <3>1. i - n \in 1..m /\ j - n \in 1..m /\ i - n < j - n
        BY <1>1, <1>4, <2>3
    <3>2. u[i] = t[i - n] /\ u[j] = t[j - n]
        BY <1>3, <1>4, <2>3
    <3> QED
        BY <1>10, <3>1, <3>2 DEF Ordered, m
  <2>4. CASE i \notin 1..n /\ j \in 1..n
      BY <1>1, <2>4
  <2> QED
      BY <2>1, <2>2, <2>3, <2>4
<1> QED
    BY <1>7, <1>8, <1>9, <1>10 DEF u

\* Reports of which none is about the end of a connection, or none about its beginning,
\* are in order.
LEMMA OneKindIsOrdered ==
    ASSUME NEW s \in Seq(Reports),
           \/ \A c \in Clients : <<"inactive", c>> \notin ToSet(s)
           \/ \A c \in Clients : <<"active", c>> \notin ToSet(s)
    PROVE  s \in Ordered
<1> SUFFICES ASSUME NEW i \in 1..Len(s), NEW j \in 1..Len(s), s[i][1] = "inactive", s[j][1] = "active"
             PROVE  FALSE
    BY DEF Ordered
<1>1. s[i] \in Reports /\ s[j] \in Reports
    OBVIOUS
<1>2. \E c \in Clients : s[i] = <<"inactive", c>>
    BY <1>1 DEF Reports
<1>3. \E c \in Clients : s[j] = <<"active", c>>
    BY <1>1 DEF Reports
<1>4. s[i] \in ToSet(s) /\ s[j] \in ToSet(s)
    BY DEF ToSet
<1> QED
    BY <1>2, <1>3, <1>4

\* What is under way is in order; the end of a connection is reported of clients that
\* are gone, and its beginning of clients that are connected or whose end is reported
\* as well, unless a report of the client was dropped.
ReportsFollow ==
    /\ Pipeline \in Ordered
    /\ \A c \in Clients : <<"inactive", c>> \in ToSet(Pipeline) => tracked[c] = "gone"
    /\ \A c \in Clients \ lost :
         <<"active", c>> \in ToSet(Pipeline) =>
            tracked[c] = "connected" \/ <<"inactive", c>> \in ToSet(Pipeline)

\* The connection entry is deleted first.
DeletesFirst ==
    bridge \in {"read_index", "delete_set", "delete_ack", "delete_index"} => Subject \notin active

Followed ==
    /\ active \in SUBSET Clients
    /\ ReportsFollow
    /\ DeletesFirst
    /\ ActiveIsBacked

FollowIndInv == AckIndInv /\ Followed

\* The report that is being published, as a sequence.
Taken == IF current = <<>> THEN <<>> ELSE <<current>>

\* The pipeline is what is taken, then what is sent, then what is queued.
LEMMA PipelineParts ==
    ASSUME ReportsAreTold
    PROVE  /\ Taken \in Seq(Reports) /\ channel \in Seq(Reports) /\ outbox \in Seq(Reports)
           /\ Pipeline = (Taken \o channel) \o outbox
           /\ Pipeline \in Seq(Reports)
<1>1. Told \subseteq Reports
    BY DEF Told
<1>2. channel \in Seq(Reports) /\ outbox \in Seq(Reports)
    BY <1>1, SeqMonotonic DEF ReportsAreTold
<1>3. Taken \in Seq(Reports)
    BY <1>1 DEF Taken, ReportsAreTold
<1>4. Taken \o channel \in Seq(Reports)
    BY <1>2, <1>3, ConcatProperties
<1>5. Pipeline = (Taken \o channel) \o outbox
    BY DEF Pipeline, Taken
<1> QED
    BY <1>2, <1>3, <1>4, <1>5, ConcatProperties

\* After a step the pipeline is a sequence of reports, too.
LEMMA PipelineIsNext == ReportsAreTold' => (Pipeline \in Seq(Reports))'
<1>1. ReportsAreTold => Pipeline \in Seq(Reports)
    BY PipelineParts
<1> QED
    BY <1>1, PTL

\* What a publication of the report that was taken does to the pipeline.
LEMMA TakenIsFirst ==
    ASSUME ReportsAreTold, ReportsAreTold', bridge \in PublishSteps, current' = <<>>,
           UNCHANGED <<channel, outbox>>
    PROVE  /\ current \in Told
           /\ Pipeline = <<current>> \o Pipeline'
<1>1. current \in Told /\ current # <<>> /\ <<current>> \in Seq(Reports)
    BY DEF ReportsAreTold, Told, Reports
<1>2. /\ Pipeline = (<<current>> \o channel) \o outbox
      /\ Pipeline' = (<<>> \o channel) \o outbox
      /\ channel \in Seq(Reports) /\ outbox \in Seq(Reports)
    BY <1>1, PipelineParts DEF Pipeline, Taken
<1>3. Pipeline' = channel \o outbox
    BY <1>2, ConcatEmptySeq
<1> QED
    BY <1>1, <1>2, <1>3, ConcatAssociative

\* Without its first reports the pipeline is still in order: when the end of a
\* connection was among them, the connection is not reported after it.
LEMMA FollowsAfterFirst ==
    ASSUME ReportsAreTold', ReportsFollow, UNCHANGED tracked, lost \subseteq lost',
           NEW p \in Seq(Reports), Pipeline = p \o Pipeline'
    PROVE  ReportsFollow'
<1>1. Pipeline' \in Seq(Reports)
    BY PipelineIsNext
<1>2. ToSet(Pipeline) = ToSet(p) \cup ToSet(Pipeline')
    BY <1>1, ContentsOfReports
<1>3. /\ Pipeline' \in Ordered
      /\ \A c \in Clients : <<"inactive", c>> \in ToSet(p) => <<"active", c>> \notin ToSet(Pipeline')
    BY <1>1, OrderOfConcat DEF ReportsFollow
<1> QED
    BY <1>2, <1>3 DEF ReportsFollow

\* Its last reports may be dropped when the clients whose ends they report are counted.
LEMMA FollowsBeforeLast ==
    ASSUME ReportsAreTold', ReportsFollow, lost \subseteq lost',
           \A c \in Clients : tracked[c] \in {"gone", "connected"} => tracked'[c] = tracked[c],
           NEW p \in Seq(Reports), Pipeline = Pipeline' \o p,
           \A c \in Clients \ lost' : <<"inactive", c>> \notin ToSet(p)
    PROVE  ReportsFollow'
<1>1. Pipeline' \in Seq(Reports)
    BY PipelineIsNext
<1>2. ToSet(Pipeline) = ToSet(Pipeline') \cup ToSet(p)
    BY <1>1, ContentsOfReports
<1>3. Pipeline' \in Ordered
    BY <1>1, OrderOfConcat DEF ReportsFollow
<1> QED
    BY <1>2, <1>3 DEF ReportsFollow

\* A step that adds reports at the end keeps them in order when nobody is reported to
\* be connected whose end is under way.
LEMMA FollowsWithMore ==
    ASSUME ReportsAreTold, ReportsFollow, NEW q \in Seq(Reports), q \in Ordered,
           Pipeline' = Pipeline \o q, lost' = lost,
           \A c \in Clients :
             /\ <<"active", c>> \in ToSet(q) => tracked[c] # "gone" /\ tracked'[c] = "connected"
             /\ <<"inactive", c>> \in ToSet(q) => tracked'[c] = "gone"
             /\ tracked[c] = "gone" => tracked'[c] = "gone"
             /\ tracked[c] = "connected" /\ tracked'[c] # "connected" => <<"inactive", c>> \in ToSet(q)
    PROVE  /\ ReportsFollow'
           /\ ActiveIsBacked /\ UNCHANGED <<active, orphaned>> /\ active \in SUBSET Clients
                => ActiveIsBacked'
<1>1. Pipeline \in Seq(Reports)
    BY PipelineParts
<1>2. ToSet(Pipeline') = ToSet(Pipeline) \cup ToSet(q)
    BY <1>1, ContentsOfReports
<1>3. Pipeline' \in Ordered
    BY <1>1, OrderOfConcat DEF ReportsFollow
<1>4. ReportsFollow'
    BY <1>2, <1>3 DEF ReportsFollow
<1>5. ASSUME ActiveIsBacked, UNCHANGED <<active, orphaned>>, active \in SUBSET Clients
      PROVE ActiveIsBacked'
    BY <1>2, <1>5 DEF ActiveIsBacked
<1> QED
    BY <1>4, <1>5

\* Publishing and dropping a report.
LEMMA PublishFollows ==
    ASSUME ReportsAreTold, ReportsAreTold', Followed, PublishStep \/ PublishFails
    PROVE  Followed'
<1> USE DEF matchVars, bucketVars, bridgeVars, appVars, transport, OthersUnchanged
<1>a. active \in SUBSET Clients /\ ReportsFollow /\ DeletesFirst /\ ActiveIsBacked
    BY DEF Followed
<1>1. CASE PutAck \/ ConsumeSet \/ DeleteActive \/ ReadIndex \/ DeleteSet \/ DeleteAck
  <2>1. /\ UNCHANGED <<current, channel, outbox, tracked, lost, orphaned>>
        /\ active' \subseteq active
      BY <1>1 DEF PutAck, ConsumeSet, DeleteActive, ReadIndex, DeleteSet, DeleteAck
  <2>2. Pipeline' = Pipeline
      BY <2>1 DEF Pipeline
  <2>3. DeletesFirst'
      BY <1>a, <1>1 DEF PutAck, ConsumeSet, DeleteActive, ReadIndex, DeleteSet, DeleteAck,
         DeletesFirst, Step, Subject
  <2>4. ReportsFollow' /\ ActiveIsBacked'
      BY <1>a, <2>1, <2>2 DEF ReportsFollow, ActiveIsBacked
  <2> QED
      BY <1>a, <2>1, <2>3, <2>4 DEF Followed
<1>2. CASE ConsumeIndex \/ PutActive \/ DeleteIndex \/ PublishFails
  <2>1. /\ bridge \in PublishSteps /\ bridge' = "select" /\ current' = <<>>
        /\ UNCHANGED <<channel, outbox, tracked, orphaned>> /\ lost \subseteq lost'
        /\ active' = active \/ (PutActive /\ active' = active \cup {Subject})
      BY <1>2 DEF ConsumeIndex, PutActive, DeleteIndex, PublishFails, Step, PublishSteps
  <2>2. current \in Told /\ Pipeline = <<current>> \o Pipeline' /\ <<current>> \in Seq(Reports)
      BY <2>1, TakenIsFirst DEF Told
  <2>3. ReportsFollow'
      BY <1>a, <2>1, <2>2, FollowsAfterFirst
  <2>4. DeletesFirst'
      BY <2>1 DEF DeletesFirst
  <2>5. ToSet(Pipeline) = {current} \cup ToSet(Pipeline')
    <3>1. ToSet(Pipeline) = ToSet(<<current>>) \cup ToSet(Pipeline')
      <4>1. Pipeline' \in Seq(Reports)
          BY PipelineIsNext
      <4> QED
          BY <2>2, <4>1, ContentsOfReports
    <3> QED
        BY <3>1 DEF ToSet
  <2>6. Subject \in Clients /\ current = <<current[1], Subject>>
      BY <2>2 DEF Told, Reports, Subject
  <2>7. CASE PutActive
    <3>1. current[1] = "active"
        BY <2>7, <2>6 DEF PutActive, Step, ReportsAreTold, PublishSteps, StepsOf, Told, Reports
    <3>2. current = <<"active", Subject>> /\ lost' = lost /\ active' = active \cup {Subject}
        BY <2>6, <2>7, <3>1 DEF PutActive
    <3> HIDE DEF Subject
    <3>3. \A c \in Clients : <<"inactive", c>> # current
        BY <3>2
    <3>4. ActiveIsBacked'
        BY <1>a, <2>1, <2>5, <2>6, <3>2, <3>3 DEF ActiveIsBacked, ReportsFollow
    <3> QED
        BY <1>a, <2>3, <2>4, <2>6, <3>2, <3>4 DEF Followed
  <2>8. CASE ~PutActive
    <3>1. active' = active
        BY <2>1, <2>8
    <3>2. ASSUME NEW c \in Clients, current = <<"inactive", c>> PROVE c \in lost' \/ c \notin active
      <4>1. Subject = c
          BY <3>2 DEF Subject
      <4>2. CASE PublishFails
          BY <4>1, <4>2 DEF PublishFails
      <4>3. CASE DeleteIndex
          BY <1>a, <4>1, <4>3 DEF DeleteIndex, Step, DeletesFirst
      <4>4. CASE ConsumeIndex
          BY <3>2, <4>4 DEF ConsumeIndex, Step, ReportsAreTold, PublishSteps, StepsOf
      <4> QED
          BY <1>2, <2>8, <4>2, <4>3, <4>4
    <3>3. ActiveIsBacked'
        BY <1>a, <2>1, <2>5, <3>1, <3>2 DEF ActiveIsBacked
    <3> QED
        BY <1>a, <2>3, <2>4, <3>1, <3>3 DEF Followed
  <2> QED
      BY <2>7, <2>8
<1> QED
    BY <1>1, <1>2 DEF PublishStep

\* How the parts are put together does not matter.
LEMMA ReportsAssociate == \A s, t, u \in Seq(Reports) : (s \o t) \o u = s \o (t \o u)
BY ConcatAssociative

\* What is queued in the app comes last.
LEMMA QueuedIsLast ==
    ASSUME ReportsAreTold, NEW q \in Seq(Reports), outbox' = outbox \o q,
           UNCHANGED <<current, channel>>
    PROVE  Pipeline' = Pipeline \o q
<1>1. /\ Pipeline = (Taken \o channel) \o outbox
      /\ Pipeline' = (Taken \o channel) \o (outbox \o q)
    BY PipelineParts DEF Pipeline, Taken
<1>2. Taken \o channel \in Seq(Reports) /\ outbox \in Seq(Reports)
    BY PipelineParts, ConcatProperties
<1> HIDE DEF Taken
<1> QED
    BY <1>1, <1>2, ReportsAssociate

\* A revocation reports the end of connections that are gone with it.
LEMMA RevokeFollows ==
    ASSUME ReportsAreTold, Followed, NEW clients \in SUBSET Clients, Revoke(clients),
           tracked \in [Clients -> {"none", "waiting", "connected", "gone"}],
           UNCHANGED <<channel, bridge, current, lost, active, orphaned>>
    PROVE  Followed'
<1> DEFINE q == [i \in 1..Cardinality(clients) |-> <<"inactive", SetToSeq(clients)[i]>>]
<1>1. outbox' = outbox \o q
      /\ tracked' = [c \in Clients |-> IF c \in clients THEN "gone" ELSE tracked[c]]
    BY DEF Revoke
<1>2. q \in Seq({"inactive"} \X clients) /\ ToSet(q) = {"inactive"} \X clients
    BY RevocationReports
<1> HIDE DEF q
<1>3. q \in Seq(Reports)
  <2>1. {"inactive"} \X clients \subseteq Reports
      BY DEF Reports
  <2> QED
      BY <1>2, <2>1, SeqMonotonic
<1>4. \A c \in Clients : <<"active", c>> \notin ToSet(q) /\ (<<"inactive", c>> \in ToSet(q) <=> c \in clients)
    BY <1>2
<1>5. q \in Ordered
    BY <1>3, <1>4, OneKindIsOrdered
<1>6. Pipeline' = Pipeline \o q
    BY <1>1, <1>3, QueuedIsLast
<1>7. \A c \in Clients :
        /\ <<"active", c>> \in ToSet(q) => tracked[c] # "gone" /\ tracked'[c] = "connected"
        /\ <<"inactive", c>> \in ToSet(q) => tracked'[c] = "gone"
        /\ tracked[c] = "gone" => tracked'[c] = "gone"
        /\ tracked[c] = "connected" /\ tracked'[c] # "connected" => <<"inactive", c>> \in ToSet(q)
    BY <1>1, <1>4
<1>8. /\ ReportsFollow'
      /\ ActiveIsBacked /\ UNCHANGED <<active, orphaned>> /\ active \in SUBSET Clients => ActiveIsBacked'
    BY <1>3, <1>5, <1>6, <1>7, FollowsWithMore DEF Followed
<1>9. DeletesFirst'
    BY DEF DeletesFirst, Subject, Followed
<1> QED
    BY <1>8, <1>9 DEF Followed

\* Sending what is queued, with the acknowledgements of what has arrived.
LEMMA SyncFollows ==
    ASSUME GateIndInv, ReportsAreTold, ReportsAreTold', Followed, SyncNatsBridge
    PROVE  Followed'
<1> DEFINE q == PreparedReports
<1>a. active \in SUBSET Clients /\ ReportsFollow /\ DeletesFirst /\ ActiveIsBacked
    BY DEF Followed
<1>1. /\ UNCHANGED <<bridge, current, active, orphaned>> /\ outbox' = <<>>
      /\ tracked' = [c \in Clients |-> IF c \in New THEN "waiting" ELSE tracked[c]]
    BY DEF SyncNatsBridge, bucketVars
<1>2. /\ q \in Seq({"prepared"} \X Clients) /\ q \in Seq(Reports)
      /\ \A c \in Clients : <<"active", c>> \notin ToSet(q) /\ <<"inactive", c>> \notin ToSet(q)
  <2>1. q \in Seq({"prepared"} \X Clients)
      BY ArrivalsArePrepared
  <2> HIDE DEF q
  <2>2. {"prepared"} \X Clients \subseteq Reports
      BY DEF Reports
  <2>3. ToSet(q) \subseteq {"prepared"} \X Clients
      BY <2>1 DEF ToSet
  <2> QED
      BY <2>1, <2>2, <2>3, SeqMonotonic
<1>3. \A c \in Clients : tracked[c] \in {"gone", "connected"} => tracked'[c] = tracked[c]
  <2>1. \A c \in New : tracked[c] = "none"
      BY DEF GateIndInv, AppTypes, SentOnce, New, ToSet
  <2> QED
      BY <1>1, <2>1
<1>4. \A c \in Clients : tracked'[c] = "connected" => tracked[c] = "connected"
    BY <1>1
<1>5. DeletesFirst'
    BY <1>a, <1>1 DEF DeletesFirst, Subject
<1>6. /\ Taken \in Seq(Reports) /\ channel \in Seq(Reports) /\ outbox \in Seq(Reports)
      /\ Pipeline = (Taken \o channel) \o outbox
      /\ Pipeline' = (Taken \o channel') \o <<>>
    BY <1>1, PipelineParts DEF Pipeline, Taken
<1> HIDE DEF q, Taken
<1>7. Taken \o channel \in Seq(Reports) /\ outbox \o q \in Seq(Reports)
    BY <1>2, <1>6, ConcatProperties
<1>8. CASE bridge = "ended"
  <2>1. /\ channel' = channel
        /\ lost' = lost \cup {c \in Clients : \E i \in DOMAIN (outbox \o q) : (outbox \o q)[i][2] = c}
      BY <1>8 DEF SyncNatsBridge, q
  <2>2. Pipeline = Pipeline' \o outbox
      BY <1>6, <1>7, <2>1, ConcatEmptySeq
  <2>3. \A c \in Clients \ lost' : <<"inactive", c>> \notin ToSet(outbox)
    <3>1. ToSet(outbox) \subseteq ToSet(outbox \o q)
        BY <1>2, <1>6, ContentsOfReports
    <3>2. \A c \in Clients \ lost' : <<"inactive", c>> \notin ToSet(outbox \o q)
        BY <2>1 DEF ToSet
    <3> QED
        BY <3>1, <3>2
  <2>4. ReportsFollow'
      BY <1>a, <1>3, <1>6, <2>1, <2>2, <2>3, FollowsBeforeLast
  <2>5. ToSet(Pipeline) = ToSet(Pipeline') \cup ToSet(outbox)
    <3>1. Pipeline' \in Seq(Reports)
        BY PipelineIsNext
    <3> QED
        BY <1>6, <2>2, <3>1, ContentsOfReports
  <2>6. ActiveIsBacked'
      BY <1>a, <1>1, <1>3, <2>1, <2>3, <2>5 DEF ActiveIsBacked
  <2> QED
      BY <1>a, <1>1, <1>5, <2>4, <2>6 DEF Followed
<1>9. CASE bridge # "ended"
  <2>1. channel' = channel \o (outbox \o q) /\ lost' = lost
      BY <1>9 DEF SyncNatsBridge, q
  <2>2. Pipeline' = Pipeline \o q
    <3>1. Pipeline' = (Taken \o (channel \o (outbox \o q))) \o <<>>
        BY <1>6, <2>1
    <3>2. channel \o (outbox \o q) \in Seq(Reports)
        BY <1>6, <1>7, ConcatProperties
    <3>3. Pipeline' = Taken \o (channel \o (outbox \o q))
      <4>1. Taken \o (channel \o (outbox \o q)) \in Seq(Reports)
          BY <1>6, <3>2, ConcatProperties
      <4> QED
          BY <3>1, <4>1, ConcatEmptySeq
    <3>4. Pipeline' = (Taken \o channel) \o (outbox \o q)
      <4>1. (Taken \o channel) \o (outbox \o q) = Taken \o (channel \o (outbox \o q))
          BY <1>6, <1>7, ReportsAssociate, Zenon
      <4> QED
          BY <3>3, <4>1
    <3>5. ((Taken \o channel) \o outbox) \o q = (Taken \o channel) \o (outbox \o q)
      <4>1. Taken \o channel \in Seq(Reports) /\ outbox \in Seq(Reports) /\ q \in Seq(Reports)
          BY <1>2, <1>6, <1>7
      <4> QED
          BY <4>1, ReportsAssociate
    <3> QED
        BY <1>6, <3>4, <3>5
  <2>3. q \in Ordered
      BY <1>2, OneKindIsOrdered
  <2>4. \A c \in Clients :
          /\ <<"active", c>> \in ToSet(q) => tracked[c] # "gone" /\ tracked'[c] = "connected"
          /\ <<"inactive", c>> \in ToSet(q) => tracked'[c] = "gone"
          /\ tracked[c] = "gone" => tracked'[c] = "gone"
          /\ tracked[c] = "connected" /\ tracked'[c] # "connected" => <<"inactive", c>> \in ToSet(q)
      BY <1>2, <1>3
  <2>5. /\ ReportsFollow'
        /\ ActiveIsBacked /\ UNCHANGED <<active, orphaned>> /\ active \in SUBSET Clients => ActiveIsBacked'
      BY <1>a, <1>2, <2>1, <2>2, <2>3, <2>4, FollowsWithMore
  <2> QED
      BY <1>a, <1>1, <1>5, <2>5 DEF Followed
<1> QED
    BY <1>8, <1>9

\* The actions that touch neither the reports nor what they are about.
LEMMA FollowedIsLeft ==
    ASSUME Followed,
           \/ Connect \/ Poll \/ InstallHandler \/ UNCHANGED vars
           \/ \E c \in Clients : PutByServer(c) \/ PutByClient(c) \/ Withdraw(c)
                                 \/ HandleRequest(c) \/ Leave(c)
    PROVE  Followed'
<1> USE DEF matchVars, bucketVars, bridgeVars, appVars, transport, AppUnchanged
<1> SUFFICES /\ UNCHANGED <<channel, outbox, current, lost, active, orphaned, tracked>>
             /\ bridge' \in {bridge, "select"}
    BY DEF Followed, ReportsFollow, DeletesFirst, ActiveIsBacked, Pipeline, Subject
<1>1. CASE Connect \/ Poll \/ InstallHandler \/ UNCHANGED vars
    BY <1>1 DEF Connect, Step, Poll, InstallHandler, vars
<1>2. ASSUME NEW c \in Clients,
             PutByServer(c) \/ PutByClient(c) \/ Withdraw(c) \/ HandleRequest(c) \/ Leave(c)
      PROVE /\ UNCHANGED <<channel, outbox, current, lost, active, orphaned, tracked>>
            /\ bridge' \in {bridge, "select"}
    BY <1>2 DEF PutByServer, PutByClient, Withdraw, HandleRequest, Leave, Move
<1> QED
    BY <1>1, <1>2

\* Every step keeps the inductive invariant.
LEMMA StepFollowIndInv == FollowIndInv /\ [Next]_vars => FollowIndInv'
<1> SUFFICES ASSUME FollowIndInv, [Next]_vars PROVE FollowIndInv'
    OBVIOUS
<1> USE DEF matchVars, bucketVars, bridgeVars, appVars, transport, AppUnchanged
<1>a. /\ AckIndInv /\ GateIndInv /\ ReportsAreTold /\ Followed
      /\ active \in SUBSET Clients /\ ReportsFollow /\ DeletesFirst /\ ActiveIsBacked
      /\ tracked \in [Clients -> {"none", "waiting", "connected", "gone"}]
    BY DEF FollowIndInv, AckIndInv, Followed, GateIndInv, AppTypes
<1>b. AckIndInv' /\ ReportsAreTold'
    BY <1>a, StepAckIndInv DEF AckIndInv
<1> SUFFICES Followed'
    BY <1>b DEF FollowIndInv, Followed
<1>1. CASE ConnectFails
  <2>1. /\ bridge = "connecting" /\ bridge' = "ended" /\ channel' = <<>>
        /\ UNCHANGED <<current, outbox, tracked, active, orphaned>>
        /\ lost' = lost \cup {c \in Clients : \E i \in DOMAIN channel : channel[i][2] = c}
      BY <1>1 DEF ConnectFails, Step
  <2>2. current = <<>>
      BY <1>a, <2>1 DEF ReportsAreTold, PublishSteps
  <2>3. channel \in Seq(Reports) /\ outbox \in Seq(Reports)
        /\ Pipeline = (<<>> \o channel) \o outbox /\ Pipeline' = (<<>> \o <<>>) \o outbox
      BY <1>a, <2>1, <2>2, PipelineParts DEF Pipeline
  <2>4. Pipeline' = outbox /\ Pipeline = channel \o Pipeline'
    <3>1. <<>> \o <<>> = <<>> /\ <<>> \o channel = channel /\ <<>> \o outbox = outbox
        BY <2>3, EmptySeq, ConcatEmptySeq
    <3> QED
        BY <2>3, <3>1
  <2>5. ReportsFollow'
      BY <1>a, <1>b, <2>1, <2>3, <2>4, FollowsAfterFirst
  <2>6. ToSet(Pipeline) = ToSet(channel) \cup ToSet(Pipeline')
      BY <2>3, <2>4, ContentsOfReports
  <2>7. \A c \in Clients \ lost' : <<"inactive", c>> \notin ToSet(channel)
      BY <2>1 DEF ToSet
  <2>8. ActiveIsBacked'
      BY <1>a, <2>1, <2>6, <2>7 DEF ActiveIsBacked
  <2> QED
      BY <1>a, <2>1, <2>5, <2>8 DEF Followed, DeletesFirst
<1>2. CASE TakeReport
  <2>1. /\ channel # <<>> /\ current' = Head(channel) /\ channel' = Tail(channel)
        /\ bridge = "select" /\ bridge' = FirstStep(Head(channel))
        /\ UNCHANGED <<outbox, tracked, lost, active, orphaned>>
      BY <1>2 DEF TakeReport, Step
  <2>2. current = <<>> /\ Head(channel) \in Reports /\ Tail(channel) \in Seq(Reports)
        /\ channel \in Seq(Reports)
    <3>1. channel \in Seq(Reports)
        BY <1>a, PipelineParts
    <3> QED
        BY <1>a, <2>1, <3>1, HeadTailProperties DEF ReportsAreTold, PublishSteps
  <2>3. channel = <<Head(channel)>> \o Tail(channel) /\ Head(channel) # <<>>
    <3>1. \A s \in Seq(Reports) : s # <<>> => s = <<Head(s)>> \o Tail(s)
        OBVIOUS
    <3>2. channel = <<Head(channel)>> \o Tail(channel)
        BY <2>1, <2>2, <3>1
    <3>3. Head(channel) # <<>>
        BY <2>2 DEF Reports
    <3> QED
        BY <3>2, <3>3
  <2>4. Pipeline' = Pipeline
    <3>1. <<>> \o channel = channel
        BY <2>2, ConcatEmptySeq
    <3> QED
        BY <2>1, <2>2, <2>3, <3>1 DEF Pipeline
  <2>5. DeletesFirst'
      BY <2>1, <2>2 DEF DeletesFirst, FirstStep, Reports
  <2> QED
      BY <1>a, <2>1, <2>4, <2>5 DEF Followed, ReportsFollow, ActiveIsBacked
<1>3. CASE Crash
  <2>1. /\ Pipeline' = (<<>> \o <<>>) \o <<>> /\ bridge' = "connecting"
        /\ active' = active /\ orphaned' = orphaned \cup active
      BY <1>3 DEF Crash, Pipeline
  <2>2. Pipeline' = <<>> /\ <<>> \in Seq(Reports)
      BY <2>1, EmptySeq, ConcatEmptySeq
  <2>3. ToSet(Pipeline') = {}
      BY <2>2 DEF ToSet
  <2>4. Pipeline' \in Ordered
      BY <2>2, <2>3, OneKindIsOrdered
  <2> QED
      BY <1>a, <2>1, <2>3, <2>4 DEF Followed, ReportsFollow, DeletesFirst, ActiveIsBacked
<1>4. ASSUME NEW c \in Clients, HandleConnected(c) PROVE Followed'
  <2>1. UNCHANGED <<channel, current, bridge, lost, active, orphaned>>
      BY <1>4 DEF HandleConnected
  <2>2. DeletesFirst'
      BY <1>a, <2>1 DEF DeletesFirst, Subject
  <2>3. CASE tracked[c] \in {"waiting", "connected"}
    <3> DEFINE q == <<<<"active", c>>>>
    <3>1. outbox' = Append(outbox, <<"active", c>>) /\ tracked' = [tracked EXCEPT ![c] = "connected"]
        BY <1>4, <2>3 DEF HandleConnected
    <3>2. <<"active", c>> \in Reports /\ q \in Seq(Reports) /\ ToSet(q) = {<<"active", c>>}
        BY DEF Reports, ToSet
    <3>3. outbox' = outbox \o q
        BY <1>a, <3>1, <3>2, PipelineParts, AppendIsConcat
    <3> HIDE DEF q
    <3>4. Pipeline' = Pipeline \o q
        BY <1>a, <2>1, <3>2, <3>3, QueuedIsLast
    <3>5. q \in Ordered
        BY <3>2, OneKindIsOrdered
    <3>6. \A d \in Clients :
            /\ <<"active", d>> \in ToSet(q) => tracked[d] # "gone" /\ tracked'[d] = "connected"
            /\ <<"inactive", d>> \in ToSet(q) => tracked'[d] = "gone"
            /\ tracked[d] = "gone" => tracked'[d] = "gone"
            /\ tracked[d] = "connected" /\ tracked'[d] # "connected" => <<"inactive", d>> \in ToSet(q)
        BY <1>a, <2>3, <3>1, <3>2
    <3>7. /\ ReportsFollow'
          /\ ActiveIsBacked /\ UNCHANGED <<active, orphaned>> /\ active \in SUBSET Clients => ActiveIsBacked'
        BY <1>a, <2>1, <3>2, <3>4, <3>5, <3>6, FollowsWithMore
    <3> QED
        BY <1>a, <2>1, <2>2, <3>7 DEF Followed
  <2>4. CASE tracked[c] \notin {"waiting", "connected"}
    <3>1. UNCHANGED <<tracked, outbox>>
        BY <1>4, <2>4 DEF HandleConnected
    <3>2. Pipeline' = Pipeline
        BY <2>1, <3>1 DEF Pipeline
    <3> QED
        BY <1>a, <2>1, <2>2, <3>1, <3>2 DEF Followed, ReportsFollow, ActiveIsBacked
  <2> QED
      BY <2>3, <2>4
<1>5. ASSUME NEW c \in Clients, HandleDisconnected(c) PROVE Followed'
  <2>1. UNCHANGED <<channel, current, bridge, lost, active, orphaned>>
      BY <1>5 DEF HandleDisconnected
  <2>2. CASE Revoke({c})
      BY <1>a, <2>1, <2>2, RevokeFollows
  <2>3. CASE UNCHANGED <<tracked, outbox>>
    <3>1. Pipeline' = Pipeline
        BY <2>1, <2>3 DEF Pipeline
    <3> QED
        BY <1>a, <2>1, <2>3, <3>1 DEF Followed, ReportsFollow, ActiveIsBacked, DeletesFirst, Subject
  <2> QED
      BY <1>5, <2>2, <2>3 DEF HandleDisconnected
<1>6. CASE ExpireUnconnected
  <2>1. PICK overdue \in SUBSET Clients : Revoke(overdue)
      BY <1>6 DEF ExpireUnconnected
  <2>2. UNCHANGED <<channel, current, bridge, lost, active, orphaned>>
      BY <1>6 DEF ExpireUnconnected
  <2> QED
      BY <1>a, <2>1, <2>2, RevokeFollows
<1>7. CASE PublishStep \/ PublishFails
    BY <1>a, <1>b, <1>7, PublishFollows
<1>8. CASE SyncNatsBridge
    BY <1>a, <1>b, <1>8, SyncFollows
<1> QED
    BY <1>a, <1>1, <1>2, <1>3, <1>4, <1>5, <1>6, <1>7, <1>8, FollowedIsLeft DEF Next

\* The initial states satisfy the inductive invariant.
LEMMA FollowInit == Init => FollowIndInv
<1> SUFFICES ASSUME Init PROVE FollowIndInv
    OBVIOUS
<1>1. Pipeline = (<<>> \o <<>>) \o <<>> /\ active = {} /\ bridge = "connecting"
    BY DEF Init, Pipeline
<1>2. Pipeline = <<>> /\ <<>> \in Seq(Reports)
    BY <1>1, EmptySeq, ConcatEmptySeq
<1>3. ToSet(Pipeline) = {}
    BY <1>2 DEF ToSet
<1>4. Pipeline \in Ordered
    BY <1>2, <1>3, OneKindIsOrdered
<1> QED
    BY <1>1, <1>3, <1>4, AckInit DEF FollowIndInv, Followed, ReportsFollow, DeletesFirst,
       ActiveIsBacked

\* The inductive invariant of the reports: they are queued, sent, taken and published
\* in the order in which the app noticed the events.
THEOREM BridgeFollowIndInv == Spec => []FollowIndInv
BY FollowInit, StepFollowIndInv, PTL DEF Spec

\* An entry in the bucket of active connections never outlives its client: the client is
\* connected, or the entry's deletion is under way, unless a report of the client was
\* dropped or the process that wrote the entry crashed.
THEOREM BridgeActiveIsBacked == Spec => []ActiveIsBacked
<1>1. FollowIndInv => ActiveIsBacked
    BY DEF FollowIndInv, Followed
<1> QED
    BY <1>1, BridgeFollowIndInv, PTL
=============================================================================
