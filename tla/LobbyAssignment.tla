--------------------------- MODULE LobbyAssignment ---------------------------
(***************************************************************************)
(* The attempts to assign one lobby, from the ready command that completes *)
(* it to the grants: one allocation for the whole roster, a record per     *)
(* member, put and waited for one after the other, and one cleanup for all *)
(* of them; interleaved with the game servers' bridges and gates and an    *)
(* operator's drain.                                                       *)
(*                                                                         *)
(* Members are numbered as they joined.  Each attempt draws new request    *)
(* and client ids, so the pair <<attempt, member>> stands for a record and *)
(* the attempt's number for its allocation.  The compare-and-set loops of  *)
(* the pending sets are steps (see ServerAssignments), and a bridge        *)
(* consumes a record it has acknowledged in one step (see AssignmentFlow). *)
(***************************************************************************)
EXTENDS Naturals, Sequences

CONSTANTS
    Size,        \* members of the lobby
    Servers,     \* game servers with an unexpired ready capacity entry
    Alive,       \* those whose process still runs
    NoServer,    \* the server of an attempt that has none
    MaxRetries,  \* assignment_prepare_max_retries
    Drainable,   \* bound: servers an operator may drain, once each
    MaxFaults    \* bound: operations that fail in a behaviour

ASSUME LobbyAssumption ==
    /\ Size \in Nat \ {0}
    /\ NoServer \notin Servers
    /\ Alive \subseteq Servers
    /\ MaxRetries \in Nat
    /\ Drainable \subseteq Servers
    /\ MaxFaults \in Nat

VARIABLES
    pc,        \* where the task that assigns the lobby is
    attempt,   \* number of the attempt
    member,    \* the member the current loop has come to
    avoid,     \* avoid_server_ids
    server,    \* server of each attempt's allocation
    granted,   \* records whose member was sent a grant
    byServer,  \* assignments_by_server
    byClient,  \* assignments_by_client
    acks,      \* assignments_prepared
    seen,      \* seen_assignments of each bridge
    gate,      \* records each server's gate admits
    outbox,    \* prepared reports queued for each bridge
    bridge,    \* whether each bridge is about to consume what it acknowledged
    drained,   \* servers that are drained
    admin,     \* step of the drain call of each server
    canceled,  \* records the drain call listed
    deletes,   \* DeleteAssignment jobs queued per record
    releases,  \* ReleaseAllocation jobs queued per attempt
    faults

taskVars   == <<pc, attempt, member, avoid, server, granted>>
bucketVars == <<byServer, byClient, acks>>
serverVars == <<seen, gate, outbox, bridge>>
drainVars  == <<drained, admin, canceled>>
jobVars    == <<deletes, releases>>
vars == <<taskVars, bucketVars, serverVars, drainVars, jobVars, faults>>

Attempts == 0..MaxRetries
Members == 1..Size
Records == Attempts \X Members

Record == <<attempt, member>>
Target == server[attempt]
RecordsOf(a) == {a} \X Members

WaitLabels == {"check_drain", "read_ack"}
CleanupLabels == {"delete_pending", "delete_ack", "enqueue_delete", "enqueue_release"}
Labels == {"idle", "allocate", "put_by_server", "put_by_client", "grant", "granted", "failed"}
              \cup WaitLabels \cup CleanupLabels

Init ==
    /\ pc = "idle"
    /\ attempt = 0
    /\ member = 1
    /\ avoid = {}
    /\ server = [a \in Attempts |-> NoServer]
    /\ granted = {}
    /\ byServer = [s \in Servers |-> {}]
    /\ byClient = {}
    /\ acks = {}
    /\ seen = [s \in Servers |-> {}]
    /\ gate = [s \in Servers |-> {}]
    /\ outbox = [s \in Servers |-> <<>>]
    /\ bridge = [s \in Servers |-> "idle"]
    /\ drained = {}
    /\ admin = [s \in Servers |-> "idle"]
    /\ canceled = [s \in Servers |-> {}]
    /\ deletes = [r \in Records |-> 0]
    /\ releases = [a \in Attempts |-> 0]
    /\ faults = 0

Fault == faults < MaxFaults /\ faults' = faults + 1

-----------------------------------------------------------------------------
(* The task.                                                               *)

Goto(from, to) ==
    /\ pc = from
    /\ pc' = to

\* The end of one member's turn: the next member's, or what follows the loop.
NextMember(from, again, after) ==
    IF member < Size
      THEN Goto(from, again) /\ member' = member + 1
      ELSE Goto(from, after) /\ member' = 1

\* assign_lobby: the servers drained by now are avoided.
AssignLobby ==
    /\ Goto("idle", "allocate")
    /\ avoid' = drained
    /\ UNCHANGED <<attempt, member, server, granted, bucketVars, serverVars, drainVars,
                   jobVars, faults>>

Candidates == Servers \ (avoid \cup drained)

Allocate ==
    /\ Goto("allocate", "put_by_server")
    /\ \E s \in Candidates : server' = [server EXCEPT ![attempt] = s]
    /\ UNCHANGED <<attempt, member, avoid, granted, bucketVars, serverVars, drainVars,
                   jobVars, faults>>

NoCapacity ==
    /\ Goto("allocate", "failed")
    /\ Candidates = {}
    /\ UNCHANGED <<attempt, member, avoid, server, granted, bucketVars, serverVars,
                   drainVars, jobVars, faults>>

PutByServer ==
    /\ Goto("put_by_server", "put_by_client")
    /\ byServer' = [byServer EXCEPT ![Target] = @ \cup {Record}]
    /\ UNCHANGED <<attempt, member, avoid, server, granted, byClient, acks, serverVars,
                   drainVars, jobVars, faults>>

\* After the last record the task waits for the first.
PutByClient ==
    /\ NextMember("put_by_client", "put_by_server", "check_drain")
    /\ byClient' = byClient \cup {Record}
    /\ UNCHANGED <<attempt, avoid, server, granted, byServer, acks, serverVars, drainVars,
                   jobVars, faults>>

\* A failed attempt is cleaned up from its first member on.
GiveUp ==
    /\ pc' = "delete_pending"
    /\ member' = 1

CheckDrain ==
    /\ IF Target \in drained
         THEN pc = "check_drain" /\ GiveUp
         ELSE Goto("check_drain", "read_ack") /\ UNCHANGED member
    /\ UNCHANGED <<attempt, avoid, server, granted, bucketVars, serverVars, drainVars,
                   jobVars, faults>>

ReadAckAny ==   \* deviation: one prepared member is taken for all
    /\ IF Record \in acks
         THEN Goto("read_ack", "grant") /\ member' = 1
         ELSE Goto("read_ack", "check_drain") /\ UNCHANGED member
    /\ UNCHANGED <<attempt, avoid, server, granted, bucketVars, serverVars, drainVars,
                   jobVars, faults>>

ReadAck ==
    /\ IF Record \in acks
         THEN NextMember("read_ack", "check_drain", "grant")
         ELSE Goto("read_ack", "check_drain") /\ UNCHANGED member
    /\ UNCHANGED <<attempt, avoid, server, granted, bucketVars, serverVars, drainVars,
                   jobVars, faults>>

PrepareTimeoutAtRead ==   \* deviation: the deadline is noticed at one point only
    /\ pc = "read_ack"
    /\ GiveUp
    /\ UNCHANGED <<attempt, avoid, server, granted, bucketVars, serverVars, drainVars,
                   jobVars, faults>>

\* Each member has a deadline of its own.
PrepareTimeout ==
    /\ pc \in WaitLabels
    /\ GiveUp
    /\ UNCHANGED <<attempt, avoid, server, granted, bucketVars, serverVars, drainVars,
                   jobVars, faults>>

\* issue_connection_grant for one member, and its message.
Grant ==
    /\ NextMember("grant", "grant", "granted")
    /\ granted' = granted \cup {Record}
    /\ UNCHANGED <<attempt, avoid, server, bucketVars, serverVars, drainVars, jobVars, faults>>

\* delete_assignment_for_client: pending record, acknowledgement and index; an
\* error is logged and leaves what comes after it.
DeletePending ==
    /\ Goto("delete_pending", "delete_ack")
    /\ \/ /\ Record \notin byClient
          /\ UNCHANGED <<bucketVars, faults>>
       \/ /\ Record \in byClient
          /\ byServer' = [byServer EXCEPT ![Target] = @ \ {Record}]
          /\ acks' = acks \ {Record}
          /\ byClient' = byClient \ {Record}
          /\ UNCHANGED faults
       \/ /\ Fault
          /\ byServer' \in {byServer, [byServer EXCEPT ![Target] = @ \ {Record}]}
          /\ UNCHANGED <<byClient, acks>>
    /\ UNCHANGED <<attempt, member, avoid, server, granted, serverVars, drainVars, jobVars>>

DeleteAck ==
    /\ Goto("delete_ack", "enqueue_delete")
    /\ \/ acks' = acks \ {Record} /\ UNCHANGED faults
       \/ Fault /\ UNCHANGED acks
    /\ UNCHANGED <<attempt, member, avoid, server, granted, byServer, byClient, serverVars,
                   drainVars, jobVars>>

EnqueueDeleteOnce ==   \* deviation: only the first member is cleaned up
    /\ Goto("enqueue_delete", "enqueue_release")
    /\ deletes' = [deletes EXCEPT ![Record] = @ + 1]
    /\ UNCHANGED <<attempt, member, avoid, server, granted, bucketVars, serverVars, drainVars,
                   releases, faults>>

EnqueueDelete ==
    /\ NextMember("enqueue_delete", "delete_pending", "enqueue_release")
    /\ \/ deletes' = [deletes EXCEPT ![Record] = @ + 1] /\ UNCHANGED faults
       \/ Fault /\ UNCHANGED deletes
    /\ UNCHANGED <<attempt, avoid, server, granted, bucketVars, serverVars, drainVars, releases>>

ReleaseEachMember ==   \* deviation: a release job per member
    /\ pc = "enqueue_release"
    /\ \/ /\ attempt < MaxRetries
          /\ pc' = "allocate"
          /\ attempt' = attempt + 1
       \/ /\ attempt = MaxRetries
          /\ pc' = "failed"
          /\ UNCHANGED attempt
    /\ releases' = [releases EXCEPT ![attempt] = @ + Size]
    /\ avoid' = avoid \cup {Target}
    /\ UNCHANGED <<member, server, granted, bucketVars, serverVars, drainVars, deletes, faults>>

\* One release job for the allocation the members share; then the next attempt, on
\* another server, or the error.
EnqueueRelease ==
    /\ IF attempt < MaxRetries
         THEN /\ Goto("enqueue_release", "allocate")
              /\ attempt' = attempt + 1
              /\ avoid' = avoid \cup {Target}
         ELSE /\ Goto("enqueue_release", "failed")
              /\ UNCHANGED <<attempt, avoid>>
    /\ \/ releases' = [releases EXCEPT ![attempt] = @ + 1] /\ UNCHANGED faults
       \/ Fault /\ UNCHANGED releases
    /\ UNCHANGED <<member, server, granted, bucketVars, serverVars, drainVars, deletes>>

\* The provider, a put or a token fails: the error is returned as it is, whatever
\* records and grants there are.  An error inside the wait fails the attempt.
TaskError ==
    /\ Fault
    /\ \/ /\ pc \in {"allocate", "put_by_server", "put_by_client", "grant"}
          /\ pc' = "failed"
          /\ UNCHANGED member
       \/ /\ pc \in WaitLabels
          /\ GiveUp
    /\ UNCHANGED <<attempt, avoid, server, granted, bucketVars, serverVars, drainVars, jobVars>>

-----------------------------------------------------------------------------
(* The game servers.                                                       *)

PollAssignments(s) ==
    /\ bridge[s] = "idle"
    /\ byServer[s] \ seen[s] # {}
    /\ seen' = [seen EXCEPT ![s] = @ \cup byServer[s]]
    /\ UNCHANGED <<taskVars, bucketVars, gate, outbox, bridge, drainVars, jobVars, faults>>

RegisterAssignment(s) ==
    /\ \E r \in seen[s] \ gate[s] :
         /\ gate' = [gate EXCEPT ![s] = @ \cup {r}]
         /\ outbox' = [outbox EXCEPT ![s] = Append(@, r)]
    /\ UNCHANGED <<taskVars, bucketVars, seen, bridge, drainVars, jobVars, faults>>

PublishPrepared(s) ==
    /\ bridge[s] = "idle"
    /\ outbox[s] # <<>>
    /\ acks' = acks \cup {Head(outbox[s])}
    /\ bridge' = [bridge EXCEPT ![s] = "consume"]
    /\ UNCHANGED <<taskVars, byServer, byClient, seen, gate, outbox, drainVars, jobVars, faults>>

ConsumePrepared(s) ==
    /\ bridge[s] = "consume"
    /\ byServer' = [byServer EXCEPT ![s] = @ \ {Head(outbox[s])}]
    /\ byClient' = byClient \ {Head(outbox[s])}
    /\ bridge' = [bridge EXCEPT ![s] = "idle"]
    /\ outbox' = [outbox EXCEPT ![s] = Tail(@)]
    /\ UNCHANGED <<taskVars, acks, seen, gate, drainVars, jobVars, faults>>

ReportLost(s) ==
    /\ Fault
    /\ outbox[s] # <<>>
    /\ bridge' = [bridge EXCEPT ![s] = "idle"]
    /\ outbox' = [outbox EXCEPT ![s] = Tail(@)]
    /\ UNCHANGED <<taskVars, bucketVars, seen, gate, drainVars, jobVars>>

-----------------------------------------------------------------------------
(* The operator.  What a drain does when its own calls fail, and undrains, *)
(* are in AssignmentFlow.                                                  *)

AdminStep(s, from, to) ==
    /\ admin[s] = from
    /\ admin' = [admin EXCEPT ![s] = to]

DrainGameServer(s) ==
    /\ s \in Drainable \ drained
    /\ AdminStep(s, "idle", "list_pending")
    /\ drained' = drained \cup {s}
    /\ UNCHANGED <<taskVars, bucketVars, serverVars, canceled, jobVars, faults>>

ListPending(s) ==
    /\ AdminStep(s, "list_pending", "clear_pending")
    /\ canceled' = [canceled EXCEPT ![s] = byServer[s]]
    /\ UNCHANGED <<taskVars, bucketVars, serverVars, drained, jobVars, faults>>

\* The pending set, then the index and the acknowledgement of what was listed.
ClearPending(s) ==
    /\ AdminStep(s, "clear_pending", "queue_cleanup")
    /\ byServer' = [byServer EXCEPT ![s] = {}]
    /\ byClient' = byClient \ canceled[s]
    /\ acks' = acks \ canceled[s]
    /\ UNCHANGED <<taskVars, serverVars, drained, canceled, jobVars, faults>>

\* A delete job per record that was listed, a release job per allocation.
QueueDrainCleanup(s) ==
    /\ AdminStep(s, "queue_cleanup", "done")
    /\ deletes' = [r \in Records |-> deletes[r] + (IF r \in canceled[s] THEN 1 ELSE 0)]
    /\ releases' = [a \in Attempts |->
                      releases[a] + (IF \E r \in canceled[s] : r[1] = a THEN 1 ELSE 0)]
    /\ canceled' = [canceled EXCEPT ![s] = {}]
    /\ UNCHANGED <<taskVars, bucketVars, serverVars, drained, faults>>

-----------------------------------------------------------------------------
TaskStep ==
    \/ Allocate \/ NoCapacity \/ PutByServer \/ PutByClient \/ CheckDrain \/ ReadAck \/ Grant
    \/ DeletePending \/ DeleteAck \/ EnqueueDelete \/ EnqueueRelease

DrainStep(s) == ListPending(s) \/ ClearPending(s) \/ QueueDrainCleanup(s)

Next ==
    \/ AssignLobby \/ TaskStep \/ PrepareTimeout \/ TaskError
    \/ \E s \in Alive : \/ PollAssignments(s) \/ RegisterAssignment(s) \/ PublishPrepared(s)
                        \/ ConsumePrepared(s) \/ ReportLost(s)
    \/ \E s \in Servers : DrainGameServer(s) \/ DrainStep(s)

\* The task and a drain call run on, and every wait has its deadline.
Fairness ==
    /\ WF_vars(TaskStep)
    /\ WF_vars(PrepareTimeout)
    /\ \A s \in Servers : WF_vars(DrainStep(s))

Spec == Init /\ [][Next]_vars
FairSpec == Spec /\ Fairness

-----------------------------------------------------------------------------
(* Properties.                                                             *)

TypeOK ==
    /\ pc \in Labels
    /\ attempt \in Attempts
    /\ member \in Members
    /\ avoid \in SUBSET Servers
    /\ server \in [Attempts -> Servers \cup {NoServer}]
    /\ granted \in SUBSET Records
    /\ byServer \in [Servers -> SUBSET Records]
    /\ byClient \in SUBSET Records
    /\ acks \in SUBSET Records
    /\ seen \in [Servers -> SUBSET Records]
    /\ gate \in [Servers -> SUBSET Records]
    /\ outbox \in [Servers -> Seq(Records)]
    /\ bridge \in [Servers -> {"idle", "consume"}]
    /\ drained \in SUBSET Servers
    /\ admin \in [Servers -> {"idle", "list_pending", "clear_pending", "queue_cleanup", "done"}]
    /\ canceled \in [Servers -> SUBSET Records]
    /\ deletes \in [Records -> Nat]
    /\ releases \in [Attempts -> Nat]
    /\ faults \in 0..MaxFaults

\* Nobody is sent to the game before everybody can get in: from the first grant on,
\* the attempt's server admits every member of the roster.
GrantsAreWhole ==
    (pc \in {"grant", "granted"} \/ granted # {}) =>
        /\ RecordsOf(attempt) \subseteq gate[Target]
        /\ granted \subseteq RecordsOf(attempt)

\* The members share one allocation, and it is released once: by the failed attempt
\* or by the drain of its server, at most once by each.
SharedRelease ==
    \A a \in Attempts :
        /\ releases[a] <= (IF server[a] \in drained THEN 2 ELSE 1)
        /\ (a = attempt /\ pc \in {"grant", "granted"} /\ releases[a] > 0) => server[a] \in drained

\* A lobby all of whose calls succeeded leaves no member's record and no allocation
\* of a failed attempt without its cleanup job.
AttemptsAreQueued ==
    faults = 0 =>
        \A a \in 0..attempt :
            (server[a] # NoServer /\ (a < attempt \/ pc = "failed")) =>
                /\ releases[a] > 0
                /\ \A r \in RecordsOf(a) : deletes[r] > 0

\* The member's record can still be acknowledged, or the wait ends with the drain.
Kept(m) == <<attempt, m>> \in byServer[Target] \cup seen[Target] \/ Target \in drained

\* While the task waits for a member, that member's record and those that come later
\* are pending, or known to the bridge, or the server is drained.
WaitingIsNotLost == pc \in WaitLabels => \A m \in member..Size : Kept(m)

\* What the proofs need besides.  An attempt has a server from its allocation on,
\* and only that server's records, bridge and drain call ever hold its records.
Placement ==
    /\ \A a \in Attempts : a > attempt => server[a] = NoServer
    /\ pc \in {"idle", "allocate"} => Target = NoServer
    /\ pc \notin {"idle", "allocate", "failed"} => Target \in Servers
    /\ \A s \in Servers : \A r \in byServer[s] \cup seen[s] \cup canceled[s] : server[r[1]] = s

\* What is acknowledged has been reported, what is reported is admitted.
Admission ==
    /\ \A s \in Servers : gate[s] \subseteq seen[s]
    /\ \A s \in Servers : \A i \in 1..Len(outbox[s]) : outbox[s][i] \in gate[s]
    /\ \A s \in Servers : bridge[s] # "idle" => Len(outbox[s]) > 0
    /\ \A r \in acks : server[r[1]] \in Servers /\ r \in gate[server[r[1]]]

\* The members the task no longer waits for are admitted; grants follow the last.
WaitedAreAdmitted ==
    /\ pc \in WaitLabels => \A m \in 1..(member - 1) : <<attempt, m>> \in gate[Target]
    /\ granted # {} => pc \in {"grant", "granted", "failed"} /\ Target \in Servers

\* The same of the records put so far, before the task waits.
PutsAreKept ==
    /\ pc \in {"idle", "allocate", "enqueue_release"} => member = 1
    /\ pc = "put_by_server" => \A m \in 1..(member - 1) : Kept(m)
    /\ pc = "put_by_client" => \A m \in 1..member : Kept(m)

\* A release job is the attempt's own, once it has given up, or its server's drain's,
\* once that has come to its end.
OwnRelease(a) == IF a < attempt \/ (a = attempt /\ pc = "failed") THEN 1 ELSE 0
DrainRelease(a) == IF \E s \in Servers : server[a] = s /\ admin[s] = "done" THEN 1 ELSE 0

ReleasesHaveCauses ==
    /\ \A s \in Servers : admin[s] # "idle" => s \in drained
    /\ \A a \in Attempts : releases[a] <= OwnRelease(a) + DrainRelease(a)

IndInv ==
    /\ TypeOK
    /\ Placement
    /\ Admission
    /\ WaitedAreAdmitted
    /\ PutsAreKept
    /\ ReleasesHaveCauses
    /\ GrantsAreWhole
    /\ WaitingIsNotLost

\* A complete lobby gets its answer, with live game servers or without.
LobbyIsAnswered == pc = "allocate" ~> pc \in {"granted", "failed"}
=============================================================================
