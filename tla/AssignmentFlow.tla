--------------------------- MODULE AssignmentFlow ---------------------------
(***************************************************************************)
(* The preparation of single-player assignments: websocket request tasks   *)
(* of the matchmaker, the NATS key-value buckets, the game servers' NATS   *)
(* bridges and connection gates, and the operator's drain calls, all       *)
(* interleaved at the granularity of one key-value operation.              *)
(*                                                                         *)
(* A request makes up to MaxRetries + 1 attempts; each attempt has its own *)
(* request id, client id and assignment id, so the pair                    *)
(* <<request, attempt number>> stands for all three.  An attempt's         *)
(* allocation is <<request, server>> and is used by one attempt only,      *)
(* because a retry avoids the servers that failed.                         *)
(***************************************************************************)
EXTENDS Naturals, Sequences, FiniteSets

CONSTANTS
    Requests,     \* play requests, one websocket task each
    Servers,      \* game servers with live ready capacity
    NoServer,     \* the server of an attempt that has none yet
    MaxRetries,   \* assignment_prepare_max_retries
    MaxFaults,    \* bound: key-value operations that fail in a behaviour
    Drainable,    \* bound: servers an operator may drain
    MaxDrains     \* bound: drain calls per server

ASSUME FlowAssumption ==
    /\ NoServer \notin Servers
    /\ MaxRetries \in Nat
    /\ MaxFaults \in Nat
    /\ Drainable \subseteq Servers
    /\ MaxDrains \in Nat

VARIABLES
    pc,           \* where each request task is
    attempt,      \* number of the current attempt of each request
    avoid,        \* avoid_server_ids of each request
    placed,       \* server_id of each attempt's assignment record
    byServer,     \* assignments_by_server: pending assignments of a server
    byClient,     \* assignments_by_client: attempts that have an index
    acks,         \* assignments_prepared: attempts with a prepared ack
    seen,         \* seen_assignments of each bridge
    gate,         \* clients each server's connection gate admits
    outbox,       \* prepared reports queued for each bridge, FIFO
    bridge,       \* step of publish_report each bridge is at
    localDrained, \* servers in this matchmaker's drained_servers map
    drains,       \* servers with a marker in the server_drains bucket
    admin,        \* step of the drain or undrain call of each server
    canceled,     \* assignments the drain call of a server listed
    drainCalls,   \* drain calls made so far for each server
    deleteJobs,   \* DeleteAssignment jobs queued per attempt
    releaseJobs,  \* ReleaseAllocation jobs queued per attempt
    faults        \* key-value operations that have failed

taskVars   == <<pc, attempt, avoid, placed>>
bucketVars == <<byServer, byClient, acks>>
serverVars == <<seen, gate, outbox, bridge>>
drainVars  == <<localDrained, drains, admin, canceled, drainCalls>>
jobVars    == <<deleteJobs, releaseJobs>>
vars == <<taskVars, bucketVars, serverVars, drainVars, jobVars, faults>>

Attempts == Requests \X (0..MaxRetries)
Current(r) == <<r, attempt[r]>>
Target(r) == placed[Current(r)]

WaitLabels == {"check_drain", "read_ack"}
CleanupLabels == {"delete_for_client", "delete_client_ack", "delete_index",
                  "delete_ack", "enqueue_delete", "enqueue_release"}
Labels == {"idle", "allocate", "put_by_server", "put_by_client", "issue_grant",
           "granted", "failed"} \cup WaitLabels \cup CleanupLabels

Init ==
    /\ pc = [r \in Requests |-> "idle"]
    /\ attempt = [r \in Requests |-> 0]
    /\ avoid = [r \in Requests |-> {}]
    /\ placed = [a \in Attempts |-> NoServer]
    /\ byServer = [s \in Servers |-> {}]
    /\ byClient = {}
    /\ acks = {}
    /\ seen = [s \in Servers |-> {}]
    /\ gate = [s \in Servers |-> {}]
    /\ outbox = [s \in Servers |-> <<>>]
    /\ bridge = [s \in Servers |-> "idle"]
    /\ localDrained = {}
    /\ drains = {}
    /\ admin = [s \in Servers |-> "idle"]
    /\ canceled = [s \in Servers |-> {}]
    /\ drainCalls = [s \in Servers |-> 0]
    /\ deleteJobs = [a \in Attempts |-> 0]
    /\ releaseJobs = [a \in Attempts |-> 0]
    /\ faults = 0

-----------------------------------------------------------------------------
(* The request task.                                                       *)

Step(r, from, to) ==
    /\ pc[r] = from
    /\ pc' = [pc EXCEPT ![r] = to]

\* RequestPlay arrives: the request starts out avoiding the servers this
\* matchmaker has drained locally.
RequestPlay(r) ==
    /\ Step(r, "idle", "allocate")
    /\ avoid' = [avoid EXCEPT ![r] = localDrained]
    /\ UNCHANGED <<attempt, placed, bucketVars, serverVars, drainVars, jobVars, faults>>

Candidates(r) == Servers \ (avoid[r] \cup drains)

\* The provider picks one of the servers that are neither avoided nor drained.
Allocate(r) ==
    /\ Step(r, "allocate", "put_by_server")
    /\ \E s \in Candidates(r) : placed' = [placed EXCEPT ![Current(r)] = s]
    /\ UNCHANGED <<attempt, avoid, bucketVars, serverVars, drainVars, jobVars, faults>>

NoCapacity(r) ==
    /\ Step(r, "allocate", "failed")
    /\ Candidates(r) = {}
    /\ UNCHANGED <<attempt, avoid, placed, bucketVars, serverVars, drainVars, jobVars, faults>>

PutByServerOverwrites(r) ==   \* deviation: a plain put instead of compare-and-set
    /\ Step(r, "put_by_server", "put_by_client")
    /\ byServer' = [byServer EXCEPT ![Target(r)] = {Current(r)}]
    /\ UNCHANGED <<attempt, avoid, placed, byClient, acks, serverVars, drainVars, jobVars, faults>>

PutByServer(r) ==
    /\ Step(r, "put_by_server", "put_by_client")
    /\ byServer' = [byServer EXCEPT ![Target(r)] = @ \cup {Current(r)}]
    /\ UNCHANGED <<attempt, avoid, placed, byClient, acks, serverVars, drainVars, jobVars, faults>>

PutByClient(r) ==
    /\ Step(r, "put_by_client", "check_drain")
    /\ byClient' = byClient \cup {Current(r)}
    /\ UNCHANGED <<attempt, avoid, placed, byServer, acks, serverVars, drainVars, jobVars, faults>>

CheckDrainGivesUp(r) ==   \* deviation: a drained attempt is not cleaned up
    /\ IF Target(r) \in localDrained \cup drains
         THEN Step(r, "check_drain", "failed")
         ELSE Step(r, "check_drain", "read_ack")
    /\ UNCHANGED <<attempt, avoid, placed, bucketVars, serverVars, drainVars, jobVars, faults>>

CheckDrainSkipped(r) ==   \* deviation: the wait loop ignores drains
    /\ Step(r, "check_drain", "read_ack")
    /\ UNCHANGED <<attempt, avoid, placed, bucketVars, serverVars, drainVars, jobVars, faults>>

\* One turn of the wait loop reads the drain marker first, then the ack.
CheckDrain(r) ==
    /\ IF Target(r) \in localDrained \cup drains
         THEN Step(r, "check_drain", "delete_for_client")
         ELSE Step(r, "check_drain", "read_ack")
    /\ UNCHANGED <<attempt, avoid, placed, bucketVars, serverVars, drainVars, jobVars, faults>>

ReadAck(r) ==
    /\ IF Current(r) \in acks
         THEN Step(r, "read_ack", "issue_grant")
         ELSE Step(r, "read_ack", "check_drain")
    /\ UNCHANGED <<attempt, avoid, placed, bucketVars, serverVars, drainVars, jobVars, faults>>

PrepareTimeoutGrants(r) ==   \* deviation: a timeout counts as prepared
    /\ pc[r] \in WaitLabels
    /\ pc' = [pc EXCEPT ![r] = "issue_grant"]
    /\ UNCHANGED <<attempt, avoid, placed, bucketVars, serverVars, drainVars, jobVars, faults>>

PrepareTimeoutAtRead(r) ==   \* deviation: the deadline is noticed at one point only
    /\ Step(r, "read_ack", "delete_for_client")
    /\ UNCHANGED <<attempt, avoid, placed, bucketVars, serverVars, drainVars, jobVars, faults>>

\* assignment_prepare_timeout_ms elapses at any point of the wait loop.
PrepareTimeout(r) ==
    /\ pc[r] \in WaitLabels
    /\ pc' = [pc EXCEPT ![r] = "delete_for_client"]
    /\ UNCHANGED <<attempt, avoid, placed, bucketVars, serverVars, drainVars, jobVars, faults>>

\* The grant is issued and AssignmentReady is queued to the client.
IssueGrant(r) ==
    /\ Step(r, "issue_grant", "granted")
    /\ UNCHANGED <<attempt, avoid, placed, bucketVars, serverVars, drainVars, jobVars, faults>>

\* delete_assignment_for_client: the index read and the compare-and-set removal
\* it leads to are one step, the index of an attempt never changes server.
DeleteForClient(r) ==
    /\ IF Current(r) \in byClient
         THEN /\ Step(r, "delete_for_client", "delete_client_ack")
              /\ byServer' = [byServer EXCEPT ![Target(r)] = @ \ {Current(r)}]
         ELSE /\ Step(r, "delete_for_client", "delete_index")
              /\ UNCHANGED byServer
    /\ UNCHANGED <<attempt, avoid, placed, byClient, acks, serverVars, drainVars, jobVars, faults>>

DeleteClientAck(r) ==
    /\ Step(r, "delete_client_ack", "delete_index")
    /\ acks' = acks \ {Current(r)}
    /\ UNCHANGED <<attempt, avoid, placed, byServer, byClient, serverVars, drainVars, jobVars, faults>>

DeleteIndex(r) ==
    /\ Step(r, "delete_index", "delete_ack")
    /\ byClient' = byClient \ {Current(r)}
    /\ UNCHANGED <<attempt, avoid, placed, byServer, acks, serverVars, drainVars, jobVars, faults>>

DeleteAck(r) ==
    /\ Step(r, "delete_ack", "enqueue_delete")
    /\ acks' = acks \ {Current(r)}
    /\ UNCHANGED <<attempt, avoid, placed, byServer, byClient, serverVars, drainVars, jobVars, faults>>

EnqueueDeleteRepeats(r) ==   \* deviation: the publish is retried after it succeeded
    /\ pc[r] = "enqueue_delete"
    /\ deleteJobs' = [deleteJobs EXCEPT ![Current(r)] = @ + 1]
    /\ pc' \in {pc, [pc EXCEPT ![r] = "enqueue_release"]}
    /\ UNCHANGED <<attempt, avoid, placed, bucketVars, serverVars, drainVars, releaseJobs, faults>>

EnqueueDelete(r) ==
    /\ Step(r, "enqueue_delete", "enqueue_release")
    /\ deleteJobs' = [deleteJobs EXCEPT ![Current(r)] = @ + 1]
    /\ UNCHANGED <<attempt, avoid, placed, bucketVars, serverVars, drainVars, releaseJobs, faults>>

AfterCleanupForgets(r) ==   \* deviation: the failed server is not avoided
    IF attempt[r] < MaxRetries
      THEN /\ pc' = [pc EXCEPT ![r] = "allocate"]
           /\ attempt' = [attempt EXCEPT ![r] = @ + 1]
           /\ UNCHANGED avoid
      ELSE /\ pc' = [pc EXCEPT ![r] = "failed"]
           /\ UNCHANGED <<attempt, avoid>>

AfterCleanupWaitsAgain(r) ==   \* deviation: the cleaned-up assignment is waited for again
    /\ pc' = [pc EXCEPT ![r] = "check_drain"]
    /\ UNCHANGED <<attempt, avoid>>

\* After the last cleanup step: retry elsewhere, or report the error.
AfterCleanup(r) ==
    IF attempt[r] < MaxRetries
      THEN /\ pc' = [pc EXCEPT ![r] = "allocate"]
           /\ attempt' = [attempt EXCEPT ![r] = @ + 1]
           /\ avoid' = [avoid EXCEPT ![r] = @ \cup {Target(r)}]
      ELSE /\ pc' = [pc EXCEPT ![r] = "failed"]
           /\ UNCHANGED <<attempt, avoid>>

EnqueueRelease(r) ==
    /\ pc[r] = "enqueue_release"
    /\ AfterCleanup(r)
    /\ releaseJobs' = [releaseJobs EXCEPT ![Current(r)] = @ + 1]
    /\ UNCHANGED <<placed, bucketVars, serverVars, drainVars, deleteJobs, faults>>

\* A provider, coordination or token error.  Before the wait and after it the
\* error is returned as it is; inside the wait it fails the attempt; inside the
\* cleanup it is logged and only the step it hit is lost.
TaskError(r) ==
    /\ faults < MaxFaults
    /\ faults' = faults + 1
    /\ \/ /\ pc[r] \in {"allocate", "put_by_server", "put_by_client", "issue_grant"}
          /\ pc' = [pc EXCEPT ![r] = "failed"]
          /\ UNCHANGED <<attempt, avoid>>
       \/ /\ pc[r] \in WaitLabels
          /\ pc' = [pc EXCEPT ![r] = "delete_for_client"]
          /\ UNCHANGED <<attempt, avoid>>
       \/ /\ pc[r] \in {"delete_for_client", "delete_client_ack", "delete_index"}
          /\ pc' = [pc EXCEPT ![r] = "delete_ack"]
          /\ UNCHANGED <<attempt, avoid>>
       \/ /\ Step(r, "delete_ack", "enqueue_delete")
          /\ UNCHANGED <<attempt, avoid>>
       \/ /\ Step(r, "enqueue_delete", "enqueue_release")
          /\ UNCHANGED <<attempt, avoid>>
       \/ /\ pc[r] = "enqueue_release"
          /\ AfterCleanup(r)
    /\ UNCHANGED <<placed, bucketVars, serverVars, drainVars, jobVars>>

-----------------------------------------------------------------------------
(* The game server: its NATS bridge thread and the app that owns the gate. *)

\* The bridge's poll hands assignments it has not seen to the app.
PollAssignments(s) ==
    /\ bridge[s] = "idle"
    /\ byServer[s] \ seen[s] # {}
    /\ seen' = [seen EXCEPT ![s] = @ \cup byServer[s]]
    /\ UNCHANGED <<taskVars, bucketVars, gate, outbox, bridge, drainVars, jobVars, faults>>

RegisterAcksFirst(s) ==   \* deviation: the report may be queued before the gate is set
    /\ \E a \in seen[s] \ gate[s] :
         /\ gate' \in {gate, [gate EXCEPT ![s] = @ \cup {a}]}
         /\ outbox' = [outbox EXCEPT ![s] = Append(@, a)]
    /\ UNCHANGED <<taskVars, bucketVars, seen, bridge, drainVars, jobVars, faults>>

\* The app admits the client, then queues the accepted acknowledgement.
RegisterAssignment(s) ==
    /\ \E a \in seen[s] \ gate[s] :
         /\ gate' = [gate EXCEPT ![s] = @ \cup {a}]
         /\ outbox' = [outbox EXCEPT ![s] = Append(@, a)]
    /\ UNCHANGED <<taskVars, bucketVars, seen, bridge, drainVars, jobVars, faults>>

\* publish_report: put the ack, remove the pending record, remove the index.
PublishPrepared(s) ==
    /\ bridge[s] = "idle"
    /\ outbox[s] # <<>>
    /\ acks' = acks \cup {Head(outbox[s])}
    /\ bridge' = [bridge EXCEPT ![s] = "consume"]
    /\ UNCHANGED <<taskVars, byServer, byClient, seen, gate, outbox, drainVars, jobVars, faults>>

ConsumeByServer(s) ==
    /\ bridge[s] = "consume"
    /\ byServer' = [byServer EXCEPT ![s] = @ \ {Head(outbox[s])}]
    /\ bridge' = [bridge EXCEPT ![s] = "unindex"]
    /\ UNCHANGED <<taskVars, byClient, acks, seen, gate, outbox, drainVars, jobVars, faults>>

ConsumeByClient(s) ==
    /\ bridge[s] = "unindex"
    /\ byClient' = byClient \ {Head(outbox[s])}
    /\ bridge' = [bridge EXCEPT ![s] = "idle"]
    /\ outbox' = [outbox EXCEPT ![s] = Tail(@)]
    /\ UNCHANGED <<taskVars, byServer, acks, seen, gate, drainVars, jobVars, faults>>

\* A failed publish is reported to the app and the report is dropped.
ReportLost(s) ==
    /\ faults < MaxFaults
    /\ faults' = faults + 1
    /\ outbox[s] # <<>>
    /\ bridge' = [bridge EXCEPT ![s] = "idle"]
    /\ outbox' = [outbox EXCEPT ![s] = Tail(@)]
    /\ UNCHANGED <<taskVars, bucketVars, seen, gate, drainVars, jobVars>>

-----------------------------------------------------------------------------
(* The operator's drain and undrain calls, one at a time per server.       *)

AdminStep(s, from, to) ==
    /\ admin[s] = from
    /\ admin' = [admin EXCEPT ![s] = to]

DrainGameServer(s) ==
    /\ s \in Drainable
    /\ drainCalls[s] < MaxDrains
    /\ AdminStep(s, "idle", "publish_drain")
    /\ drainCalls' = [drainCalls EXCEPT ![s] = @ + 1]
    /\ localDrained' = localDrained \cup {s}
    /\ UNCHANGED <<taskVars, bucketVars, serverVars, drains, canceled, jobVars, faults>>

PublishServerDrain(s) ==
    /\ AdminStep(s, "publish_drain", "list_pending")
    /\ drains' = drains \cup {s}
    /\ UNCHANGED <<taskVars, bucketVars, serverVars, localDrained, canceled, drainCalls,
                   jobVars, faults>>

\* cancel_assignments_for_server: list, clear, then purge what was listed.
ListPending(s) ==
    /\ AdminStep(s, "list_pending", "clear_pending")
    /\ canceled' = [canceled EXCEPT ![s] = byServer[s]]
    /\ UNCHANGED <<taskVars, bucketVars, serverVars, localDrained, drains, drainCalls,
                   jobVars, faults>>

ClearPending(s) ==
    /\ AdminStep(s, "clear_pending", "purge_indexes")
    /\ byServer' = [byServer EXCEPT ![s] = {}]
    /\ UNCHANGED <<taskVars, byClient, acks, serverVars, localDrained, drains, canceled,
                   drainCalls, jobVars, faults>>

\* The index and the ack of the listed assignments, in one step.
PurgeCanceled(s) ==
    /\ AdminStep(s, "purge_indexes", "queue_cleanup")
    /\ byClient' = byClient \ canceled[s]
    /\ acks' = acks \ canceled[s]
    /\ UNCHANGED <<taskVars, byServer, serverVars, localDrained, drains, canceled,
                   drainCalls, jobVars, faults>>

\* queue_server_drain_cleanup: every listed assignment has its own allocation,
\* so there is one delete job and one release job for each.
QueueDrainCleanup(s) ==
    /\ AdminStep(s, "queue_cleanup", "idle")
    /\ deleteJobs' = [a \in Attempts |-> deleteJobs[a] + (IF a \in canceled[s] THEN 1 ELSE 0)]
    /\ releaseJobs' = [a \in Attempts |-> releaseJobs[a] + (IF a \in canceled[s] THEN 1 ELSE 0)]
    /\ canceled' = [canceled EXCEPT ![s] = {}]
    /\ UNCHANGED <<taskVars, bucketVars, serverVars, localDrained, drains, drainCalls, faults>>

\* A coordination error ends the call with what it had done so far.
DrainError(s) ==
    /\ faults < MaxFaults
    /\ faults' = faults + 1
    /\ admin[s] \in {"publish_drain", "list_pending", "clear_pending", "purge_indexes",
                     "clear_drain"}
    /\ admin' = [admin EXCEPT ![s] = "idle"]
    /\ canceled' = [canceled EXCEPT ![s] = {}]
    /\ UNCHANGED <<taskVars, bucketVars, serverVars, localDrained, drains, drainCalls, jobVars>>

UndrainGameServer(s) ==
    /\ s \in localDrained
    /\ AdminStep(s, "idle", "clear_drain")
    /\ localDrained' = localDrained \ {s}
    /\ UNCHANGED <<taskVars, bucketVars, serverVars, drains, canceled, drainCalls, jobVars, faults>>

ClearServerDrain(s) ==
    /\ AdminStep(s, "clear_drain", "idle")
    /\ drains' = drains \ {s}
    /\ UNCHANGED <<taskVars, bucketVars, serverVars, localDrained, canceled, drainCalls,
                   jobVars, faults>>

-----------------------------------------------------------------------------
TaskStep(r) ==
    \/ Allocate(r) \/ NoCapacity(r) \/ PutByServer(r) \/ PutByClient(r)
    \/ CheckDrain(r) \/ ReadAck(r) \/ IssueGrant(r)
    \/ DeleteForClient(r) \/ DeleteClientAck(r) \/ DeleteIndex(r) \/ DeleteAck(r)
    \/ EnqueueDelete(r) \/ EnqueueRelease(r)

BridgeStep(s) ==
    PublishPrepared(s) \/ ConsumeByServer(s) \/ ConsumeByClient(s)

DrainStep(s) ==
    \/ PublishServerDrain(s) \/ ListPending(s) \/ ClearPending(s) \/ PurgeCanceled(s)
    \/ QueueDrainCleanup(s) \/ ClearServerDrain(s)

Next ==
    \/ \E r \in Requests : RequestPlay(r) \/ TaskStep(r) \/ PrepareTimeout(r) \/ TaskError(r)
    \/ \E s \in Servers : \/ PollAssignments(s) \/ RegisterAssignment(s)
                          \/ BridgeStep(s) \/ ReportLost(s)
    \/ \E s \in Servers : \/ DrainGameServer(s) \/ UndrainGameServer(s)
                          \/ DrainStep(s) \/ DrainError(s)

\* Every tokio task keeps running and the wait has a deadline.  Nothing forces
\* requests to arrive, operators to act, or a game server to be alive.
Fairness ==
    /\ \A r \in Requests : WF_vars(TaskStep(r)) /\ WF_vars(PrepareTimeout(r))
    /\ \A s \in Servers : WF_vars(DrainStep(s))

Spec == Init /\ [][Next]_vars
FairSpec == Spec /\ Fairness

-----------------------------------------------------------------------------
(* Properties.                                                             *)

TypeOK ==
    /\ pc \in [Requests -> Labels]
    /\ attempt \in [Requests -> 0..MaxRetries]
    /\ avoid \in [Requests -> SUBSET Servers]
    /\ placed \in [Attempts -> Servers \cup {NoServer}]
    /\ byServer \in [Servers -> SUBSET Attempts]
    /\ byClient \in SUBSET Attempts
    /\ acks \in SUBSET Attempts
    /\ seen \in [Servers -> SUBSET Attempts]
    /\ gate \in [Servers -> SUBSET Attempts]
    /\ outbox \in [Servers -> Seq(Attempts)]
    /\ bridge \in [Servers -> {"idle", "consume", "unindex"}]
    /\ localDrained \in SUBSET Servers
    /\ drains \in SUBSET Servers
    /\ admin \in [Servers -> {"idle", "publish_drain", "list_pending", "clear_pending",
                              "purge_indexes", "queue_cleanup", "clear_drain"}]
    /\ canceled \in [Servers -> SUBSET Attempts]
    /\ drainCalls \in [Servers -> 0..MaxDrains]
    /\ deleteJobs \in [Attempts -> Nat]
    /\ releaseJobs \in [Attempts -> Nat]
    /\ faults \in 0..MaxFaults

\* Where attempts are, and who may know of them: an attempt has a server from
\* its allocation on, and only that server's record, bridge, gate and drain call
\* ever hold it.
Placement ==
    /\ \A r \in Requests, i \in 0..MaxRetries : i > attempt[r] => placed[<<r, i>>] = NoServer
    /\ \A r \in Requests : pc[r] \in {"idle", "allocate"} => Target(r) = NoServer
    /\ \A r \in Requests : pc[r] = "idle" => attempt[r] = 0
    /\ \A r \in Requests : pc[r] \notin {"idle", "allocate", "failed"} => Target(r) \in Servers
    /\ \A s \in Servers : \A a \in byServer[s] \cup seen[s] \cup canceled[s] : placed[a] = s

\* What an acknowledgement rests on: the bridge has seen what the gate admits,
\* the gate admits what is reported, and what is acknowledged was reported.
Admission ==
    /\ \A s \in Servers : gate[s] \subseteq seen[s]
    /\ \A s \in Servers : \A i \in 1..Len(outbox[s]) : outbox[s][i] \in gate[s]
    /\ \A s \in Servers : bridge[s] # "idle" => Len(outbox[s]) > 0
    /\ \A a \in acks : placed[a] \in Servers /\ a \in gate[placed[a]]

\* A drain call that lists, clears or holds assignments has been counted.
DrainsAreCounted ==
    \A s \in Servers :
        (admin[s] \in {"publish_drain", "list_pending", "clear_pending"} \/ canceled[s] # {})
            => drainCalls[s] > 0

\* The servers of the attempts a request gave up on are the ones it avoids.
TriedAreAvoided ==
    \A r \in Requests, i \in 0..MaxRetries :
        (i < attempt[r] /\ placed[<<r, i>>] # NoServer) => placed[<<r, i>>] \in avoid[r]

\* An attempt with a release job was given up by its task or drained.
ReleasesHaveCauses ==
    \A r \in Requests, i \in 0..MaxRetries :
        releaseJobs[<<r, i>>] > 0 =>
            /\ placed[<<r, i>>] \in Servers
            /\ \/ drainCalls[placed[<<r, i>>]] > 0
               \/ i < attempt[r]
               \/ i = attempt[r] /\ pc[r] = "failed"

\* A task that decided to hand out a grant, or has done so, relies on a server
\* whose gate admits that very client: acknowledgements never run ahead of the
\* local admission state, whatever timeouts, drains and retries happen between.
GrantsAreAdmitted ==
    \A r \in Requests :
        pc[r] \in {"issue_grant", "granted"} => Current(r) \in gate[Target(r)]

\* While a task waits, its assignment is not lost: it is still pending on the
\* server's record, or the server's bridge has seen it, or a drain canceled it.
\* Cleanup, consumption and cancellation by others never eat it silently.
WaitingIsNotLost ==
    \A r \in Requests :
        pc[r] \in {"put_by_client"} \cup WaitLabels =>
            \/ Current(r) \in byServer[Target(r)] \cup seen[Target(r)]
            \/ drainCalls[Target(r)] > 0

\* A retry never goes back to a server an earlier attempt of the same request
\* was placed on.
RetriesMoveOn ==
    \A r \in Requests : \A i, j \in 0..attempt[r] :
        (i < j /\ placed[<<r, i>>] # NoServer) => placed[<<r, i>>] # placed[<<r, j>>]

\* The allocation behind a grant is not released behind the client's back: a
\* release job for it exists only if an operator drained the server.
GrantKeepsAllocation ==
    \A r \in Requests :
        (pc[r] \in {"issue_grant", "granted"} /\ releaseJobs[Current(r)] > 0)
            => drainCalls[Target(r)] > 0

\* The inductive invariant the proofs use.
IndInv ==
    /\ TypeOK
    /\ Placement
    /\ Admission
    /\ DrainsAreCounted
    /\ TriedAreAvoided
    /\ ReleasesHaveCauses
    /\ GrantsAreAdmitted
    /\ WaitingIsNotLost
    /\ RetriesMoveOn

\* Each attempt that failed after it became visible queued its own cleanup once;
\* the only other source of jobs is a drain of its server.
JobsHaveCauses ==
    \A a \in Attempts :
        LET drained == IF placed[a] = NoServer THEN 0 ELSE drainCalls[placed[a]]
        IN  releaseJobs[a] <= 1 + drained /\ deleteJobs[a] <= 1 + drained

\* A request whose every coordination call succeeded ends with each abandoned
\* allocation queued for release and each abandoned assignment for deletion.
AbandonedIsQueued ==
    faults = 0 =>
        \A r \in Requests : \A i \in 0..attempt[r] :
            (placed[<<r, i>>] # NoServer /\ (i < attempt[r] \/ pc[r] = "failed"))
                => releaseJobs[<<r, i>>] > 0 /\ deleteJobs[<<r, i>>] > 0

\* The states of state.rs an attempt goes through, as the task's position tells.
StateOf(a) ==
    LET r == a[1]
    IN  IF placed[a] = NoServer THEN "none"
        ELSE IF a[2] < attempt[r] THEN "failed"
        ELSE CASE pc[r] \in {"put_by_server", "put_by_client"} -> "created"
               [] pc[r] \in WaitLabels   -> "preparing"
               [] pc[r] = "issue_grant"  -> "prepared"
               [] pc[r] = "granted"      -> "ready"
               [] OTHER                  -> "failed"

Lifecycle == INSTANCE AssignmentLifecycle
    WITH Assignments <- Attempts, state <- [a \in Attempts |-> StateOf(a)]

\* Attempts move along the transitions state.rs allows and no others: a failed
\* attempt is never revived by a late acknowledgement, a ready one never fails.
ImplementsLifecycle == Lifecycle!Spec

\* Every accepted request is answered, with a grant or with an error, also when
\* no game server reacts.
RequestsAreAnswered ==
    \A r \in Requests : pc[r] = "allocate" ~> pc[r] \in {"granted", "failed"}

\* A server that stays drained ends up with no pending assignment, even if it is
\* dead, and also when a put raced with the drain call's list and clear.
DrainedServersEmpty ==
    \A s \in Servers : (<>[](s \in drains)) => (<>[](byServer[s] = {}))
=============================================================================
