---------------------------- MODULE ServerBridge ----------------------------
(***************************************************************************)
(* One game server: the bevy app with its connection gate and tracked      *)
(* assignments, the bridge thread that talks to NATS for it, the two       *)
(* channels between them, and the buckets the thread reads and writes.     *)
(* Matchmakers put and withdraw assignment records, clients come and go,   *)
(* key-value operations fail, and the process may crash and be restarted.  *)
(*                                                                         *)
(* An assignment has a client id of its own, so a client stands for its    *)
(* assignment record too.  The systems of one Update have no order among   *)
(* each other: each is an action, taken at any time.                       *)
(***************************************************************************)
EXTENDS Naturals, Sequences, FiniteSets, SequencesExt

CONSTANTS
    Clients,      \* Lightyear client ids, one assignment each
    Connecting,   \* bound: clients that try to connect
    MaxFaults     \* bound: failing key-value operations and crashes

ASSUME BridgeAssumption ==
    /\ IsFiniteSet(Clients)
    /\ Connecting \subseteq Clients
    /\ MaxFaults \in Nat

VARIABLES
    put,        \* how far the matchmaker's put_assignment is, per client
    withdrawn,  \* clients whose records a matchmaker has deleted
    pending,    \* the server's entry in assignments_by_server
    index,      \* clients with an entry in assignments_by_client
    acks,       \* clients with an entry in assignments_prepared
    active,     \* clients with an entry in active_connections
    bridge,     \* what the bridge thread is doing
    current,    \* the report it is publishing, <<>> if none
    seen,       \* seen_assignments
    inbox,      \* assignments sent to the app, not yet received
    channel,    \* reports sent to the bridge, not yet received
    outbox,     \* reports queued in the app
    tracked,    \* the app's tracked assignment of each client
    gate,       \* allowed_client_ids
    installed,  \* the netcode server asks the gate
    net,        \* where each client is, as the transport sees it
    revoked,    \* clients an inactive report of which was queued
    lost,       \* clients a report of which this bridge has dropped
    orphaned,   \* active entries an earlier process left behind
    faults      \* key-value operations that have failed, and crashes

matchVars   == <<put, withdrawn>>
bucketVars  == <<pending, index, acks, active>>
bridgeVars  == <<bridge, current, seen, lost>>
appVars     == <<tracked, gate, revoked>>
transport   == <<installed, net>>
vars == <<matchVars, bucketVars, bridgeVars, inbox, channel, outbox, appVars, transport,
          orphaned, faults>>

PublishSteps == {"put_ack", "consume_set", "consume_index", "put_active", "delete_active",
                 "read_index", "delete_set", "delete_ack", "delete_index"}
Steps == {"connecting", "select", "ended"} \cup PublishSteps

Reports == {"prepared", "active", "inactive"} \X Clients

Init ==
    /\ put = [c \in Clients |-> "none"]
    /\ withdrawn = {}
    /\ pending = {} /\ index = {} /\ acks = {} /\ active = {}
    /\ bridge = "connecting" /\ current = <<>> /\ seen = {} /\ lost = {}
    /\ inbox = <<>> /\ channel = <<>> /\ outbox = <<>>
    /\ tracked = [c \in Clients |-> "none"]
    /\ gate = {}
    /\ installed = FALSE
    /\ net = [c \in Clients |-> "away"]
    /\ revoked = {}
    /\ orphaned = {}
    /\ faults = 0

-----------------------------------------------------------------------------
(* The matchmakers.                                                        *)

\* put_assignment adds the record to the server's set, then the client's index.
PutByServer(c) ==
    /\ put[c] = "none"
    /\ put' = [put EXCEPT ![c] = "set"]
    /\ pending' = pending \cup {c}
    /\ UNCHANGED <<withdrawn, index, acks, active, bridgeVars, inbox, channel,
                   outbox, appVars, transport, orphaned, faults>>

PutByClient(c) ==
    /\ put[c] = "set"
    /\ put' = [put EXCEPT ![c] = "done"]
    /\ index' = index \cup {c}
    /\ UNCHANGED <<withdrawn, pending, acks, active, bridgeVars, inbox, channel,
                   outbox, appVars, transport, orphaned, faults>>

\* A failed attempt, its deletion job or a drain removes record, index and ack.
Withdraw(c) ==
    /\ put[c] = "done"
    /\ c \notin withdrawn
    /\ withdrawn' = withdrawn \cup {c}
    /\ pending' = pending \ {c}
    /\ index' = index \ {c}
    /\ acks' = acks \ {c}
    /\ UNCHANGED <<put, active, bridgeVars, inbox, channel, outbox, appVars,
                   transport, orphaned, faults>>

-----------------------------------------------------------------------------
(* The bridge thread.                                                      *)

Step(from, to) ==
    /\ bridge = from
    /\ bridge' = to

Fault ==
    /\ faults < MaxFaults
    /\ faults' = faults + 1

Connect ==
    /\ Step("connecting", "select")
    /\ UNCHANGED <<matchVars, bucketVars, current, seen, lost, inbox, channel, outbox,
                   appVars, transport, orphaned, faults>>

\* The thread ends when it cannot connect: reports sent to it are dropped.
ConnectFails ==
    /\ Fault
    /\ Step("connecting", "ended")
    /\ lost' = lost \cup {c \in Clients : \E i \in DOMAIN channel : channel[i][2] = c}
    /\ channel' = <<>>
    /\ UNCHANGED <<matchVars, bucketVars, current, seen, inbox, outbox, appVars, transport,
                   orphaned>>

PollForgets ==   \* deviation: only what the app tracks now counts as seen
    LET new == {c \in pending : tracked[c] \notin {"waiting", "connected"}} IN
    /\ bridge = "select"
    /\ new # {}
    /\ seen' = seen \cup new
    /\ inbox' = inbox \o SetToSeq(new)
    /\ UNCHANGED <<matchVars, bucketVars, bridge, current, lost, channel, outbox, appVars,
                   transport, orphaned, faults>>

\* A tick of the poll interval: records not seen before go to the app.  A poll
\* that finds nothing, or fails, changes nothing.
Poll ==
    LET new == pending \ seen IN
    /\ bridge = "select"
    /\ new # {}
    /\ seen' = seen \cup new
    /\ inbox' = inbox \o SetToSeq(new)
    /\ UNCHANGED <<matchVars, bucketVars, bridge, current, lost, channel, outbox, appVars,
                   transport, orphaned, faults>>

FirstStep(report) ==
    [prepared |-> "put_ack", active |-> "put_active", inactive |-> "delete_active"][report[1]]

TakeReportAny ==   \* deviation: reports are published in any order
    \E i \in DOMAIN channel :
        /\ Step("select", FirstStep(channel[i]))
        /\ current' = channel[i]
        /\ channel' = RemoveAt(channel, i)
        /\ UNCHANGED <<matchVars, bucketVars, seen, lost, inbox, outbox, appVars, transport,
                       orphaned, faults>>

TakeReport ==
    /\ channel # <<>>
    /\ Step("select", FirstStep(Head(channel)))
    /\ current' = Head(channel)
    /\ channel' = Tail(channel)
    /\ UNCHANGED <<matchVars, bucketVars, seen, lost, inbox, outbox, appVars, transport,
                   orphaned, faults>>

Subject == current[2]
OthersUnchanged == UNCHANGED <<matchVars, seen, lost, inbox, channel, outbox, appVars,
                               transport, orphaned, faults>>

\* publish_report of an acknowledgement: the ack is stored before the record is
\* consumed from the set and the index.
PutAckLate ==   \* deviation: the record is consumed first
    /\ Step("put_ack", "consume_index")
    /\ pending' = pending \ {Subject}
    /\ acks' = acks
    /\ UNCHANGED <<current, index, active>>
    /\ OthersUnchanged

PutAck ==
    /\ Step("put_ack", "consume_set")
    /\ acks' = acks \cup {Subject}
    /\ UNCHANGED <<current, pending, index, active>>
    /\ OthersUnchanged

ConsumeSet ==
    /\ Step("consume_set", "consume_index")
    /\ pending' = pending \ {Subject}
    /\ UNCHANGED <<current, index, acks, active>>
    /\ OthersUnchanged

ConsumeIndex ==
    /\ Step("consume_index", "select")
    /\ current' = <<>>
    /\ index' = index \ {Subject}
    /\ UNCHANGED <<pending, acks, active>>
    /\ OthersUnchanged

PutActive ==
    /\ Step("put_active", "select")
    /\ current' = <<>>
    /\ active' = active \cup {Subject}
    /\ UNCHANGED <<pending, index, acks>>
    /\ OthersUnchanged

\* publish_report of a client that left or never came: its connection entry is
\* deleted, then what its index still points to.
DeleteActive ==
    /\ Step("delete_active", "read_index")
    /\ active' = active \ {Subject}
    /\ UNCHANGED <<current, pending, index, acks>>
    /\ OthersUnchanged

ReadIndex ==
    /\ Step("read_index", IF Subject \in index THEN "delete_set" ELSE "delete_index")
    /\ UNCHANGED <<current, bucketVars>>
    /\ OthersUnchanged

DeleteSet ==
    /\ Step("delete_set", "delete_ack")
    /\ pending' = pending \ {Subject}
    /\ UNCHANGED <<current, index, acks, active>>
    /\ OthersUnchanged

DeleteAck ==
    /\ Step("delete_ack", "delete_index")
    /\ acks' = acks \ {Subject}
    /\ UNCHANGED <<current, pending, index, active>>
    /\ OthersUnchanged

DeleteIndex ==
    /\ Step("delete_index", "select")
    /\ current' = <<>>
    /\ index' = index \ {Subject}
    /\ UNCHANGED <<pending, acks, active>>
    /\ OthersUnchanged

\* An operation fails: what is left of the report is dropped with a message.
PublishFails ==
    /\ Fault
    /\ bridge \in PublishSteps
    /\ bridge' = "select"
    /\ current' = <<>>
    /\ lost' = lost \cup {Subject}
    /\ UNCHANGED <<matchVars, bucketVars, seen, inbox, channel, outbox, appVars, transport,
                   orphaned>>

-----------------------------------------------------------------------------
(* The app.  A tracked assignment waits, is connected, or is gone.         *)

AppUnchanged == UNCHANGED <<matchVars, bucketVars, bridgeVars, inbox, channel, orphaned, faults>>

\* register_assignment of all that has arrived: what is tracked already is left
\* alone, every other client is admitted and acknowledged.
New == {c \in ToSet(inbox) : tracked[c] \notin {"waiting", "connected"}}
Replies[i \in 0..Len(inbox)] ==   \* to the first i arrivals
    IF i = 0 THEN <<>>
    ELSE IF inbox[i] \in New THEN Append(Replies[i - 1], <<"prepared", inbox[i]>>)
    ELSE Replies[i - 1]
PreparedReports == Replies[Len(inbox)]

\* sync_nats_bridge: first the assignments are registered, then all queued
\* reports are sent to the bridge, or dropped when its thread has ended.
SyncNatsBridge ==
    LET reports == outbox \o PreparedReports IN
    /\ inbox # <<>> \/ outbox # <<>>
    /\ inbox' = <<>>
    /\ outbox' = <<>>
    /\ gate' = gate \cup New
    /\ tracked' = [c \in Clients |-> IF c \in New THEN "waiting" ELSE tracked[c]]
    /\ IF bridge = "ended"
       THEN /\ lost' = lost \cup {c \in Clients : \E i \in DOMAIN reports : reports[i][2] = c}
            /\ UNCHANGED channel
       ELSE channel' = channel \o reports /\ UNCHANGED lost
    /\ UNCHANGED <<matchVars, bucketVars, bridge, current, seen, revoked,
                   transport, orphaned, faults>>

\* client_connected does nothing for a client without an assignment.
HandleConnected(c) ==
    /\ net[c] = "arrived"
    /\ net' = [net EXCEPT ![c] = "playing"]
    /\ IF tracked[c] \in {"waiting", "connected"}
       THEN /\ tracked' = [tracked EXCEPT ![c] = "connected"]
            /\ outbox' = Append(outbox, <<"active", c>>)
       ELSE UNCHANGED <<tracked, outbox>>
    /\ UNCHANGED <<gate, revoked, installed>>
    /\ AppUnchanged

RevokeQuietly(clients) ==   \* deviation: the bridge is not told
    /\ tracked' = [c \in Clients |-> IF c \in clients THEN "gone" ELSE tracked[c]]
    /\ gate' = gate \ clients
    /\ revoked' = revoked \cup clients
    /\ UNCHANGED outbox

\* The assignments of the clients are forgotten, the gate is closed for them and
\* inactive reports are queued.
Revoke(clients) ==
    /\ tracked' = [c \in Clients |-> IF c \in clients THEN "gone" ELSE tracked[c]]
    /\ gate' = gate \ clients
    /\ revoked' = revoked \cup clients
    /\ outbox' = outbox \o [i \in 1..Cardinality(clients) |-> <<"inactive", SetToSeq(clients)[i]>>]

\* client_disconnected does nothing for a client without an assignment.
HandleDisconnected(c) ==
    /\ net[c] = "leaving"
    /\ net' = [net EXCEPT ![c] = "left"]
    /\ IF tracked[c] \in {"waiting", "connected"} THEN Revoke({c})
       ELSE UNCHANGED <<tracked, gate, revoked, outbox>>
    /\ UNCHANGED installed
    /\ AppUnchanged

\* expire_unconnected_assignments: any clients that have not been noticed to
\* connect may be over the timeout.
ExpireUnconnected ==
    \E overdue \in (SUBSET {c \in Clients : tracked[c] = "waiting"}) \ {{}} :
        /\ Revoke(overdue)
        /\ UNCHANGED transport
        /\ AppUnchanged

\* The request handler is installed once, and only then is the server started.
InstallHandler ==
    /\ ~installed
    /\ installed' = TRUE
    /\ UNCHANGED <<net, outbox, appVars>>
    /\ AppUnchanged

-----------------------------------------------------------------------------
(* The clients and the process.                                            *)

Move(c, from, to) ==
    /\ net[c] \in from
    /\ net' = [net EXCEPT ![c] = to]
    /\ UNCHANGED <<installed, outbox, appVars>>
    /\ AppUnchanged

\* handle_request asks the gate; the app hears of the connection in a later frame.
HandleRequest(c) ==
    /\ installed
    /\ c \in gate \cap Connecting
    /\ Move(c, {"away"}, "arrived")

Leave(c)  == Move(c, {"arrived", "playing"}, "leaving")

\* The process dies and is started again: all it had in memory is gone.
Crash ==
    /\ Fault
    /\ orphaned' = orphaned \cup active
    /\ bridge' = "connecting" /\ current' = <<>> /\ seen' = {} /\ lost' = {}
    /\ inbox' = <<>> /\ channel' = <<>> /\ outbox' = <<>>
    /\ tracked' = [c \in Clients |-> "none"]
    /\ gate' = {}
    /\ installed' = FALSE
    /\ net' = [c \in Clients |-> "away"]
    /\ UNCHANGED <<matchVars, bucketVars, revoked>>

PublishStep ==
    \/ PutAck \/ ConsumeSet \/ ConsumeIndex \/ PutActive \/ DeleteActive \/ ReadIndex
    \/ DeleteSet \/ DeleteAck \/ DeleteIndex

Next ==
    \/ Connect \/ ConnectFails \/ Poll \/ TakeReport \/ PublishStep \/ PublishFails
    \/ SyncNatsBridge \/ ExpireUnconnected \/ InstallHandler \/ Crash
    \/ \E c \in Clients :
         \/ PutByServer(c) \/ PutByClient(c) \/ Withdraw(c)
         \/ HandleConnected(c) \/ HandleDisconnected(c)
         \/ HandleRequest(c) \/ Leave(c)

\* The bridge thread runs, select! takes each of its ready branches in turn, and
\* the app runs its frames.  Clients, matchmakers and timeouts need not act.
Fairness ==
    /\ WF_vars(Connect)
    /\ WF_vars(PublishStep)
    /\ SF_vars(Poll)
    /\ SF_vars(TakeReport)
    /\ WF_vars(SyncNatsBridge)

Spec == Init /\ [][Next]_vars
FairSpec == Spec /\ Fairness

-----------------------------------------------------------------------------
(* Properties.                                                             *)

TypeOK ==
    /\ put \in [Clients -> {"none", "set", "done"}]
    /\ withdrawn \in SUBSET Clients
    /\ pending \in SUBSET Clients
    /\ index \in SUBSET Clients
    /\ acks \in SUBSET Clients
    /\ active \in SUBSET Clients
    /\ bridge \in Steps
    /\ IF bridge \in PublishSteps THEN current \in Reports ELSE current = <<>>
    /\ seen \in SUBSET Clients
    /\ inbox \in Seq(Clients)
    /\ channel \in Seq(Reports)
    /\ outbox \in Seq(Reports)
    /\ tracked \in [Clients -> {"none", "waiting", "connected", "gone"}]
    /\ gate \in SUBSET Clients
    /\ installed \in BOOLEAN
    /\ net \in [Clients -> {"away", "arrived", "playing", "leaving", "left"}]
    /\ revoked \in SUBSET Clients
    /\ lost \in SUBSET Clients
    /\ orphaned \in SUBSET Clients
    /\ faults \in 0..MaxFaults

\* Until the acknowledgement of an assignment is stored, or the client revoked,
\* or the record withdrawn by a matchmaker, the record stays in the server's set:
\* a bridge that failed or was restarted meanwhile still finds it.
UnackedIsPending ==
    \A c \in Clients :
        (put[c] # "none" /\ c \notin withdrawn \cup revoked \cup acks) => c \in pending

\* What the bridge still has to publish, in order.
Pipeline == (IF current = <<>> THEN <<>> ELSE <<current>>) \o channel \o outbox

\* A connection entry belongs to a client the app knows as connected, or its
\* deletion is on its way, unless a report of the client was dropped or the entry
\* was left behind by a process that crashed: reports never overtake each other.
ActiveIsBacked ==
    \A c \in active \ (lost \cup orphaned) :
        tracked[c] = "connected" \/ <<"inactive", c>> \in ToSet(Pipeline)

\* A client that disconnected or expired is not let in again by the same process,
\* even if its record is still pending because the acknowledgement failed.
RevokedStaysRevoked ==
    [][\A c \in Clients :
         (tracked[c] = "gone" /\ tracked'[c] # "none") => c \notin gate']_vars

\* While the bridge runs, each pending record is consumed or deleted, and each
\* connection entry of a client that is gone is deleted, unless a report of the
\* client was dropped.
Unsettled(c) == c \in pending \/ (c \in active /\ tracked[c] = "gone")

ReportsArrive ==
    \A c \in Clients :
        Unsettled(c) ~> (~Unsettled(c) \/ c \in lost \cup orphaned \/ bridge = "ended")
=============================================================================
