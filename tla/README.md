# Verification of lightyear-matchmaker

TLA+ models of the matchmaker's protocols, TLC configurations that check them
on small instances, and TLAPS proofs of the properties that matter most.
Everything is translated from the Rust code under `crates/`; the comment in
front of a definition says which code behaviour it stands for, and
`PROJECT.json` gives the lines.

```
tlc -workers 2 -config FlowRace.cfg MCAssignmentFlow
tlapm AssignmentFlowProofs.tla
```

## 1. Inventory

The matchmaker places players on game servers. A client talks to a matchmaker
process over a websocket; the matchmaker picks (or asks a provider for) a game
server, writes an *assignment* for it into NATS key-value buckets, waits until
the server's bridge acknowledges that its connection gate admits the client,
and only then hands the client a *grant* with a connect token. Matchmakers and
game servers share nothing but NATS; operators drain servers over HTTP.

| Part | State it keeps | Operations | Talks to |
|---|---|---|---|
| Play requests (`server/src/lib.rs`: `stream_assignment`, `create_prepared_assignment_with_retries`, `create_assignment`, `wait_for_assignment_prepared`, `queue_failed_assignment_cleanup`) | position of the request task, attempt number, `avoid_server_ids` | allocate, put, wait, retry, clean up, grant | provider, buckets, work queue, websocket |
| Lobby attempts (`create_prepared_lobby_assignments_with_retries`, `create_lobby_assignment_records`, `wait_for_lobby_assignments_prepared`, `queue_failed_lobby_attempt_cleanup`) | attempt number, the member each loop has come to, `avoid_server_ids` | one allocation for the roster, put, wait, clean up and grant per member, retry | provider, buckets, work queue, sessions |
| Connection monitors (`monitor_assignment_connection`, `monitor_lobby_assignment_connections`) | attempt watched, retries left, the sleep, who timed out | sleep, check `active_connections` and capacity, clean up, replace, grant | buckets, work queue, provider, sessions |
| NATS coordinator: buckets (`nats/src/lib.rs`) | `assignments_by_server`, `assignments_by_client`, `assignments_prepared`, `active_connections`, `server_capacity`, `server_drains` | put, get, delete, cancel by server, expiry | everyone |
| Pending-set loop (`update_server_assignments`) | one entry with its revision | read, modify, compare-and-set, try again | NATS |
| Lifecycle work queue and worker (`publish_lifecycle_work`, `run_lifecycle_worker`, `process_lifecycle_work`) | a WorkQueue stream, a durable consumer with delivery counts | publish, deliver, retry, dead-letter, acknowledge, restart | NATS, provider |
| Lobbies and websocket sessions (`server/src/lobby.rs`, the socket loop) | lobbies, members, ready flags, `assigning_lobbies`, sender per player | create, join, set ready, assign, grant, unregister | play requests, sockets |
| Drain administration (`drain_game_server`, `undrain_game_server`, `/drain`) | `drained_servers`, the matchmaker's drain flag | mark, cancel pending assignments, queue cleanup, undrain | buckets, work queue |
| Game server bridge and gate (`bevy_server/src/lib.rs`) | the thread: assignments seen, the report being published; the app: tracked assignments, gate, queued reports; a channel each way | poll, register, acknowledge, consume, report, expire, revoke | buckets, netcode server |
| Static NATS provider (`nats/src/lib.rs`: `choose_live_static_capacity_with_drains`) | none | choose a server by capacity, rooms, latency, drains and avoidance | buckets |
| Edgegap provider and its mock | none (sessions are kept by the service) | create, poll, delete a session | HTTP |
| Gameflow and static providers | none | one HTTP call and an address lookup; choice from a configured list | HTTP |
| Bevy client plugin (`bevy_client/src/lib.rs`) | the session thread, a channel each way, the app's view of the session | connect, send commands, read answers, reconnect | matchmaker |
| Assignment states (`core/src/state.rs`) | none | the transition tables | used as the abstract specification |
| Lightyear tokens, identity and protocol types, HTTP routes, metrics, configuration | none that the protocols depend on | | |

Where it is hard:

- **interleaving and stale reads**: the wait loop reads a drain marker and then
  an acknowledgement while bridge, operator and other requests write the same
  buckets; a drain lists, clears, and purges what it listed; the roster of a
  lobby is taken outside the lock that set its ready flag; requests choose from
  capacity reports that no choice changes;
- **timeouts against late answers**: a prepare timeout or connection timeout
  races with the report it waited for; entries expire on their own clock;
- **partial failure**: every bucket operation can fail with the ones before it
  done, inside the cleanup as well; a provider call can fail after the service
  has carried it out;
- **redelivery and crashes**: a worker stops between handling and
  acknowledging; the ack wait runs while deliveries wait in a buffer; a game
  server restarts with its records still in the buckets;
- **order through queues**: a client's reports pass an outbox, a channel and
  several bucket operations; commands and events of the client pass a channel, a
  connection and a channel;
- **limits**: retries, compare-and-set turns, deliveries, a full stream, seats
  and rooms;
- **several sockets of one player**: the identity is derived from the address.

What makes each part correct:

- play requests: no grant before the server admits the client; no allocation
  lost or released behind a granted client's back; retries go elsewhere; every
  request is answered;
- lobby attempts: no member is sent to the game before all can get in; the
  shared allocation is released once, not once per member; a failed attempt
  cleans up every member;
- monitors: a connected client is kept (which the code does not guarantee, see
  the runs that find violations), one that is missing without a connection is cut
  off before its replacement opens, allocations are released once, monitors end;
- pending-set loop: no lost update under contention; it gives up only because
  of it;
- work queue: an accepted job stays until settled or discarded; the last
  delivery settles it; dead-lettered jobs stop;
- lobbies: messages only to live sockets; one assignment attempt at a time, on
  the whole lobby; readiness never stale;
- bridge and gate: no record is lost before its acknowledgement is stored,
  whatever crashes; connection entries follow the clients; who was revoked
  stays out;
- providers: seats are not overbooked on current reports, explicit rooms are
  not opened a second time where the host could be used, failed attempts leave no session, releases can
  be repeated;
- client: a command runs at most once, its loss is reported, the app's view
  follows the session.

`PROJECT.json` lists the hazards with their lines and the properties for them.

## 2. Modules

| Module | Models | Extends / uses |
|---|---|---|
| `AssignmentFlow` | Play requests, the buckets they use, bridge and gate up to the acknowledgement, the operator's drains. One key-value operation per step. | instantiates `AssignmentLifecycle` |
| `AssignmentLifecycle` | Abstract specification: the transition table of `AssignmentState`. | |
| `LobbyAssignment` | The attempts to assign one complete lobby: one allocation, a record per member. | instantiates `AssignmentLifecycle` |
| `ConnectionMonitor` | From the grant on: the monitor task, game servers that admit, expire and report clients, reports that expire, replacements. Discrete time. | uses the transitions of `AssignmentLifecycle` |
| `ServerAssignments` | The optimistic read-modify-write loop on one key. | instantiates `PendingSet` |
| `PendingSet` | Abstract specification: a set that changes atomically. | |
| `LifecycleQueue` | Stream, durable consumer and workers. | |
| `LobbyRuntime` | Lobbies, sessions and the task of each websocket. | an attempt is one step; `LobbyAssignment` is its inner course |
| `ServerBridge` | One game server: bridge thread, app, the channels between them, its buckets, clients, crashes. | models in detail what `AssignmentFlow` does from the poll to the acknowledgement |
| `CapacitySelection` | The choice of a server from capacity reports, as functions. | |
| `CapacityPlacement` | Requests that read reports one key at a time and choose, against servers whose reports, readiness and drains change. | extends `CapacitySelection` |
| `SessionProviders` | Edgegap sessions and Gameflow calls, with a failure before or after every call. | |
| `ProviderRouter` | The configured provider. | composes `CapacityPlacement` and `SessionProviders` |
| `ClientSession` | The client's app, session thread, channels and connections, and the matchmaker's task of each connection. | extends `ClientPromises` |
| `ClientPromises` | What the session promises to the app: two invariants over the part of its state they are about, which runs and proofs name. | |
| `...Proofs` (eight) | Theorems and proofs. | their module and `TLAPS` |
| `MC...` | Values for TLC. | their module |

**AssignmentFlow.** `pc[r]` is the place in `stream_assignment` and the
functions it calls; each label is one `await` on the provider or a bucket.
`TaskError` is the `?` (or the logged error) at that place: before the wait and
after it, the error ends the request; within the wait it fails the attempt;
within the cleanup it loses one step. The bucket variables have the buckets'
names. `seen`, `outbox` and `bridge` are the bridge thread, `gate` what the
app's connection gate admits. A drain call is the sequence
`DrainGameServer`, `PublishServerDrain`, `ListPending`, `ClearPending`,
`PurgeCanceled`, `QueueDrainCleanup`; an error can end it at every bucket
operation. One attempt has its own request, client and assignment ids in the
code, so the pair (request, number) stands for all of them.
`PutByServer`, `DeleteForClient`, `ConsumeByServer` and `ClearPending` change
the pending set atomically, which is what `ServerAssignments` justifies:
`CasImplementsPendingSet` proves that the code's loop does that.

**LobbyAssignment.** `pc` is again the place in the task, `member` the member
that its current loop has come to: the records are put one after the other,
waited for one after the other (each with a deadline of its own), cleaned up
and granted one after the other. The pair (attempt, member) stands for a
record, the attempt for its allocation. `EnqueueRelease` queues one release for
all of them. Steps are coarser than in `AssignmentFlow` where that module has
settled the finer ones: a bridge consumes what it acknowledged in one step, and
a drain call clears set, index and acknowledgements in one. `Alive` are the
servers whose process runs: a dead one stays in the capacity bucket until its
entry expires, so that it can be chosen and never answers.

**ConnectionMonitor.** The roster is one member for solo play and several for
a lobby; the two monitor functions have the same structure and the guards say
where they differ. `Tick` advances every timer and is taken only when nothing
is due. A replacement is one step, `ReplacePrepared` or `ReplaceFails` - its
inner course is `AssignmentFlow` - and its grants go out one member at a time
(`GrantOne`, `GrantFails`). Servers may die (`up`), be drained, lose reports,
and publish their capacity late. An `active` entry is written once, when the
client connects, and counts down from `ActiveTtl`; `lapsed` is a history
variable, the seats whose entry has run out, which no action reads.

**ServerAssignments.** `Call`, `ReadEntry`, `WriteEntry`, `WriteRejected` are
one turn of the loop. `WriteFails` covers a write whose answer is lost: the
store may have applied it, and the next turn may apply it again, which
`PendingSet` allows (the updates are idempotent).

**LifecycleQueue.** `Take ... Ack` are the body of the worker's message loop;
`Stop` is the return of the worker (connection, failed acknowledgement, end of
the process), `StartWorker` the next run a second later. The consumer keeps the
limit of the process that created it. What a release or a deletion does is
abstracted to its outcome; `SessionProviders` has the release itself.

**LobbyRuntime.** One step per critical section of `LobbyRuntime`'s lock. The
handler that completes a lobby runs the assignment before its loop serves its
socket again (`assign`, `grant`), other sockets go on. `NoSocket` is a player
without a registered sender.

**ServerBridge.** `bridge` is the place in the thread: `connecting`, the
`select!` between poll and channel, or one of the key-value operations of
`publish_report`; `current` is the report it publishes. `SyncNatsBridge` is
`sync_nats_bridge`, with the registration of everything received and the
sending of everything queued; `HandleConnected`, `HandleDisconnected`,
`ExpireUnconnected` and `InstallHandler` are the other systems, which have no
order among each other. `PublishFails` drops the rest of a report, as the
thread does; `Crash` is the death of the process, after which a new one finds
the buckets as they were left. A matchmaker puts and withdraws records.

**CapacitySelection and CapacityPlacement.** Server ids are numbers in the
order of their names, so that the last tie-breaker is `<=`. A report has
players, rooms with their players, limits (0 counts as 1), a region and
readiness. `ReadCapacity` reads one key, `Choose` reads the drained servers and
decides; between the two, servers publish, become unready, expire, are drained
and get players. Players who have been given a server but are not in its report
yet count as its load in the property, not in the choice. The configured static
provider and Edgegap's mock choose by the same functions from entries that
never change.

**SessionProviders.** `attempt[a]` is the place in `allocate`. `CreateFails`,
`PollFails`, `DeleteFails` and `ReleaseFails` are errors of a call that the
service has or has not carried out. `SessionEnds` is the service ending a
session by itself. Deployments may be `Unusable` (no address, no port).

**ProviderRouter.** `Init` picks the provider, which stays; `Next` interleaves
the two halves, of which the provider's guards enable the one that is
configured. It states the properties of the parts again so that runs and proofs
can name them.

**ClientSession.** Commands are numbered as the app queues them. `thread` is
the place in the session thread, `conn` its connection; a connection has
messages under way in each direction and is up, broken (which neither side has
noticed) or closed. Breaking a connection does not lose what has been
delivered: the matchmaker's task may still handle a command whose answer never
arrives. `Applied` is what an event does to the app's view.

Operators commented "deviation" are mutated forms of the definition after them
(a dropped guard, a swapped order); they are not part of any specification and
are used to show that a property can fail.

## 3. Runs

Runs that pass:

| Run | Instance | What it shows |
|---|---|---|
| `FlowRace` | two requests, one server, no retry, one drain (with undrain), one fault | No grant without an admitting gate, no waiting assignment is lost, no job without a cause, an allocation behind a grant is released only by a drain. Two requests and an operator meet on every bucket; two drains of the same server or a second fault add no new pair of racing steps. |
| `FlowRetry` | one request with one retry, two servers of which one is drained, no fault, fair | Retries move on, what was abandoned is queued for cleanup, attempts implement the transition table, every request is answered, drained servers get empty. One retry is enough to revisit a server; the absence of faults is the hypothesis of `AbandonedIsQueued` (with faults it is false, see the observations). |
| `LobbyAttempt` | two members, two servers of which one is dead and the other may be drained, one retry, one fault, fair | Grants are for the whole roster, the shared allocation is released once, no failed attempt leaves a member without cleanup, the lobby is answered. Two members suffice to tell the first, a later and the last one apart; the dead server makes the first attempt fail by timeout, the drain makes the other one fail, and both leave no server. |
| `Monitors` | a roster of one with one fault and drains, or of two without (the constraint `LobbiesRunSmoothly`), one replacement, servers that die, the default times in units of 30 seconds, fair | Whom the monitor took for missing does not turn up later, although other members of the roster stay connected; allocations are released once; solo play follows the transition table; the monitor and each gate entry end. The times are the defaults of the configurations: 60 seconds for the matchmaker and the gate (2), 30 for the entries of connections and capacity (1), a delay rounded up to 1, so that entries do run out while the monitor sleeps. The constraint cuts failures and drains only, which no fair action depends on; what a lobby does under them is proved. |
| `PendingRace` | three callers, two assignments, three turns, one expiry, one fault | The loop implements the atomic set; a revision identifies its value; a call gives up only for conflicts, expiries or faults. Three turns with three callers allow a call to lose all its turns (two writers and an expiry or a fault), so giving up is reached. |
| `QueueRace` | two workers, two jobs of which one does not parse, stream of one job, two deliveries, buffer of two, one fault, fair | An unsettled job is kept, a dead-lettered one is not delivered again, no job runs out of deliveries unsettled without a fault, every job ends. The stream is smaller than the number of jobs so that it discards. |
| `LobbyRace` | two players, three sockets (one player connects twice), two lobbies, sizes 0 and 2 | Sessions are live, one attempt per lobby, on the whole lobby. Size 0 is clamped to 1. |
| `BridgeReports` | two clients of which one connects, one failing operation or crash, fair | No record is lost before it is acknowledged, connection entries are backed by a client or their deletion is on its way, a revoked client stays out, reports arrive. The second client only expires or is withdrawn, which is enough for its reports to be before, between and after those of the first; one fault reaches each operation of each report. |
| `Providers` | each provider in turn; two requests, one explicit room, two servers (two seats with a room of one, and limits of 0), three changes; one remote attempt, two deployments, three faults | Seats are not overbooked on current reports, rooms are not split without cause, failed attempts leave no session, releases settle. Two requests compete for one seat or one room; three changes let a server publish, fill and be drained between the keys a request reads; three faults let creation, poll and release each fail once. Attempts share no state, so one stands for all. |
| `ClientReconnect` | two commands, two connections, with and without reconnecting, fair | Commands run at most once and in order, the view follows the session, the loss of a command is reported. Two connections are one that fails with commands queued, under way and in service, and one after it. |

Two runs find a disagreement between the code and what the documentation says
(`expect: violation`; the quotes are in `PROJECT.json`):

| Run | Counterexample |
|---|---|
| `LobbyReconnect` | The player connects again, then the first socket ends and unregisters the new session: it gets no further lobby update, which contradicts `docs/protocol.md:163`. |
| `ExpiredReport` | One player, no failure, the default times in units of 15 seconds. The client connects at once; its connection entry, written once, runs out after `active_connections_secs` (30), and after `assignment_timeout_secs` (60) the monitor finds none, takes the client for missing and queues the deletion of its assignment and the release of its allocation, which on a provider with sessions ends the session it plays in. `docs/implementation_status.md:506` asks that the cleanup "does not revoke clients that connected". |

Observations without a run of their own:

- when a put after the allocation fails, `create_assignment` returns the error
  and nothing releases the allocation; the properties about abandoned attempts
  (`AbandonedIsQueued`, `AttemptsAreQueued`) are about failures of the game
  server and timeouts and do not catch this;
- a drain releases the allocation of an assignment whose task has just seen the
  acknowledgement and grants it: nothing is read in between.
  `GrantKeepsAllocation` excludes every other release behind a grant and excuses
  the drain;
- the durable consumer keeps the `max_deliver` it was created with after the
  configured limit has been raised; the worker then waits for a delivery that
  never comes. `QueueRace` and two of the queue's theorems assume one limit;
- an error of a status poll leaves the Edgegap provider's wait without the
  deletion that its timeout has, so the session stays; this is why
  `FailedLeavesNoSession` excludes attempts one of whose calls failed;
- a full stream discards the oldest job, whether it was handled or not;
  `UnsettledIsKept` excuses discarded jobs and shows that no other is lost;
- `docs/runtime-model.md:217` says of an explicit room: "If the room is full, do
  not create a duplicate elsewhere". That holds of a full room whose host has
  seats left. A host that is itself full is filtered out before rooms are looked
  at: with a server of one seat and the room on it, the next request for the room
  opens it on the other server. So do hosts that are drained or avoided, of which
  the documentation does not speak. `RoomsStayTogether` excuses exactly the rooms
  of hosts that could not be used or seen, and one more case that the attempt at
  its proof brought up: an old report shows the room on a server where it has
  been closed since, a request that avoids that server has opened it on another
  one, and a third request, which sees both, is sent where the room was. The
  run's two requests are too few for it; the theorem covers it;
- two requests that choose on the same report get the same last seat;
  `SeatsAreBooked` excuses servers chosen on a report that was not current, so
  what it excludes is a server overbooked on a current one;
- a lobby asks for one allocation, which one free seat satisfies whatever the
  size of the roster; `SeatsAreBooked` excuses servers given to a roster;
- the client sends no heartbeat, so a connection that dies silently is noticed
  by its next write only; a connection closed without an error leaves
  `grant_state` as it was, which may be preparing; and a grant is paired with
  the assignment announced last, for it carries no assignment id;
- nothing removes a lobby from `assigning_lobbies`, and nothing removes a lobby
  at all: after a failed attempt, getting ready again starts nothing;
- when any member of a lobby is missing, the monitor queues the cleanup of every
  member's records and of the allocation they share, connected members included,
  also when entries outlive the timeout: `ConnectedIsKept` fails for a lobby for
  this reason too;
- a lobby whose grants fail half way fails as a whole, while those who have their
  grant can still connect: `FollowsLifecycle` is about a roster of one;
- a job that succeeded can be processed again when its ack wait elapsed in the
  meantime, so its logged state goes from succeeded back to processing;
- an assignment put between a drain's list and its clear is cleared without a
  job for it; its request notices the drain or times out and cleans up, which
  is why `WaitingIsNotLost` has its drain alternative and `DrainedServersEmpty`
  still holds;
- clients behind one address share a player id, so they share the session slot
  that `LobbyReconnect` is about.

Bounds that are not code: `MaxFaults` (most modules), `MaxDrains`, `Drainable`
(flow), `Drainable` (lobby attempts), `MaxExpiries` (pending set), `Prefetch`
(queue), `MaxLobbies` (lobbies), `Connecting` (bridge), `MaxEvents` (placement),
`MaxCommands`, `MaxConnections` (client). The proofs hold for every value of
those in their modules. `PendingRace` and `Providers` use symmetry; neither has liveness properties, and
`Providers` permutes requests and deployments only, for servers differ. `Monitors`
has a state constraint, `LobbiesRunSmoothly`; each fair action has a step that
stays within it. Deadlock is not checked
because all systems may really stop: requests are answered, monitors end,
sockets close, calls return, sessions end.

### Fairness

- `AssignmentFlow`: weak fairness on the request task, on its deadline and on
  a drain call once started: each is a tokio task that keeps running, and
  `tokio::time::timeout` bounds the wait. No fairness for bridge, gate or
  operator: a game server may be dead, an operator may never act. So
  `RequestsAreAnswered` does not rely on a server that answers.
- `LobbyAssignment`: the same, for the same reasons; `LobbyIsAnswered` holds
  with dead servers only.
- `ConnectionMonitor`: the monitor task, the timers and the bookkeeping of
  running servers (expiry, publishing) proceed; clients need not connect,
  servers may stop.
- `LifecycleQueue`: a worker restarts and handles what it holds; ack waits
  elapse; strong fairness for delivery of a job, because NATS hands out jobs in
  order to whichever worker has room, so a job that is deliverable again and
  again is delivered.
- `ServerBridge`: the thread connects and finishes a report it has begun, the
  app runs its frames; strong fairness for the two branches of `select!`, which
  picks among ready branches at random, and the interval keeps ticking. Clients,
  matchmakers and the expiry of assignments need not act.
- `ClientSession`: the session thread runs, and the app drains its events; the
  matchmaker's tasks and the network need not do anything.
- `ServerAssignments`, `LobbyRuntime` and `ProviderRouter` have no liveness
  property.

What is assumed of NATS, from how the code uses it: revisions are unique and
grow, an update with a stale revision is rejected, an acknowledgement that
arrives removes the job, entries expire after their bucket's age,
`get_or_create_consumer` leaves an existing consumer as it is. Of the remote
session service: it creates a session when asked, may end it, and answers a
deletion of a missing one with "not found". Of a websocket: messages of one
connection arrive in order, or not at all once it is broken.

## 4. Proofs

The constants' assumptions are `FlowAssumption`, `LobbyAssumption` (of the
attempts and of the lobbies), `CasAssumption`, `QueueAssumption`,
`BridgeAssumption`, `RouterAssumption`, `MonitorAssumption` and, of the client,
`SessionAssumption`: limits are naturals, a roster has a member, a client may
open a connection, timeouts are not 0, the sets that are counted are finite,
`NoServer` is not a server and `NoSocket` not a socket, and the key of an
explicit room is neither a keyword nor a key a game server chooses itself. All
results are for any number of requests, servers, rooms, callers, workers, jobs,
clients, retries, faults and drains.

**AssignmentFlowProofs.** `FlowTypeOK`, `FlowGrantsAreAdmitted`,
`FlowWaitingIsNotLost`, `FlowRetriesMoveOn`, `FlowGrantKeepsAllocation`, all
from `FlowIndInv`. None of the safety properties is inductive alone. That a
grant is admitted rests on the chain acknowledgement - report - gate - seen
(`Admission`), and on attempts being placed once, with nothing of another
server ever holding them (`Placement`): only then is the acknowledgement that a
task reads one of *its* server. That a waiting assignment is not lost needs in
addition that whoever clears a pending set has been counted as a drain
(`DrainsAreCounted`). Retries move on because the servers of earlier attempts
are in `avoid` (`TriedAreAvoided`). That a granted allocation is kept follows
from `ReleasesHaveCauses`: a release job comes from a drain, from an attempt
that was superseded, or from a request that failed. There is one lemma per part
of the invariant, and in each one step per action.

Three results build on `FlowIndInv`. `FlowAbandonedIsQueued` needs
`CleanupsAreDone`: without faults the only way out of an attempt is its
cleanup, which queues the deletion before the release. `FlowJobsHaveCauses`
needs `JobsAreCounted`, an inequality between counters: a drain of a server is
paid for in advance, since it is counted when it is called and owes each job it
has not queued yet (`Owed`), and an attempt's own cleanup is paid for when the
attempt is `Over`. `FlowImplementsLifecycle` is the refinement of
`AssignmentLifecycle`: `StatesTellTasks` reads the states off the tasks'
positions, and each step of a task moves the states of its own attempts along
one edge of the table, while the steps of bridges, drains and the environment
leave them alone.

**LobbyAssignmentProofs.** `LobbyTypeOK`, `LobbyGrantsAreWhole`,
`LobbySharedRelease`, `LobbyWaitingIsNotLost`, from `LobbyIndInv`. The argument
per record is that of the flow (`Placement`, `Admission`); what is new is the
induction along the roster. `WaitedAreAdmitted` says that the members before
the current one are admitted, so that the grants begin with the whole roster at
the gate; `PutsAreKept` carries what was put for the earlier members across the
puts of the later ones, into the wait. `SharedRelease` follows from
`ReleasesHaveCauses`, where the attempt's own release and its server's drain
are counted once each, however many members were listed.
`LobbyAttemptsAreQueued` adds `CleanupsAreDone`, how far the cleanup has come
along the roster: the deletions of the members before the current one are
queued, and all of them when the shared release is.

**ServerAssignmentsProofs.** `CasIndInv` gives `CasTypeOK`,
`CasRevisionIdentifiesValue` and `CasLostTurnsHaveCauses`;
`CasImplementsPendingSet` is the refinement. Its core: an update that the store
accepts was computed from the current set, because the revision it read is
still the current one and a revision identifies the set it wrote. Revision 0,
"no entry", is the exception to revisions being handed out once - the entry may
expire, be written and expire again - and is harmless because it always stands
for the empty set (`RevisionsGrow`). For the lost turns, `changes` remembers
what had happened when a caller last read (`ChangesAreSeen`); `CallsInProgress`
ties operation, turns and result to the position.

**WebsocketProofs**, the two ends of the websocket. Of the lobbies:
`LobbyRuntimeTypeOK`, `LobbySessionsAreLive`,
`LobbyReadyIsDerived`, `LobbyOneAttempt`, `LobbyRosterIsWhole`, from
`LobbyRuntimeIndInv`. That the copied roster is still the whole lobby when it
is used needs `AssignedAreComplete`: a lobby that is being assigned has no free
seat, so that nobody joins it, and joining is all that changes members.
`ReadyAreMembers` ties readiness to membership, without which counting ready
members would not show that a lobby is full.

Of the game client, which is the instance `Client`: `ClientCommandsRunOnce` from
`ClientOrderIndInv`. A command's number is in one place at a time - the app's
channel, one connection, or handled - and each place holds its numbers in
increasing order; what is in the channel is newer than anything passed on, and
what is still under way on a connection is newer than what was handled of it
(`InOrder`). So a reconnect, which drops what was under way, can lose a command
but never run it again. `ClientViewFollowsSession` from `ClientViewIndInv`: the
last event about the connection among those the app has not applied agrees with
the session, and with none left the view does.

**LifecycleQueueProofs.** `QueueTypeOK` and `QueueUnsettledIsKept` from
`LifecycleQueueIndInv`: an acknowledgement removes one job
(`StreamIsDistinct`), and only one that has an outcome (`OutcomesAreEarned`),
also when the delivery that is acknowledged is not the latest
(`DeliveriesAreCounted`). `QueueDeadLetterIsFinal` and `QueueNoJobIsStranded`
follow from `QueueLimitIndInv` under `EqualLimits`, the hypothesis that every
process is configured with the same limit; without it they are false, as the
observations say. Removing a position from a sequence, appending, and taking
the head are lemmas of their own.

**ServerBridgeProofs.** `BridgeRevokedStaysRevoked` from `BridgeGateIndInv`.
A record goes to the app once in the life of a process (`SentOnce`): what is
under way has been seen, and what the app has tracked is not under way again.
So a client that is gone cannot be registered again, and the gate holds tracked
clients only (`GateIsTracked`). `BridgeUnackedIsPending` from `BridgeAckIndInv`:
reports are about records that were told to the app (`ReportsAreTold`), and a
set entry is consumed only after the acknowledgement of the same report was
stored (`ConsumesAfterAck`). `BridgeActiveIsBacked` from `BridgeFollowIndInv`,
which follows the reports through the outbox, the channel and the bridge's hands
as one sequence, the `Pipeline`: in it no report of a client's connection comes
after that of its end, an end is reported only of clients that are gone, and a
connection that is reported is still there or its end comes behind it
(`ReportsFollow`); of an end the bridge deletes the connection entry first
(`DeletesFirst`). Reports the app writes are appended, reports the bridge takes
are removed at the head, so that the order survives every step.

**ConnectionMonitorProofs.** `MonitorTypeOK` and `MonitorReleasedOnce` from
`MonitorReleaseIndInv`: a replacement was taken from the retries
(`RetriesAreSpent`), which keeps attempts within `MaxRetries`, and an attempt is
released at the moment the monitor turns away from it (`ReleasesFollow`).
`MonitorMissingStaysMissing` comes from `MonitorTimingIndInv` under the
hypothesis `GateClosesFirst`: the matchmaker's timeout and the delay before the
grant together exceed the gate's timeout. With the defaults, 60 seconds for
both, this holds because preparing takes time; the setting of the game server in
the local example matches that of the matchmaker (`docs/runtime-model.md:138-141`),
but nothing in the code enforces it. Without it the theorem is false: the
gate would still be open when the monitor looks. Nothing is assumed about the
times to live, so the theorems hold for the default configuration too, in which
connection entries run out before the monitor looks. The argument follows the
clocks: an attempt is fresh until it is made (`FutureIsFresh`), its age and the
monitor's sleep run in step, so that the gate's timeout is over when the monitor
looks (`ClockRuns`), no gate entry outlives that timeout (`WaitingInTime`), and
whoever got in before has an entry, or had one that ran out
(`ConnectedIsReported`). So whoever has no entry and is not `lapsed` is out for
good (`MissingAreOut`), and the monitor turns away only from attempts in which
somebody is missing (`GivenUpIsMissed`). `MonitorFollowsLifecycle`, under the
same hypothesis, is the action property over the same invariant, about rosters
of one: whoever the monitor gave up is not waiting at the gate any more, and
what `StateOf` says of a seat changes along an edge of the table in every step;
`GrantsAreOut` tells "prepared" from "ready" while the monitor sleeps. `StateOf`
takes the game server's word for clients that are, or were, in the game; that
the monitor cleans up some of these is what `ExpiredReport` shows.

**ProviderRouterProofs.** `RouterFailedLeavesNoSession` and
`RouterReleaseSettles` from `RouterIndInv`. `Stages` is what makes them
inductive: an attempt that has not asked for a session has none, and only
granted allocations are released. The other half of the router leaves their
variables alone.

`RouterSeatsAreBooked` and `RouterRoomsStayTogether` from `RouterPlaceInv`, for
any servers, limits, rooms and requests. `PlaceInv` adds the types of what
decides on seats (`PlaceTypes`), that a report carries a number of players and
the limit of its server (`ReadTypes`), and that a room counts exactly those who
play in it (`RoomsAreCounted`), so that a room that closes leaves nobody behind
and one that stays is not empty. Four kinds of steps are told apart
(`SeatSteps`): nobody's seat changes, a request gets one (`TakesSeat`), a roster
comes in (`EntersRoom`) or goes (`GivesUpSeat`). The choice is among servers that
reported a seat (`ChosenHasSeat`), and a room that some usable server reported is
not opened on one that did not report it (`RoomsAreJoined`); both rest on
`FirstIsOne`: of finitely or infinitely many candidates one has the least latency,
load and name. `Sum` adds up a function by recursion over an arbitrary element;
it is equal to the number of pairs of an argument and a unit below its value
(`SumCounts`, by the least size of a set on which the two would differ), hence
independent of the order, and changes with one value by that value's change
(`SumChanges`).

Only model-checked: every liveness property (`RequestsAreAnswered`,
`LobbyIsAnswered`, `DrainedServersEmpty`, `MonitorEnds`, `GatesClose`,
`JobsEnd`, `ReportsArrive`, `LossIsReported`), which needs fairness and
ENABLED. `ConnectedIsReachable` and `ConnectedIsKept` are false of the code and
stay with their runs.

## 5. Not modelled

- `LobbyUpdated` messages and the order in which the members see them.
- `request_play_once` of the client: one linear exchange on a socket of its own.
- `validate_connection` of the gate, which only reads; the optional Agones
  worker, which only sends health and shutdown calls.
- Replacements as the client sees them: `ClientSession` answers one command
  at a time.
- Token construction and input types (`lightyear` crate): stateless.
- HTTP documents, metrics, configuration parsing: no influence on the
  protocols.
- Key names, JSON and messages: abstracted to the values the properties tell
  apart.
- Games and versions: all servers and requests are for the same one.

## 6. Plan

Done, in the order of importance: the assignment flow and the attempts of a
lobby, the monitors, the pending-set loop with its refinement, the work queue,
the lobbies, the game server's bridge, the providers and the client's session;
proofs about all of these, with every safety property of the passing runs; runs
that show where the code departs from its documents.

What would be worth adding:

1. A clock in `LobbyAssignment`: each member has a prepare deadline of its own,
   one after the other, while the gate's timeout runs from the first
   registration.
2. The messages each socket has been sent: handlers copy a lobby under the lock
   and send it afterwards, so two of them may send in the opposite order.
3. Replacement grants in `ClientSession`.
