-------------------------- MODULE CapacityPlacement --------------------------
(***************************************************************************)
(* Placement by capacity.  Game servers publish what they carry; a request *)
(* reads the reports one key at a time, then the drained servers, and      *)
(* chooses.  Nothing is reserved: players count once their server has      *)
(* published them.  How clients enter and leave rooms is the game's own    *)
(* code, bounded here.  The configured static and the mock Edgegap provider*)
(* choose among entries that never change; drains reach them only as       *)
(* servers to avoid, and rooms do not concern them.                        *)
(***************************************************************************)
EXTENDS CapacitySelection

CONSTANTS
    Servers,      \* server ids, numbered in the order of their names
    Requests,     \* allocation requests
    Rooms,        \* keys of explicit rooms
    Capacity,     \* limits and region of each server
    Latencies,    \* the clients' latency reports
    MaxEvents     \* bound: reports, readiness changes, expiries and drains

\* What is assumed of the constants: the limits and the bound are numbers, server ids
\* are positive, and an explicit key is neither a keyword nor a key a server chooses.
PlacementAssumption ==
    /\ Servers \subseteq Nat \ {NoServer} /\ IsFiniteSet(Servers)
    /\ IsFiniteSet(Requests) /\ IsFiniteSet(Rooms)
    /\ Rooms \cap ({"auto", "new"} \cup Requests) = {}
    /\ \A s \in Servers : \A limit \in {"max_players", "max_rooms", "room_players"} :
         limit \in DOMAIN Capacity[s] /\ Capacity[s][limit] \in Nat
    /\ \A l \in Latencies : l.rtt_ms \in 0..Unmeasured
    /\ MaxEvents \in Nat

VARIABLES
    provider,   \* the configured provider
    request,    \* what each request asks for: room, roster size, servers to avoid, and its
                \* clients' latencies
    at,         \* where each request is
    snapshot,   \* the reports it has read
    unread,     \* the servers whose key it has yet to read
    chosen,     \* the server it was given
    ready,      \* servers ready for assignments
    rooms,      \* players in each open room of a server
    reports,    \* the capacity bucket, or the configured entries
    drained,    \* servers an operator has drained
    events,     \* how often reports, readiness or drains have changed
    excused,    \* servers given away on an old report, or to a whole roster
    split       \* rooms that the request could not see or not use, or saw where they
                \* were closed, when it chose

requestVars   == <<request, at, snapshot, unread, chosen>>
serverVars    == <<ready, rooms, reports, drained, events>>
history       == <<excused, split>>
placementVars == <<requestVars, serverVars, history>>

Configured == provider \in {"static", "edgegap_mock"}
Live       == provider = "nats_static"

Wishes ==
    [room : {"auto"} \cup Rooms, size : {1}, avoid : SUBSET Servers, latencies : {Latencies}]
    \cup [room : {"new"}, size : {1, 2}, avoid : SUBSET Servers, latencies : {Latencies}]

Sum(f) == LET sum[S \in SUBSET DOMAIN f] ==
                  IF S = {} THEN 0
                  ELSE LET x == CHOOSE x \in S : TRUE IN f[x] + sum[S \ {x}]
          IN  sum[DOMAIN f]

\* Players on a server, and players it has been given that are still to come.
Players(s)  == Sum(rooms[s])
Expected(s) == Sum([r \in {r \in Requests : at[r] = "placed" /\ chosen[r] = s} |-> request[r].size])
Load(s)     == Players(s) + Expected(s)

\* A room is open on the server, or will be when an expected client arrives.
Occupies(s, key) ==
    \/ key \in DOMAIN rooms[s]
    \/ \E r \in Requests : at[r] = "placed" /\ chosen[r] = s /\ request[r].room = key

Current(s) ==
    [ready |-> s \in ready, players |-> Players(s), rooms |-> rooms[s],
     max_players |-> Capacity[s].max_players, max_rooms |-> Capacity[s].max_rooms,
     room_players |-> Capacity[s].room_players, region |-> Capacity[s].region]

Init ==
    /\ request = [r \in Requests |-> <<>>]
    /\ at = [r \in Requests |-> "idle"]
    /\ snapshot = [r \in Requests |-> <<>>]
    /\ unread = [r \in Requests |-> {}]
    /\ chosen = [r \in Requests |-> NoServer]
    /\ ready = Servers
    /\ rooms = [s \in Servers |-> <<>>]
    /\ reports = [s \in Servers |-> Current(s)]
    /\ drained = {} /\ events = 0
    /\ excused = {} /\ split = {}

-----------------------------------------------------------------------------
(* The matchmaker.                                                         *)

\* allocate is called; the live provider starts to list the capacity keys.
Ask(r) ==
    /\ at[r] = "idle"
    /\ \E wish \in Wishes : request' = [request EXCEPT ![r] = wish]
    /\ at' = [at EXCEPT ![r] = "choosing"]
    /\ unread' = [unread EXCEPT ![r] = IF Live THEN Servers ELSE {}]
    /\ UNCHANGED <<snapshot, chosen, serverVars, history>>

\* A key that has expired, or was never written, is skipped.
ReadCapacity(r, s) ==
    /\ at[r] = "choosing"
    /\ s \in unread[r]
    /\ unread' = [unread EXCEPT ![r] = @ \ {s}]
    /\ snapshot' = IF s \in DOMAIN reports
                   THEN [snapshot EXCEPT ![r] = [t \in DOMAIN snapshot[r] \cup {s} |->
                            IF t = s THEN reports[s] ELSE snapshot[r][t]]]
                   ELSE snapshot
    /\ UNCHANGED <<request, at, chosen, serverVars, history>>

\* The drained servers are read last, then the choice is made at once.
Choose(r) ==
    LET read   == IF Live THEN snapshot[r] ELSE reports
        choice == IF Live THEN ChooseLive(read, request[r], drained)
                  ELSE ChooseConfigured(read, request[r])
        key    == request[r].room
        seen(t) == t \in Candidates(read, request[r], drained) /\ Hosts(read[t], key)
        closed  == Hosts(read[choice], key) /\ ~Occupies(choice, key)
    IN  /\ at[r] = "choosing"
        /\ unread[r] = {}
        /\ chosen' = [chosen EXCEPT ![r] = choice]
        /\ at' = [at EXCEPT ![r] = IF choice = NoServer THEN "refused" ELSE "placed"]
        /\ excused' = IF choice # NoServer /\ (read[choice].players < Load(choice) \/ request[r].size > 1)
                      THEN excused \cup {choice} ELSE excused
        /\ split' = IF /\ choice # NoServer /\ key \in Rooms
                       /\ \E t \in Servers \ {choice} : Occupies(t, key) /\ (~seen(t) \/ closed)
                    THEN split \cup {key} ELSE split
        /\ request' = [request EXCEPT ![r] = IF choice = NoServer THEN <<>> ELSE @]
        /\ snapshot' = [snapshot EXCEPT ![r] = <<>>]
        /\ UNCHANGED <<unread, serverVars>>

-----------------------------------------------------------------------------
(* The clients and the game servers.                                       *)

\* The roster enters the room it asked for, or one of the server's choosing.
Join(r) ==
    LET s == chosen[r]
        keys == IF request[r].room \in Rooms THEN {request[r].room}
                ELSE IF request[r].room = "new" THEN {r} ELSE DOMAIN rooms[s] \cup {r}
    IN  /\ at[r] = "placed"
        /\ at' = [at EXCEPT ![r] = "playing"]
        /\ \E key \in keys :
             /\ rooms' = [rooms EXCEPT ![s] =
                    [k \in DOMAIN rooms[s] \cup {key} |->
                        IF k # key THEN rooms[s][k]
                        ELSE request[r].size + IF key \in DOMAIN rooms[s] THEN rooms[s][key] ELSE 0]]
             /\ request' = [request EXCEPT ![r].room = key]
        /\ UNCHANGED <<snapshot, unread, chosen, ready, reports, drained, events, history>>

\* Clients never come, or leave; an empty room is closed.
Leave(r) ==
    LET s == chosen[r]
        key == request[r].room
    IN  /\ at[r] \in {"placed", "playing"}
        /\ at' = [at EXCEPT ![r] = "gone"]
        /\ rooms' = IF at[r] = "placed" THEN rooms
                    ELSE [rooms EXCEPT ![s] =
                        IF rooms[s][key] = request[r].size
                        THEN [k \in DOMAIN rooms[s] \ {key} |-> rooms[s][k]]
                        ELSE [rooms[s] EXCEPT ![key] = @ - request[r].size]]
        /\ request' = [request EXCEPT ![r] = <<>>]
        /\ chosen' = [chosen EXCEPT ![r] = NoServer]
        /\ UNCHANGED <<snapshot, unread, ready, reports, drained, events, history>>

ServerEvent ==
    /\ events < MaxEvents
    /\ events' = events + 1
    /\ UNCHANGED <<requestVars, rooms, history>>

\* set_ready changes the server's own capacity and queues a readiness report;
\* the capacity bucket learns of it with the next publish_capacity.
SetReady(s) ==
    /\ ServerEvent
    /\ ready' = (ready \ {s}) \cup ({s} \ ready)
    /\ UNCHANGED <<reports, drained>>

PublishCapacity(s) ==
    /\ ServerEvent
    /\ reports' = [t \in DOMAIN reports \cup {s} |-> IF t = s THEN Current(s) ELSE reports[t]]
    /\ reports' # reports
    /\ UNCHANGED <<ready, drained>>

\* Entries of the capacity bucket live for server_capacity_secs.
ExpireCapacity(s) ==
    /\ ServerEvent
    /\ reports' = [t \in DOMAIN reports \ {s} |-> reports[t]]
    /\ reports' # reports
    /\ UNCHANGED <<ready, drained>>

DrainOrUndrain(s) ==
    /\ ServerEvent
    /\ drained' = (drained \ {s}) \cup ({s} \ drained)
    /\ UNCHANGED <<ready, reports>>

LiveServer(s) ==
    SetReady(s) \/ PublishCapacity(s) \/ ExpireCapacity(s) \/ DrainOrUndrain(s)

Next ==
    /\ Configured \/ Live
    /\ UNCHANGED provider
    /\ \/ \E r \in Requests :
            Ask(r) \/ Choose(r) \/ Join(r) \/ Leave(r) \/ \E s \in Servers : ReadCapacity(r, s)
       \/ Live /\ \E s \in Servers : LiveServer(s)

-----------------------------------------------------------------------------
(* Properties.                                                             *)

\* As long as each single player was placed on a report that already counted
\* everybody given to the server before, a server never has more players, there
\* or expected, than it can carry.
SeatsAreBooked ==
    \A s \in Servers \ excused : Load(s) <= AtLeastOne(Capacity[s].max_players)

\* An explicit room is on two servers only if some request for it could not see
\* it where it was, or could not use that server: it was full, drained, not ready
\* or to be avoided; or if an old report still showed it where it had been closed.
RoomsStayTogether ==
    \A key \in Rooms \ split : \A s, t \in Servers :
        Occupies(s, key) /\ Occupies(t, key) => s = t
=============================================================================
