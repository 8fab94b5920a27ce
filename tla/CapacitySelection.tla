-------------------------- MODULE CapacitySelection --------------------------
(***************************************************************************)
(* How a server is chosen for a request among reported capacities: the live *)
(* static provider over NATS, and the configured static and mock Edgegap   *)
(* providers.  Reports, all for one game and version, are a function from  *)
(* the reporting servers to records; server ids are numbered in the order  *)
(* of their names, the last tie-breaker.                                   *)
(***************************************************************************)
EXTENDS Naturals, FiniteSets

NoServer == 0   \* server ids count from 1
Unmeasured == 1000   \* u32::MAX, above every measured round trip

\* The load a server admits to: a maximum of 0 counts as 1.
AtLeastOne(n) == IF n = 0 THEN 1 ELSE n
HasPlayerCapacity(load) == load.players < AtLeastOne(load.max_players)
HasRoomCapacity(load)   == Cardinality(DOMAIN load.rooms) < AtLeastOne(load.max_rooms)

\* The shortest round trip the client measured to the server's region.
LatencyRank(load, request) ==
    LET measured == {l \in request.latencies : l.region = load.region} IN
    IF measured = {} THEN Unmeasured
    ELSE (CHOOSE l \in measured : \A k \in measured : l.rtt_ms <= k.rtt_ms).rtt_ms

\* Lower latency, then fewer players, then the name.
Precedes(s, t, reports, request) ==
    LET near(x) == LatencyRank(reports[x], request)
        load(x) == reports[x].players
    IN  \/ near(s) < near(t)
        \/ near(s) = near(t) /\ load(s) < load(t)
        \/ near(s) = near(t) /\ load(s) = load(t) /\ s <= t

First(servers, reports, request) ==
    IF servers = {} THEN NoServer
    ELSE CHOOSE s \in servers : \A t \in servers : Precedes(s, t, reports, request)

Hosts(load, key)    == key \in DOMAIN load.rooms
HasSeatIn(load, key) ==
    Hosts(load, key) /\ load.rooms[key] < AtLeastOne(load.room_players)

AcceptsOneMore(reports, request) ==   \* deviation: one seat too many
    {s \in DOMAIN reports :
        /\ reports[s].ready
        /\ reports[s].players <= AtLeastOne(reports[s].max_players)
        /\ s \notin request.avoid}

\* accepts_request of the configured providers, and the common part of
\* accepts_live_static_capacity_base.
Accepts(reports, request) ==
    {s \in DOMAIN reports :
        reports[s].ready /\ HasPlayerCapacity(reports[s]) /\ s \notin request.avoid}

ChooseConfigured(reports, request) == First(Accepts(reports, request), reports, request)

Candidates(reports, request, drained) == Accepts(reports, request) \ drained

ChooseRoomAnywhere(candidates, reports, request) ==   \* deviation: a full room is opened again
    LET hosts == {s \in candidates : HasSeatIn(reports[s], request.room)}
        open  == {s \in candidates : HasRoomCapacity(reports[s])}
    IN  First(IF hosts # {} THEN hosts ELSE open, reports, request)

\* A room that some candidate hosts is not opened on another server, even when it
\* is full.
ChooseExplicitRoom(candidates, reports, request) ==
    LET hosts == {s \in candidates : Hosts(reports[s], request.room)} IN
    First(IF hosts # {} THEN {s \in hosts : HasSeatIn(reports[s], request.room)}
          ELSE {s \in candidates : HasRoomCapacity(reports[s])},
          reports, request)

ChooseLive(reports, request, drained) ==
    LET candidates == Candidates(reports, request, drained) IN
    CASE request.room = "auto" -> First(candidates, reports, request)
      [] request.room = "new"  ->
            First({s \in candidates : HasRoomCapacity(reports[s])}, reports, request)
      [] OTHER -> ChooseExplicitRoom(candidates, reports, request)
=============================================================================
