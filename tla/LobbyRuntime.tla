----------------------------- MODULE LobbyRuntime -----------------------------
(***************************************************************************)
(* The in-process lobbies and the websocket sessions that use them.  Each  *)
(* critical section of LobbyRuntime is one step; between them the handlers *)
(* of different sockets interleave, and the handler that completes a lobby *)
(* runs the whole assignment before its socket is served again.            *)
(*                                                                         *)
(* Lobbies are numbered as next_lobby_id does; next_join_code grows with   *)
(* it, so a lobby's number stands for its join code too.  LobbyUpdated     *)
(* messages change no state of the matchmaker and are left out.            *)
(***************************************************************************)
EXTENDS Naturals, FiniteSets

CONSTANTS
    Players,
    Sockets,     \* websocket connections
    PlayerOf,    \* the player a socket's identity resolves to
    NoSocket,    \* a player without a registered session
    Sizes,       \* max_players that clients ask for
    MaxLobbies   \* bound: lobbies created

ASSUME LobbyAssumption ==
    /\ IsFiniteSet(Players)
    /\ PlayerOf \in [Sockets -> Players]
    /\ NoSocket \notin Sockets
    /\ Sizes \subseteq Nat
    /\ MaxLobbies \in Nat

VARIABLES
    pc,          \* the state of each socket's task
    lobbyOf,     \* session.lobby_id, 0 without one
    roster,      \* members of the lobby a handler assigns, not yet granted
    sessions,    \* the sender registered for each player
    created,     \* lobbies created so far
    maxPlayers, members, readyMembers, ready,  \* per lobby
    assigning,   \* assigning_lobbies
    draining     \* the matchmaker's drain flag

taskVars == <<pc, lobbyOf, roster>>
lobbyVars == <<created, maxPlayers, members, readyMembers, ready, assigning>>
vars == <<taskVars, sessions, lobbyVars, draining>>

Lobbies == 1..MaxLobbies

Init ==
    /\ pc = [k \in Sockets |-> "new"]
    /\ lobbyOf = [k \in Sockets |-> 0]
    /\ roster = [k \in Sockets |-> {}]
    /\ sessions = [p \in Players |-> NoSocket]
    /\ created = 0
    /\ maxPlayers = [l \in Lobbies |-> 0]
    /\ members = [l \in Lobbies |-> {}]
    /\ readyMembers = [l \in Lobbies |-> {}]
    /\ ready = [l \in Lobbies |-> FALSE]
    /\ assigning = {}
    /\ draining = FALSE

Step(k, from, to) ==
    /\ pc[k] = from
    /\ pc' = [pc EXCEPT ![k] = to]

\* While the matchmaker drains it takes no connection and no command.
Connect(k) ==
    /\ ~draining
    /\ Step(k, "new", "open")
    /\ UNCHANGED <<lobbyOf, roster, sessions, lobbyVars, draining>>

\* The first command of a socket resolves its identity and registers the session.
EnsureIdentity(k) ==
    /\ ~draining
    /\ Step(k, "open", "idle")
    /\ sessions' = [sessions EXCEPT ![PlayerOf[k]] = k]
    /\ UNCHANGED <<lobbyOf, roster, lobbyVars, draining>>

AtLeastOne(n) == IF n = 0 THEN 1 ELSE n

CreateLobby(k, size) ==
    /\ ~draining
    /\ pc[k] = "idle"
    /\ created < MaxLobbies
    /\ created' = created + 1
    /\ maxPlayers' = [maxPlayers EXCEPT ![created'] = AtLeastOne(size)]
    /\ members' = [members EXCEPT ![created'] = {PlayerOf[k]}]
    /\ lobbyOf' = [lobbyOf EXCEPT ![k] = created']
    /\ UNCHANGED <<pc, roster, sessions, readyMembers, ready, assigning, draining>>

JoinFullLobby(k, l) ==   \* deviation: > instead of >= when the seats are counted
    /\ ~draining
    /\ pc[k] = "idle"
    /\ l \in 1..created
    /\ PlayerOf[k] \in members[l] \/ Cardinality(members[l]) <= maxPlayers[l]
    /\ members' = [members EXCEPT ![l] = @ \cup {PlayerOf[k]}]
    /\ lobbyOf' = [lobbyOf EXCEPT ![k] = l]
    /\ UNCHANGED <<pc, roster, sessions, created, maxPlayers, readyMembers, ready,
                   assigning, draining>>

\* Joining again is accepted and changes nothing; an unknown code and a full lobby
\* are errors without effect.
JoinLobbyByCode(k, l) ==
    /\ ~draining
    /\ pc[k] = "idle"
    /\ l \in 1..created
    /\ PlayerOf[k] \in members[l] \/ Cardinality(members[l]) < maxPlayers[l]
    /\ members' = [members EXCEPT ![l] = @ \cup {PlayerOf[k]}]
    /\ lobbyOf' = [lobbyOf EXCEPT ![k] = l]
    /\ UNCHANGED <<pc, roster, sessions, created, maxPlayers, readyMembers, ready,
                   assigning, draining>>

Complete(l) == Cardinality(members[l]) >= maxPlayers[l]

SetMember(l, p, flag) ==
    readyMembers' = [readyMembers EXCEPT ![l] = IF flag THEN @ \cup {p} ELSE @ \ {p}]

Assign(k, l) ==
    /\ pc' = [pc EXCEPT ![k] = "assign"]
    /\ assigning' = assigning \cup {l}
    /\ roster' = [roster EXCEPT ![k] = members[l]]

SetReadyAssigns(k, flag) ==   \* deviation: every completing command assigns
    LET l == lobbyOf[k]
        p == PlayerOf[k]
    IN  /\ ~draining
        /\ pc[k] = "idle"
        /\ l # 0
        /\ p \in members[l]
        /\ SetMember(l, p, flag)
        /\ ready' = [ready EXCEPT ![l] = Complete(l) /\ members[l] \subseteq readyMembers'[l]]
        /\ IF ready'[l]
             THEN Assign(k, l)
             ELSE UNCHANGED <<pc, assigning, roster>>
        /\ UNCHANGED <<lobbyOf, sessions, created, maxPlayers, members, draining>>

\* The command that completes a lobby starts its assignment; no lobby ever leaves
\* assigning_lobbies.
SetReady(k, flag) ==
    LET l == lobbyOf[k]
        p == PlayerOf[k]
    IN  /\ ~draining
        /\ pc[k] = "idle"
        /\ l # 0
        /\ p \in members[l]
        /\ SetMember(l, p, flag)
        /\ ready' = [ready EXCEPT ![l] = Complete(l) /\ members[l] \subseteq readyMembers'[l]]
        /\ IF ready'[l] /\ l \notin assigning
             THEN Assign(k, l)
             ELSE UNCHANGED <<pc, assigning, roster>>
        /\ UNCHANGED <<lobbyOf, sessions, created, maxPlayers, members, draining>>

\* Every record of the lobby is prepared: the grants follow.
LobbyPrepared(k) ==
    /\ Step(k, "assign", "grant")
    /\ UNCHANGED <<lobbyOf, roster, sessions, lobbyVars, draining>>

\* A grant is sent to whoever is registered for the member, or to nobody.
GrantMember(k, p) ==
    /\ pc[k] = "grant"
    /\ p \in roster[k]
    /\ roster' = [roster EXCEPT ![k] = @ \ {p}]
    /\ pc' = [pc EXCEPT ![k] = IF roster'[k] = {} THEN "idle" ELSE "grant"]
    /\ UNCHANGED <<lobbyOf, sessions, lobbyVars, draining>>

\* The provider, a put, the preparation or the token issuer fails: the completing
\* member alone gets the error.
AssignFails(k) ==
    /\ pc[k] \in {"assign", "grant"}
    /\ pc' = [pc EXCEPT ![k] = "idle"]
    /\ roster' = [roster EXCEPT ![k] = {}]
    /\ UNCHANGED <<lobbyOf, sessions, lobbyVars, draining>>

CloseForgetsSession(k) ==   \* deviation: the session stays registered
    /\ pc[k] \in {"open", "idle"}
    /\ pc' = [pc EXCEPT ![k] = "closed"]
    /\ UNCHANGED <<lobbyOf, roster, sessions, lobbyVars, draining>>

\* The loop serves the socket between commands only: it notices the end then, and
\* unregisters whatever is registered for the player.
Close(k) ==
    /\ pc[k] \in {"open", "idle"}
    /\ pc' = [pc EXCEPT ![k] = "closed"]
    /\ sessions' = IF pc[k] = "idle" THEN [sessions EXCEPT ![PlayerOf[k]] = NoSocket]
                                     ELSE sessions
    /\ UNCHANGED <<lobbyOf, roster, lobbyVars, draining>>

StartDraining ==
    /\ draining' = TRUE
    /\ UNCHANGED <<taskVars, sessions, lobbyVars>>

StopDraining ==
    /\ draining' = FALSE
    /\ UNCHANGED <<taskVars, sessions, lobbyVars>>

Handler(k) ==
    \/ LobbyPrepared(k) \/ AssignFails(k)
    \/ \E p \in Players : GrantMember(k, p)

Next ==
    \/ \E k \in Sockets :
         \/ Connect(k) \/ EnsureIdentity(k) \/ Handler(k) \/ Close(k)
         \/ \E n \in Sizes : CreateLobby(k, n)
         \/ \E l \in Lobbies : JoinLobbyByCode(k, l)
         \/ \E flag \in BOOLEAN : SetReady(k, flag)
    \/ StartDraining \/ StopDraining

Spec == Init /\ [][Next]_vars

-----------------------------------------------------------------------------
(* Properties.                                                             *)

\* Type correctness; lobbies fill up in order and never over their seats.
TypeOK ==
    /\ pc \in [Sockets -> {"new", "open", "idle", "assign", "grant", "closed"}]
    /\ created \in 0..MaxLobbies
    /\ lobbyOf \in [Sockets -> 0..created]
    /\ roster \in [Sockets -> SUBSET Players]
    /\ sessions \in [Players -> Sockets \cup {NoSocket}]
    /\ maxPlayers \in [Lobbies -> Nat]
    /\ members \in [Lobbies -> SUBSET Players]
    /\ \A l \in 1..created : Cardinality(members[l]) <= maxPlayers[l]
    /\ readyMembers \in [Lobbies -> SUBSET Players]
    /\ ready \in [Lobbies -> BOOLEAN]
    /\ assigning \subseteq 1..created
    /\ draining \in BOOLEAN

\* Messages go to live sockets only: a registered session is the player's own and
\* its loop is still running.
SessionsAreLive ==
    \A p \in Players : sessions[p] # NoSocket =>
        /\ PlayerOf[sessions[p]] = p
        /\ pc[sessions[p]] \in {"idle", "assign", "grant"}

\* The stored flag never goes stale: joining does not recompute it, and still it
\* always says whether the lobby is complete and everybody is ready.
ReadyIsDerived ==
    \A l \in 1..created : ready[l] <=> Complete(l) /\ members[l] \subseteq readyMembers[l]

Assigns(k, l) == lobbyOf[k] = l /\ pc[k] \in {"assign", "grant"}

\* However the members' last commands race, one handler assigns the lobby, while it
\* is marked.
OneAttempt ==
    \A l \in Lobbies : \A k, h \in Sockets :
        Assigns(k, l) /\ Assigns(h, l) => k = h /\ l \in assigning

\* Nobody joins behind the back of an assignment: until the first grant, the roster
\* taken outside the lock is the whole lobby.
RosterIsWhole ==
    \A k \in Sockets : \A l \in 1..created :
        pc[k] = "assign" /\ lobbyOf[k] = l => roster[k] = members[l]

\* A connected player can be reached: lobby changes and grants are pushed to every
\* connected lobby member.
ConnectedIsReachable ==
    \A k \in Sockets : pc[k] \in {"idle", "assign", "grant"} => sessions[PlayerOf[k]] # NoSocket
=============================================================================
