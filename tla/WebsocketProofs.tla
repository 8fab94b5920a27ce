--------------------------- MODULE WebsocketProofs ---------------------------
(***************************************************************************)
(* Proofs about the two ends of the websocket.  At the matchmaker: the     *)
(* lobbies and the sessions registered for their players, for every number *)
(* of players, sockets and lobbies and every assignment of sockets to      *)
(* players.  At the game client: its session, for every number of          *)
(* commands and connections, as the instance Client.                       *)
(***************************************************************************)
EXTENDS LobbyRuntime, ClientPromises, SequencesExt, FiniteSetTheorems, SequenceTheorems, TLAPS

CONSTANTS MaxCommands, MaxConnections
VARIABLES reconnect, issued, refused, told, commands, conn, up, down, link, serving, lost

Client == INSTANCE ClientSession

-----------------------------------------------------------------------------
(* The lobbies.                                                            *)

\* Whoever is ready is a member, and nobody is in a lobby that does not exist yet.
ReadyAreMembers ==
    \A l \in Lobbies :
        /\ readyMembers[l] \subseteq members[l]
        /\ l > created => members[l] = {} /\ ~ready[l]

\* A lobby that is being assigned has no free seat.
AssignedAreComplete ==
    \A k \in Sockets : \A l \in 1..created :
        pc[k] = "assign" /\ lobbyOf[k] = l => Complete(l)

LobbyIndInv ==
    /\ TypeOK
    /\ SessionsAreLive
    /\ ReadyAreMembers
    /\ ReadyIsDerived
    /\ OneAttempt
    /\ AssignedAreComplete
    /\ RosterIsWhole

\* The initial states satisfy the inductive invariant.
LEMMA InitInv == Init => LobbyIndInv
<1> SUFFICES ASSUME Init PROVE LobbyIndInv
    OBVIOUS
<1> USE DEF Init, Lobbies
<1>1. TypeOK
  <2>1. created = 0 /\ 0 \in 0..MaxLobbies /\ 1..created = {}
      BY LobbyAssumption
  <2>2. lobbyOf \in [Sockets -> 0..created]
      BY <2>1
  <2>3. \A l \in 1..created : Cardinality(members[l]) <= maxPlayers[l]
      BY <2>1
  <2>4. assigning \subseteq 1..created
      OBVIOUS
  <2>5. /\ pc \in [Sockets -> {"new", "open", "idle", "assign", "grant", "closed"}]
        /\ roster \in [Sockets -> SUBSET Players]
        /\ sessions \in [Players -> Sockets \cup {NoSocket}]
        /\ draining \in BOOLEAN
      OBVIOUS
  <2>6. /\ maxPlayers \in [Lobbies -> Nat]
        /\ members \in [Lobbies -> SUBSET Players]
        /\ readyMembers \in [Lobbies -> SUBSET Players]
        /\ ready \in [Lobbies -> BOOLEAN]
      OBVIOUS
  <2> QED
      BY <2>1, <2>2, <2>3, <2>4, <2>5, <2>6 DEF TypeOK
<1>2. SessionsAreLive /\ OneAttempt /\ ReadyAreMembers
    BY LobbyAssumption DEF SessionsAreLive, OneAttempt, Assigns, ReadyAreMembers
<1>3. ReadyIsDerived /\ AssignedAreComplete /\ RosterIsWhole
    BY DEF ReadyIsDerived, AssignedAreComplete, RosterIsWhole
<1> QED
    BY <1>1, <1>2, <1>3 DEF LobbyIndInv

\* A player takes a seat: the lobby has at most one member more, and not more
\* members than seats if one was free.
LEMMA SeatTaken ==
    ASSUME NEW l \in Lobbies, NEW p \in Players, TypeOK
    PROVE  /\ IsFiniteSet(members[l])
           /\ Cardinality(members[l]) \in Nat
           /\ Cardinality(members[l] \cup {p}) \in Nat
           /\ Cardinality(members[l] \cup {p}) <= Cardinality(members[l]) + 1
<1>1. IsFiniteSet(members[l])
    BY FS_Subset, LobbyAssumption DEF TypeOK
<1>2. Cardinality(members[l]) \in Nat
    BY <1>1, FS_CardinalityType
<1>3. IsFiniteSet(members[l] \cup {p}) /\ Cardinality(members[l] \cup {p}) =
        IF p \in members[l] THEN Cardinality(members[l]) ELSE Cardinality(members[l]) + 1
    BY <1>1, FS_AddElement
<1>4. Cardinality(members[l] \cup {p}) \in Nat
    BY <1>3, FS_CardinalityType
<1> QED
    BY <1>1, <1>2, <1>3, <1>4

\* Readiness is set in a lobby that exists.
LEMMA ReadyInLobby ==
    ASSUME NEW k \in Sockets, NEW flag \in BOOLEAN, TypeOK, SetReady(k, flag)
    PROVE  lobbyOf[k] \in 1..created /\ lobbyOf[k] \in Lobbies
BY LobbyAssumption DEF SetReady, TypeOK, Lobbies

\* Every step keeps the types, and no lobby gets more members than seats.
LEMMA StepTypeOK == LobbyIndInv /\ [Next]_vars => TypeOK'
<1> SUFFICES ASSUME LobbyIndInv, [Next]_vars PROVE TypeOK'
    OBVIOUS
<1>a. TypeOK /\ MaxLobbies \in Nat /\ PlayerOf \in [Sockets -> Players] /\ Sizes \subseteq Nat
    BY LobbyAssumption DEF LobbyIndInv
<1> USE <1>a DEF taskVars, lobbyVars, Lobbies, TypeOK
<1>1. ASSUME NEW k \in Sockets, Connect(k) PROVE TypeOK'
    BY <1>1 DEF Connect, Step
<1>2. ASSUME NEW k \in Sockets, EnsureIdentity(k) PROVE TypeOK'
    BY <1>2 DEF EnsureIdentity, Step
<1>3. ASSUME NEW k \in Sockets, NEW n \in Sizes, CreateLobby(k, n) PROVE TypeOK'
  <2>1. created' = created + 1 /\ created' \in Lobbies /\ created' \in 0..MaxLobbies
      BY <1>3 DEF CreateLobby
  <2>2. AtLeastOne(n) \in Nat /\ 1 <= AtLeastOne(n)
      BY DEF AtLeastOne
  <2>3. Cardinality({PlayerOf[k]}) = 1
      BY FS_Singleton
  <2>4. \A l \in 1..created' : Cardinality(members'[l]) <= maxPlayers'[l]
    <3> SUFFICES ASSUME NEW l \in 1..created' PROVE Cardinality(members'[l]) <= maxPlayers'[l]
        OBVIOUS
    <3>1. CASE l = created'
        BY <3>1, <2>1, <2>2, <2>3, <1>3 DEF CreateLobby
    <3>2. CASE l # created'
      <4>1. l \in 1..created /\ l \in Lobbies
          BY <3>2, <2>1
      <4>2. members'[l] = members[l] /\ maxPlayers'[l] = maxPlayers[l]
          BY <4>1, <3>2, <1>3 DEF CreateLobby
      <4> QED
          BY <4>1, <4>2
    <3> QED
        BY <3>1, <3>2
  <2>5. /\ members' \in [Lobbies -> SUBSET Players]
        /\ maxPlayers' \in [Lobbies -> Nat]
        /\ lobbyOf' \in [Sockets -> 0..created']
      BY <1>3, <2>1, <2>2 DEF CreateLobby
  <2>6. assigning' \subseteq 1..created'
      BY <1>3, <2>1 DEF CreateLobby
  <2> QED
      BY <1>3, <2>1, <2>4, <2>5, <2>6 DEF CreateLobby
<1>4. ASSUME NEW k \in Sockets, NEW l \in Lobbies, JoinLobbyByCode(k, l) PROVE TypeOK'
  <2>1. \A m \in 1..created : Cardinality(members'[m]) <= maxPlayers'[m]
    <3> SUFFICES ASSUME NEW m \in 1..created PROVE Cardinality(members'[m]) <= maxPlayers'[m]
        OBVIOUS
    <3>1. m \in Lobbies /\ PlayerOf[k] \in Players /\ maxPlayers[m] \in Nat
        OBVIOUS
    <3>2. CASE m = l /\ PlayerOf[k] \notin members[l]
      <4>1. members'[m] = members[l] \cup {PlayerOf[k]} /\ maxPlayers'[m] = maxPlayers[l]
          BY <3>1, <3>2, <1>4 DEF JoinLobbyByCode
      <4>2. Cardinality(members[l]) < maxPlayers[l]
          BY <3>2, <1>4 DEF JoinLobbyByCode
      <4>3. /\ Cardinality(members[l]) \in Nat
            /\ Cardinality(members[l] \cup {PlayerOf[k]}) \in Nat
            /\ Cardinality(members[l] \cup {PlayerOf[k]}) <= Cardinality(members[l]) + 1
          BY SeatTaken
      <4> HIDE DEF TypeOK
      <4> QED
          BY <4>1, <4>2, <4>3, <3>1, <3>2
    <3>3. CASE ~(m = l /\ PlayerOf[k] \notin members[l])
        BY <3>1, <3>3, <1>4 DEF JoinLobbyByCode
    <3> QED
        BY <3>2, <3>3
  <2>2. members' \in [Lobbies -> SUBSET Players] /\ lobbyOf' \in [Sockets -> 0..created]
      BY <1>4 DEF JoinLobbyByCode
  <2> QED
      BY <1>4, <2>1, <2>2 DEF JoinLobbyByCode
<1>5. ASSUME NEW k \in Sockets, NEW flag \in BOOLEAN, SetReady(k, flag) PROVE TypeOK'
  <2>1. lobbyOf[k] \in 1..created /\ lobbyOf[k] \in Lobbies
      BY <1>5, ReadyInLobby
  <2>2. readyMembers' \in [Lobbies -> SUBSET Players]
      BY <1>5, <2>1 DEF SetReady, SetMember
  <2>3. ready' \in [Lobbies -> BOOLEAN]
      BY <1>5, <2>1, Zenon DEF SetReady
  <2>4. /\ pc' \in [Sockets -> {"new", "open", "idle", "assign", "grant", "closed"}]
        /\ roster' \in [Sockets -> SUBSET Players]
        /\ assigning' \subseteq 1..created
      BY <1>5, <2>1, ZenonT(60) DEF SetReady, Assign
  <2> QED
      BY <1>5, <2>2, <2>3, <2>4 DEF SetReady
<1>6. ASSUME NEW k \in Sockets, LobbyPrepared(k) PROVE TypeOK'
    BY <1>6 DEF LobbyPrepared, Step
<1>7. ASSUME NEW k \in Sockets, NEW p \in Players, GrantMember(k, p) PROVE TypeOK'
    BY <1>7 DEF GrantMember
<1>8. ASSUME NEW k \in Sockets, AssignFails(k) PROVE TypeOK'
    BY <1>8 DEF AssignFails
<1>9. ASSUME NEW k \in Sockets, Close(k) PROVE TypeOK'
    BY <1>9 DEF Close
<1>10. CASE StartDraining \/ StopDraining \/ UNCHANGED vars
    BY <1>10 DEF StartDraining, StopDraining, vars
<1> QED
    BY <1>1, <1>2, <1>3, <1>4, <1>5, <1>6, <1>7, <1>8, <1>9, <1>10 DEF Next, Handler

\* Every step keeps registered sessions live.
LEMMA StepSessionsAreLive == LobbyIndInv /\ [Next]_vars => SessionsAreLive'
<1> SUFFICES ASSUME LobbyIndInv, [Next]_vars PROVE SessionsAreLive'
    OBVIOUS
<1>a. TypeOK /\ SessionsAreLive /\ PlayerOf \in [Sockets -> Players] /\ NoSocket \notin Sockets
    BY LobbyAssumption DEF LobbyIndInv
<1> USE <1>a DEF taskVars, lobbyVars, TypeOK, SessionsAreLive
<1>1. ASSUME NEW k \in Sockets, Connect(k) PROVE SessionsAreLive'
    BY <1>1 DEF Connect, Step
<1>2. ASSUME NEW k \in Sockets, EnsureIdentity(k) PROVE SessionsAreLive'
    BY <1>2 DEF EnsureIdentity, Step
<1>3. ASSUME NEW k \in Sockets, NEW n \in Sizes, CreateLobby(k, n) PROVE SessionsAreLive'
    BY <1>3 DEF CreateLobby
<1>4. ASSUME NEW k \in Sockets, NEW l \in Lobbies, JoinLobbyByCode(k, l) PROVE SessionsAreLive'
    BY <1>4 DEF JoinLobbyByCode
<1>5. ASSUME NEW k \in Sockets, NEW flag \in BOOLEAN, SetReady(k, flag) PROVE SessionsAreLive'
    BY <1>5 DEF SetReady, Assign
<1>6. ASSUME NEW k \in Sockets, LobbyPrepared(k) PROVE SessionsAreLive'
    BY <1>6 DEF LobbyPrepared, Step
<1>7. ASSUME NEW k \in Sockets, NEW p \in Players, GrantMember(k, p) PROVE SessionsAreLive'
    BY <1>7 DEF GrantMember
<1>8. ASSUME NEW k \in Sockets, AssignFails(k) PROVE SessionsAreLive'
    BY <1>8 DEF AssignFails
<1>9. ASSUME NEW k \in Sockets, Close(k) PROVE SessionsAreLive'
    BY <1>9 DEF Close
<1>10. CASE StartDraining \/ StopDraining \/ UNCHANGED vars
    BY <1>10 DEF StartDraining, StopDraining, vars
<1> QED
    BY <1>1, <1>2, <1>3, <1>4, <1>5, <1>6, <1>7, <1>8, <1>9, <1>10 DEF Next, Handler

\* A member is in readyMembers of a lobby that exists only.
LEMMA StepReadyAreMembers == LobbyIndInv /\ [Next]_vars => ReadyAreMembers'
<1> SUFFICES ASSUME LobbyIndInv, [Next]_vars PROVE ReadyAreMembers'
    OBVIOUS
<1>a. TypeOK /\ ReadyAreMembers
    BY DEF LobbyIndInv
<1> USE <1>a DEF taskVars, lobbyVars, Lobbies, TypeOK, ReadyAreMembers
<1>1. ASSUME NEW k \in Sockets, NEW n \in Sizes, CreateLobby(k, n) PROVE ReadyAreMembers'
    BY <1>1 DEF CreateLobby
<1>2. ASSUME NEW k \in Sockets, NEW l \in Lobbies, JoinLobbyByCode(k, l) PROVE ReadyAreMembers'
    BY <1>2 DEF JoinLobbyByCode
<1>3. ASSUME NEW k \in Sockets, NEW flag \in BOOLEAN, SetReady(k, flag) PROVE ReadyAreMembers'
  <2>1. lobbyOf[k] \in 1..created /\ lobbyOf[k] \in Lobbies
      BY <1>3, ReadyInLobby
  <2>2. \A l \in Lobbies : l > created => ready'[l] = ready[l]
      BY <1>3, <2>1 DEF SetReady
  <2>3. \A l \in Lobbies : readyMembers'[l] \subseteq members[l]
      BY <1>3, <2>1 DEF SetReady, SetMember
  <2> QED
      BY <1>3, <2>2, <2>3 DEF SetReady
<1>4. CASE UNCHANGED lobbyVars
    BY <1>4
<1> QED
    BY <1>1, <1>2, <1>3, <1>4 DEF Next, Handler, Connect, EnsureIdentity, LobbyPrepared,
       GrantMember, AssignFails, Close, StartDraining, StopDraining, vars

\* Every step keeps the flag what the seats and the ready members say it is:
\* whoever joins finds a free seat, before which the lobby was not ready, and is not
\* ready.
LEMMA StepReadyIsDerived == LobbyIndInv /\ [Next]_vars => ReadyIsDerived'
<1> SUFFICES ASSUME LobbyIndInv, [Next]_vars PROVE ReadyIsDerived'
    OBVIOUS
<1>a. TypeOK /\ ReadyIsDerived /\ ReadyAreMembers /\ MaxLobbies \in Nat
      /\ PlayerOf \in [Sockets -> Players]
    BY LobbyAssumption DEF LobbyIndInv
<1> USE <1>a DEF taskVars, lobbyVars, Lobbies, TypeOK
<1>1. ASSUME NEW k \in Sockets, NEW n \in Sizes, CreateLobby(k, n) PROVE ReadyIsDerived'
  <2>1. created' = created + 1 /\ created' \in Lobbies /\ created' > created
      BY <1>1 DEF CreateLobby
  <2> SUFFICES ASSUME NEW l \in 1..created'
               PROVE (ready[l] <=> Complete(l) /\ members[l] \subseteq readyMembers[l])'
      BY DEF ReadyIsDerived
  <2>2. CASE l = created'
      BY <2>1, <2>2, <1>1 DEF CreateLobby, ReadyAreMembers
  <2>3. CASE l # created'
    <3>1. l \in 1..created /\ l \in Lobbies
        BY <2>1, <2>3
    <3>2. members'[l] = members[l] /\ maxPlayers'[l] = maxPlayers[l]
          /\ ready' = ready /\ readyMembers' = readyMembers
        BY <3>1, <2>3, <1>1 DEF CreateLobby
    <3> QED
        BY <3>1, <3>2 DEF ReadyIsDerived, Complete
  <2> QED
      BY <2>2, <2>3
<1>2. ASSUME NEW k \in Sockets, NEW j \in Lobbies, JoinLobbyByCode(k, j) PROVE ReadyIsDerived'
  <2> SUFFICES ASSUME NEW l \in 1..created
               PROVE (ready[l] <=> Complete(l) /\ members[l] \subseteq readyMembers[l])'
      BY <1>2 DEF ReadyIsDerived, JoinLobbyByCode
  <2>1. l \in Lobbies /\ ready' = ready /\ readyMembers' = readyMembers
        /\ maxPlayers' = maxPlayers
      BY <1>2 DEF JoinLobbyByCode
  <2>2. CASE l = j /\ PlayerOf[k] \notin members[j]
    <3>1. Cardinality(members[l]) < maxPlayers[l] /\ PlayerOf[k] \in members'[l]
        BY <2>1, <2>2, <1>2 DEF JoinLobbyByCode
    <3>2. ~ready[l]
      <4>1. Cardinality(members[l]) \in Nat /\ maxPlayers[l] \in Nat
          BY <2>1, SeatTaken
      <4>2. ~(Cardinality(members[l]) >= maxPlayers[l])
          BY <4>1, <3>1
      <4> QED
          BY <4>2 DEF ReadyIsDerived, Complete
    <3>3. PlayerOf[k] \notin readyMembers[l]
        BY <2>1, <2>2 DEF ReadyAreMembers
    <3> QED
        BY <2>1, <3>1, <3>2, <3>3
  <2>3. CASE ~(l = j /\ PlayerOf[k] \notin members[j])
    <3>1. members'[l] = members[l]
        BY <2>1, <2>3, <1>2 DEF JoinLobbyByCode
    <3> QED
        BY <2>1, <3>1 DEF ReadyIsDerived, Complete
  <2> QED
      BY <2>2, <2>3
<1>3. ASSUME NEW k \in Sockets, NEW flag \in BOOLEAN, SetReady(k, flag) PROVE ReadyIsDerived'
  <2>1. lobbyOf[k] \in 1..created /\ lobbyOf[k] \in Lobbies
      BY <1>3, ReadyInLobby
  <2>2. UNCHANGED <<created, maxPlayers, members>>
      BY <1>3 DEF SetReady
  <2> SUFFICES ASSUME NEW l \in 1..created
               PROVE (ready[l] <=> Complete(l) /\ members[l] \subseteq readyMembers[l])'
      BY <2>2 DEF ReadyIsDerived
  <2>3. CASE l = lobbyOf[k]
      BY <2>1, <2>2, <2>3, <1>3, Zenon DEF SetReady, Complete
  <2>4. CASE l # lobbyOf[k]
    <3>1. l \in Lobbies /\ ready'[l] = ready[l] /\ readyMembers'[l] = readyMembers[l]
        BY <2>1, <2>4, <1>3 DEF SetReady, SetMember
    <3> QED
        BY <2>2, <3>1 DEF ReadyIsDerived, Complete
  <2> QED
      BY <2>3, <2>4
<1>4. CASE UNCHANGED lobbyVars
    BY <1>4 DEF ReadyIsDerived, Complete
<1> QED
    BY <1>1, <1>2, <1>3, <1>4 DEF Next, Handler, Connect, EnsureIdentity, LobbyPrepared,
       GrantMember, AssignFails, Close, StartDraining, StopDraining, vars

\* Every step keeps attempts single: a handler begins one only for a lobby that
\* nobody has marked, and keeps its lobby while it assigns.
LEMMA StepOneAttempt == LobbyIndInv /\ [Next]_vars => OneAttempt'
<1> SUFFICES ASSUME LobbyIndInv, [Next]_vars PROVE OneAttempt'
    OBVIOUS
<1>a. TypeOK /\ OneAttempt
    BY DEF LobbyIndInv
<1> USE <1>a DEF taskVars, lobbyVars, Lobbies, TypeOK, OneAttempt, Assigns
<1>1. ASSUME NEW k \in Sockets, Connect(k) PROVE OneAttempt'
    BY <1>1 DEF Connect, Step
<1>2. ASSUME NEW k \in Sockets, EnsureIdentity(k) PROVE OneAttempt'
    BY <1>2 DEF EnsureIdentity, Step
<1>3. ASSUME NEW k \in Sockets, NEW n \in Sizes, CreateLobby(k, n) PROVE OneAttempt'
    BY <1>3 DEF CreateLobby
<1>4. ASSUME NEW k \in Sockets, NEW l \in Lobbies, JoinLobbyByCode(k, l) PROVE OneAttempt'
    BY <1>4 DEF JoinLobbyByCode
<1>5. ASSUME NEW k \in Sockets, NEW flag \in BOOLEAN, SetReady(k, flag) PROVE OneAttempt'
  <2>1. UNCHANGED lobbyOf /\ assigning \subseteq assigning'
      BY <1>5 DEF SetReady, Assign
  <2>2. \A h \in Sockets \ {k} : pc'[h] = pc[h]
      BY <1>5 DEF SetReady, Assign
  <2>3. pc'[k] \in {"assign", "grant"} => lobbyOf[k] \notin assigning /\ lobbyOf[k] \in assigning'
      BY <1>5 DEF SetReady, Assign
  <2> QED
      BY <2>1, <2>2, <2>3
<1>6. ASSUME NEW k \in Sockets, LobbyPrepared(k) PROVE OneAttempt'
    BY <1>6 DEF LobbyPrepared, Step
<1>7. ASSUME NEW k \in Sockets, NEW p \in Players, GrantMember(k, p) PROVE OneAttempt'
    BY <1>7 DEF GrantMember
<1>8. ASSUME NEW k \in Sockets, AssignFails(k) PROVE OneAttempt'
    BY <1>8 DEF AssignFails
<1>9. ASSUME NEW k \in Sockets, Close(k) PROVE OneAttempt'
    BY <1>9 DEF Close
<1>10. CASE StartDraining \/ StopDraining \/ UNCHANGED vars
    BY <1>10 DEF StartDraining, StopDraining, vars
<1> QED
    BY <1>1, <1>2, <1>3, <1>4, <1>5, <1>6, <1>7, <1>8, <1>9, <1>10 DEF Next, Handler

\* Every step keeps the lobbies that are being assigned complete and their rosters
\* whole: without a free seat nobody new can join.
LEMMA StepRosterIsWhole ==
    LobbyIndInv /\ [Next]_vars => AssignedAreComplete' /\ RosterIsWhole'
<1> SUFFICES ASSUME LobbyIndInv, [Next]_vars PROVE AssignedAreComplete' /\ RosterIsWhole'
    OBVIOUS
<1>a. TypeOK /\ AssignedAreComplete /\ RosterIsWhole /\ MaxLobbies \in Nat
      /\ PlayerOf \in [Sockets -> Players]
    BY LobbyAssumption DEF LobbyIndInv
<1> USE <1>a DEF taskVars, lobbyVars, Lobbies, TypeOK
<1>1. ASSUME NEW k \in Sockets, NEW n \in Sizes, CreateLobby(k, n)
      PROVE AssignedAreComplete' /\ RosterIsWhole'
  <2>1. created' = created + 1 /\ created' \in Lobbies
      BY <1>1 DEF CreateLobby
  <2> SUFFICES ASSUME NEW h \in Sockets, NEW l \in 1..created', pc'[h] = "assign", lobbyOf'[h] = l
               PROVE Complete(l)' /\ roster'[h] = members'[l]
      BY DEF AssignedAreComplete, RosterIsWhole
  <2>2. h # k /\ pc[h] = "assign" /\ lobbyOf[h] = l /\ roster'[h] = roster[h]
      BY <1>1 DEF CreateLobby
  <2>3. l \in 1..created /\ l \in Lobbies
      BY <2>1, <2>2
  <2>4. members'[l] = members[l] /\ maxPlayers'[l] = maxPlayers[l]
      BY <2>1, <2>3, <1>1 DEF CreateLobby
  <2> QED
      BY <2>2, <2>3, <2>4 DEF AssignedAreComplete, RosterIsWhole, Complete
<1>2. ASSUME NEW k \in Sockets, NEW j \in Lobbies, JoinLobbyByCode(k, j)
      PROVE AssignedAreComplete' /\ RosterIsWhole'
  <2> SUFFICES ASSUME NEW h \in Sockets, NEW l \in 1..created, pc'[h] = "assign", lobbyOf'[h] = l
               PROVE Complete(l)' /\ roster'[h] = members'[l]
      BY <1>2 DEF AssignedAreComplete, RosterIsWhole, JoinLobbyByCode
  <2>1. h # k /\ pc[h] = "assign" /\ lobbyOf[h] = l /\ roster' = roster
        /\ maxPlayers' = maxPlayers
      BY <1>2 DEF JoinLobbyByCode
  <2>2. l \in Lobbies /\ Cardinality(members[l]) >= maxPlayers[l] /\ roster[h] = members[l]
      BY <2>1 DEF AssignedAreComplete, RosterIsWhole, Complete
  <2>3. l = j => PlayerOf[k] \in members[l]
    <3>1. Cardinality(members[l]) \in Nat /\ maxPlayers[l] \in Nat
        BY <2>2, SeatTaken
    <3> QED
        BY <1>2, <2>2, <3>1 DEF JoinLobbyByCode
  <2>4. members'[l] = members[l]
      BY <1>2, <2>2, <2>3 DEF JoinLobbyByCode
  <2> QED
      BY <2>1, <2>2, <2>4 DEF Complete
<1>3. ASSUME NEW k \in Sockets, NEW flag \in BOOLEAN, SetReady(k, flag)
      PROVE AssignedAreComplete' /\ RosterIsWhole'
  <2>1. UNCHANGED <<lobbyOf, created, maxPlayers, members>>
      BY <1>3 DEF SetReady
  <2> SUFFICES ASSUME NEW h \in Sockets, NEW l \in 1..created, pc'[h] = "assign", lobbyOf[h] = l
               PROVE Complete(l) /\ roster'[h] = members[l]
      BY <2>1 DEF AssignedAreComplete, RosterIsWhole, Complete
  <2>2. CASE h = k
    <3>1. ready'[l] /\ roster'[h] = members[l]
        BY <2>2, <1>3 DEF SetReady, Assign
    <3>2. l \in Lobbies
        OBVIOUS
    <3>3. ready'[l] <=> Complete(l) /\ members[l] \subseteq readyMembers'[l]
        BY <2>2, <3>2, <1>3, Zenon DEF SetReady
    <3> QED
        BY <3>1, <3>3
  <2>3. CASE h # k
    <3>1. pc[h] = "assign" /\ roster'[h] = roster[h]
        BY <2>3, <1>3 DEF SetReady, Assign
    <3> QED
        BY <3>1 DEF AssignedAreComplete, RosterIsWhole
  <2> QED
      BY <2>2, <2>3
<1>4. CASE /\ UNCHANGED <<lobbyOf, created, maxPlayers, members>>
           /\ \A h \in Sockets : pc'[h] = "assign" => pc[h] = "assign" /\ roster'[h] = roster[h]
    BY <1>4 DEF AssignedAreComplete, RosterIsWhole, Complete
<1>5. ASSUME NEW k \in Sockets, Connect(k) \/ EnsureIdentity(k) \/ Handler(k) \/ Close(k)
      PROVE /\ UNCHANGED <<lobbyOf, created, maxPlayers, members>>
            /\ \A h \in Sockets : pc'[h] = "assign" => pc[h] = "assign" /\ roster'[h] = roster[h]
    BY <1>5 DEF Handler, Connect, EnsureIdentity, LobbyPrepared, GrantMember, AssignFails,
       Close, Step
<1>6. CASE StartDraining \/ StopDraining \/ UNCHANGED vars
    BY <1>6 DEF StartDraining, StopDraining, vars, AssignedAreComplete, RosterIsWhole, Complete
<1> QED
    BY <1>1, <1>2, <1>3, <1>4, <1>5, <1>6 DEF Next

\* The inductive invariant of the lobbies: lobby.rs and the socket loop preserve it
\* with every critical section.
THEOREM LobbyRuntimeIndInv == Spec => []LobbyIndInv
<1>1. Init => LobbyIndInv
    BY InitInv
<1>2. LobbyIndInv /\ [Next]_vars => LobbyIndInv'
    BY StepTypeOK, StepSessionsAreLive, StepReadyAreMembers, StepReadyIsDerived,
       StepOneAttempt, StepRosterIsWhole DEF LobbyIndInv
<1> QED
    BY <1>1, <1>2, PTL DEF Spec

\* The variables keep their types, and no lobby has more members than seats.
THEOREM LobbyRuntimeTypeOK == Spec => []TypeOK
BY LobbyRuntimeIndInv, PTL DEF LobbyIndInv

\* Messages go to live sockets of the player they are for, whatever sockets of a
\* player connect and close in which order.
THEOREM LobbySessionsAreLive == Spec => []SessionsAreLive
BY LobbyRuntimeIndInv, PTL DEF LobbyIndInv

\* The ready flag of a lobby, which is stored and not recomputed when players join,
\* is never stale.
THEOREM LobbyReadyIsDerived == Spec => []ReadyIsDerived
BY LobbyRuntimeIndInv, PTL DEF LobbyIndInv

\* A lobby is assigned by at most one handler, although every member's command may
\* complete it.
THEOREM LobbyOneAttempt == Spec => []OneAttempt
BY LobbyRuntimeIndInv, PTL DEF LobbyIndInv

\* The roster that is assigned outside the lock is the whole lobby.
THEOREM LobbyRosterIsWhole == Spec => []RosterIsWhole
BY LobbyRuntimeIndInv, PTL DEF LobbyIndInv

-----------------------------------------------------------------------------
(* The game client's session: the order of its commands.                   *)

\* Sequences of commands in the order of their numbers.
Increasing == {s \in Seq(Nat) : \A i, j \in 1..Len(s) : i < j => s[i] < s[j]}

\* What a sequence contains after its first element.
LEMMA ContentsOfTail ==
    ASSUME NEW S, NEW s \in Seq(S), s # <<>>
    PROVE  /\ Head(s) \in S /\ Tail(s) \in Seq(S)
           /\ ToSet(s) = {Head(s)} \cup ToSet(Tail(s))
<1>1. Head(s) \in S /\ Tail(s) \in Seq(S) /\ Len(Tail(s)) = Len(s) - 1 /\ Head(s) = s[1]
      /\ \A i \in 1..Len(Tail(s)) : Tail(s)[i] = s[i + 1]
    BY HeadTailProperties
<1>2. ToSet(s) = {s[i] : i \in 1..Len(s)} /\ ToSet(Tail(s)) = {Tail(s)[i] : i \in 1..Len(s) - 1}
  <2>1. DOMAIN s = 1..Len(s) /\ DOMAIN Tail(s) = 1..Len(Tail(s))
      BY <1>1
  <2> QED
      BY <1>1, <2>1 DEF ToSet
<1>3. Len(s) \in Nat /\ Len(s) # 0
    BY EmptySeq
<1>4. ASSUME NEW i \in 1..Len(s) PROVE s[i] \in {Head(s)} \cup ToSet(Tail(s))
  <2>1. CASE i = 1
      BY <1>1, <2>1
  <2>2. CASE i # 1
    <3>1. i - 1 \in 1..Len(s) - 1 /\ (i - 1) + 1 = i
        BY <1>3, <2>2
    <3>2. Tail(s)[i - 1] = s[i]
        BY <1>1, <3>1
    <3> QED
        BY <1>2, <3>1, <3>2
  <2> QED
      BY <2>1, <2>2
<1>5. ASSUME NEW i \in 1..Len(s) - 1 PROVE Tail(s)[i] \in ToSet(s)
  <2>1. i + 1 \in 1..Len(s) /\ Tail(s)[i] = s[i + 1]
      BY <1>1, <1>3
  <2> QED
      BY <1>2, <2>1
<1>6. Head(s) \in ToSet(s)
  <2>1. 1 \in 1..Len(s)
      BY <1>3
  <2> QED
      BY <1>1, <1>2, <2>1
<1> QED
    BY <1>1, <1>2, <1>4, <1>5, <1>6

\* What a sequence contains with one element more.
LEMMA ContentsOfAppend ==
    ASSUME NEW S, NEW s \in Seq(S), NEW e \in S
    PROVE  /\ Append(s, e) \in Seq(S)
           /\ ToSet(Append(s, e)) = ToSet(s) \cup {e}
<1>1. Append(s, e) \in Seq(S) /\ Len(Append(s, e)) = Len(s) + 1 /\ Append(s, e)[Len(s) + 1] = e
      /\ \A i \in 1..Len(s) : Append(s, e)[i] = s[i]
    BY AppendProperties
<1>2. ToSet(s) = {s[i] : i \in 1..Len(s)}
      /\ ToSet(Append(s, e)) = {Append(s, e)[i] : i \in 1..Len(s) + 1}
    BY <1>1 DEF ToSet
<1>3. Len(s) \in Nat
    OBVIOUS
<1> QED
    BY <1>1, <1>2, <1>3

\* The first of an increasing sequence is the least, and the others increase.
LEMMA IncreasingTail ==
    ASSUME NEW s \in Increasing, s # <<>>
    PROVE  /\ Head(s) \in Nat /\ Tail(s) \in Increasing
           /\ ToSet(s) = {Head(s)} \cup ToSet(Tail(s))
           /\ ToSet(Tail(s)) \subseteq Nat
           /\ \A n \in ToSet(Tail(s)) : Head(s) < n
<1>1. s \in Seq(Nat) /\ \A i, j \in 1..Len(s) : i < j => s[i] < s[j]
    BY DEF Increasing
<1>2. Head(s) \in Nat /\ Tail(s) \in Seq(Nat) /\ ToSet(s) = {Head(s)} \cup ToSet(Tail(s))
    BY <1>1, ContentsOfTail
<1>3. Len(Tail(s)) = Len(s) - 1 /\ Head(s) = s[1] /\ \A i \in 1..Len(Tail(s)) :
         Tail(s)[i] = s[i + 1]
    BY <1>1, HeadTailProperties
<1>4. Len(s) \in Nat
    BY <1>1
<1>5. ASSUME NEW i \in 1..Len(Tail(s)) PROVE Head(s) < Tail(s)[i]
  <2>1. i + 1 \in 1..Len(s) /\ 1 \in 1..Len(s) /\ 1 < i + 1
      BY <1>3, <1>4
  <2> QED
      BY <1>1, <1>3, <2>1
<1>6. ASSUME NEW i \in 1..Len(Tail(s)), NEW j \in 1..Len(Tail(s)), i < j
      PROVE Tail(s)[i] < Tail(s)[j]
  <2>1. i + 1 \in 1..Len(s) /\ j + 1 \in 1..Len(s) /\ i + 1 < j + 1
      BY <1>3, <1>4, <1>6
  <2> QED
      BY <1>1, <1>3, <2>1
<1>7. Tail(s) \in Increasing
    BY <1>2, <1>6 DEF Increasing
<1>8. DOMAIN Tail(s) = 1..Len(Tail(s))
    BY <1>2
<1>9. \A n \in ToSet(Tail(s)) : Head(s) < n
    BY <1>5, <1>8 DEF ToSet
<1>10. ToSet(Tail(s)) \subseteq Nat
    BY <1>2, <1>8 DEF ToSet
<1> QED
    BY <1>2, <1>7, <1>9, <1>10

\* A greater number may be appended.
LEMMA IncreasingAppend ==
    ASSUME NEW s \in Increasing, NEW n \in Nat, \A m \in ToSet(s) : m < n
    PROVE  /\ Append(s, n) \in Increasing
           /\ ToSet(Append(s, n)) = ToSet(s) \cup {n}
<1>1. s \in Seq(Nat) /\ \A i, j \in 1..Len(s) : i < j => s[i] < s[j]
    BY DEF Increasing
<1>2. Append(s, n) \in Seq(Nat) /\ ToSet(Append(s, n)) = ToSet(s) \cup {n}
    BY <1>1, ContentsOfAppend
<1>3. /\ Len(Append(s, n)) = Len(s) + 1 /\ Append(s, n)[Len(s) + 1] = n
      /\ \A i \in 1..Len(s) : Append(s, n)[i] = s[i]
    BY <1>1, AppendProperties
<1>4. Len(s) \in Nat /\ \A i \in 1..Len(s) : s[i] < n
    BY <1>1 DEF ToSet
<1> SUFFICES ASSUME NEW i \in 1..Len(s) + 1, NEW j \in 1..Len(s) + 1, i < j
             PROVE  Append(s, n)[i] < Append(s, n)[j]
    BY <1>2, <1>3 DEF Increasing
<1>5. i \in 1..Len(s) /\ (j \in 1..Len(s) \/ j = Len(s) + 1)
    BY <1>4
<1> QED
    BY <1>1, <1>3, <1>4, <1>5

\* The numbers of the messages that are under way or were handled.
Passed ==
    {n \in Nat : \/ \E c \in Client!Connections : n \in ToSet(up[c])
                 \/ \E h \in ToSet(handled) : h[2] = n}

\* Connections on which nothing has been sent.
Unused ==
    {c \in Client!Connections : conn < c \/ (conn = c /\ thread \in {"connecting", "greeting"})}

\* The types of what decides on the order of commands.
OrderTypes ==
    /\ issued \in Nat
    /\ commands \in Increasing
    /\ thread \in {"unstarted", "connecting", "greeting", "open", "closing", "waiting",
                   "stopping", "ended"}
    /\ IF thread = "unstarted" THEN conn = 0 ELSE conn \in Client!Connections
    /\ up \in [Client!Connections -> Increasing]
    /\ handled \in Seq(Client!Connections \X Nat)

\* What has passed comes before what is queued, what is under way on a connection after
\* what was handled there, and no command is in two places.
InOrder ==
    /\ \A n \in ToSet(commands) : 0 < n /\ n <= issued
    /\ \A m \in Passed : m <= issued /\ \A n \in ToSet(commands) : m < n
    /\ \A c \in Client!Connections, h \in ToSet(handled) : \A n \in ToSet(up[c]) :
         n # 0 => h[2] # n /\ (h[1] = c => h[2] < n)
    /\ \A c, d \in Client!Connections : c # d => \A n \in ToSet(up[c]) :
             n # 0 => n \notin ToSet(up[d])
    /\ \A c \in Unused : up[c] = <<>>

OrderIndInv == OrderTypes /\ InOrder /\ CommandsRunOnce

LEMMA EmptyIsIncreasing == <<>> \in Increasing /\ ToSet(<<>>) = {}
BY EmptySeq DEF Increasing, ToSet

\* What has passed, and what is queued, are numbers.
LEMMA PassedContents ==
    ASSUME OrderTypes
    PROVE  /\ \A c \in Client!Connections : ToSet(up[c]) \subseteq Passed
           /\ \A h \in ToSet(handled) : h[2] \in Passed
           /\ Passed \subseteq Nat
           /\ ToSet(commands) \subseteq Nat
<1>1. \A s \in Increasing : ToSet(s) \subseteq Nat
    BY DEF Increasing, ToSet
<1>2. \A h \in ToSet(handled) : h[2] \in Nat
    BY DEF OrderTypes, ToSet
<1>3. ToSet(commands) \subseteq Nat /\ \A c \in Client!Connections : ToSet(up[c]) \subseteq Nat
    BY <1>1 DEF OrderTypes
<1> QED
    BY <1>2, <1>3 DEF Passed

LEMMA OrderInit == Client!Init => OrderIndInv
<1> SUFFICES ASSUME Client!Init PROVE OrderIndInv
    OBVIOUS
<1>1. issued = 0 /\ commands = <<>> /\ thread = "unstarted" /\ conn = 0 /\ handled = <<>>
      /\ up = [c \in Client!Connections |-> <<>>]
    BY DEF Client!Init
<1>2. OrderTypes
    BY <1>1, EmptyIsIncreasing, EmptySeq DEF OrderTypes
<1>3. Passed = {}
    BY <1>1, EmptyIsIncreasing DEF Passed
<1>4. ToSet(commands) = {} /\ ToSet(handled) = {} /\ \A c \in Client!Connections :
         up[c] = <<>> /\ ToSet(up[c]) = {}
    BY <1>1, EmptyIsIncreasing
<1>5. InOrder
    BY <1>3, <1>4 DEF InOrder, Unused
<1>6. CommandsRunOnce
    BY <1>1 DEF CommandsRunOnce
<1> QED
    BY <1>2, <1>5, <1>6 DEF OrderIndInv

\* Steps of the thread that send nothing, and take at most a command that is dropped.
LEMMA NothingSent ==
    ASSUME OrderIndInv, UNCHANGED <<issued, up, handled>>,
           commands' \in Increasing, ToSet(commands') \subseteq ToSet(commands),
           thread' \in {"unstarted", "connecting", "greeting", "open", "closing", "waiting",
                        "stopping", "ended"},
           IF thread' = "unstarted" THEN conn' = 0 ELSE conn' \in Client!Connections,
           Unused' \subseteq Unused
    PROVE  OrderIndInv'
<1>1. OrderTypes'
    BY DEF OrderIndInv, OrderTypes
<1>2. Passed' = Passed
    BY DEF Passed
<1>3. InOrder'
    BY <1>2 DEF OrderIndInv, InOrder
<1> QED
    BY <1>1, <1>3 DEF OrderIndInv, CommandsRunOnce

\* Messages of a connection leave it without being handled, or Hello is sent on one
\* that is not used.
LEMMA OneLeaves ==
    ASSUME OrderIndInv, NEW c \in Client!Connections, NEW s \in Increasing,
           up' = [up EXCEPT ![c] = s], ToSet(s) \subseteq ToSet(up[c]) \cup {0},
           c \in Unused' => s = <<>>, Unused' \subseteq Unused,
           UNCHANGED <<issued, handled, commands, conn>>,
           thread' \in {thread, "open"}, thread # "unstarted" \/ thread' = thread
    PROVE  OrderIndInv'
<1>a. OrderTypes /\ InOrder /\ CommandsRunOnce
    BY DEF OrderIndInv
<1>1. OrderTypes'
    BY <1>a DEF OrderTypes
<1>2. \A d \in Client!Connections : up'[d] = IF d = c THEN s ELSE up[d]
    BY <1>a DEF OrderTypes
<1>3. \A d \in Client!Connections : ToSet(up'[d]) \subseteq ToSet(up[d]) \cup {0}
    BY <1>2
<1>4. Passed' \subseteq Passed \cup {0}
    BY <1>3 DEF Passed
<1>5. \A m \in Passed' : m <= issued /\ \A n \in ToSet(commands) : m < n
    BY <1>a, <1>4 DEF OrderTypes, InOrder
<1>6. \A d \in Unused' : up'[d] = <<>>
    BY <1>a, <1>2 DEF InOrder, Unused
<1>7. \A d \in Client!Connections, h \in ToSet(handled) : \A n \in ToSet(up'[d]) :
         n # 0 => h[2] # n /\ (h[1] = d => h[2] < n)
    BY <1>a, <1>3 DEF InOrder
<1>8. \A d, e \in Client!Connections : d # e => \A n \in ToSet(up'[d]) :
         n # 0 => n \notin ToSet(up'[e])
    BY <1>a, <1>3 DEF InOrder
<1>9. InOrder'
    BY <1>a, <1>5, <1>6, <1>7, <1>8 DEF InOrder
<1> QED
    BY <1>a, <1>1, <1>9 DEF OrderIndInv, CommandsRunOnce

\* The next queued command is sent.
LEMMA OneIsSent ==
    ASSUME OrderIndInv, commands # <<>>, commands' = Tail(commands), thread = "open",
           up' = [up EXCEPT ![conn] = Append(@, Head(commands))],
           UNCHANGED <<issued, handled, conn, thread>>
    PROVE  OrderIndInv'
<1> DEFINE n == Head(commands)
<1>a. OrderTypes /\ InOrder /\ CommandsRunOnce /\ conn \in Client!Connections
    BY DEF OrderIndInv, OrderTypes
<1>1. /\ n \in Nat /\ Tail(commands) \in Increasing
      /\ ToSet(commands) = {n} \cup ToSet(commands')
      /\ \A m \in ToSet(commands') : n < m
    BY <1>a, IncreasingTail DEF OrderTypes
<1>2. up[conn] \in Increasing /\ \A m \in ToSet(up[conn]) : m < n /\ m \in Passed
    BY <1>a, <1>1, PassedContents DEF OrderTypes, InOrder
<1> HIDE DEF n
<1>3. /\ up'[conn] = Append(up[conn], n) /\ up'[conn] \in Increasing
      /\ ToSet(up'[conn]) = ToSet(up[conn]) \cup {n}
      /\ \A c \in Client!Connections : c # conn => up'[c] = up[c]
  <2>1. up'[conn] = Append(up[conn], n) /\ \A c \in Client!Connections :
           c # conn => up'[c] = up[c]
      BY <1>a DEF OrderTypes, n
  <2> QED
      BY <1>1, <1>2, <2>1, IncreasingAppend
<1>4. OrderTypes'
    BY <1>a, <1>1, <1>3 DEF OrderTypes, n
<1>5. Passed' \subseteq Passed \cup {n}
  <2>1. \A c \in Client!Connections : ToSet(up'[c]) \subseteq ToSet(up[c]) \cup {n}
      BY <1>3
  <2> QED
      BY <2>1 DEF Passed
<1>6. \A m \in Passed : m < n
    BY <1>a, <1>1 DEF InOrder
<1>7. n \notin Passed
    BY <1>1, <1>6
<1>7a. n \in ToSet(commands) /\ 0 < n /\ n <= issued
    BY <1>a, <1>1 DEF InOrder
<1>8. \A m \in ToSet(commands') : 0 < m /\ m <= issued
    BY <1>a, <1>1 DEF InOrder
<1>9. \A m \in Passed' : m <= issued /\ \A k \in ToSet(commands') : m < k
    BY <1>a, <1>1, <1>5, <1>7a DEF InOrder
<1>10. \A h \in ToSet(handled) : h[2] \in Passed
    BY <1>a, PassedContents
<1>11. \A c \in Client!Connections, h \in ToSet(handled) : \A m \in ToSet(up'[c]) :
         m # 0 => h[2] # m /\ (h[1] = c => h[2] < m)
  <2> SUFFICES ASSUME NEW c \in Client!Connections, NEW h \in ToSet(handled),
                      NEW m \in ToSet(up'[c]), m # 0
               PROVE  h[2] # m /\ (h[1] = c => h[2] < m)
      OBVIOUS
  <2>1. CASE m \in ToSet(up[c])
      BY <1>a, <2>1 DEF InOrder
  <2>2. CASE m = n
      BY <1>6, <1>7, <1>10, <2>2
  <2> QED
      BY <1>3, <2>1, <2>2
<1>12. \A c \in Client!Connections : n \notin ToSet(up[c])
    BY <1>7, <1>a, PassedContents
<1>13. \A c, d \in Client!Connections : c # d => \A m \in ToSet(up'[c]) :
         m # 0 => m \notin ToSet(up'[d])
  <2>1. \A c \in Client!Connections : \A m \in ToSet(up'[c]) :
           m \in ToSet(up[c]) \/ (c = conn /\ m = n)
      BY <1>3
  <2> SUFFICES ASSUME NEW c \in Client!Connections, NEW d \in Client!Connections, c # d,
                      NEW m \in ToSet(up'[c]), m # 0, m \in ToSet(up'[d])
               PROVE  FALSE
      OBVIOUS
  <2>2. CASE m = n
      BY <1>12, <2>1, <2>2
  <2>3. CASE m # n
    <3>1. m \in ToSet(up[c]) /\ m \in ToSet(up[d])
        BY <2>1, <2>3
    <3> QED
        BY <1>a, <3>1 DEF InOrder
  <2> QED
      BY <2>2, <2>3
<1>14. conn \notin Unused /\ Unused' = Unused
    BY <1>a DEF Unused, OrderTypes, Client!Connections
<1>15. \A c \in Unused' : up'[c] = <<>>
    BY <1>a, <1>3, <1>14 DEF InOrder, Unused
<1>16. InOrder'
    BY <1>8, <1>9, <1>11, <1>13, <1>15 DEF InOrder
<1> QED
    BY <1>a, <1>4, <1>16 DEF OrderIndInv, CommandsRunOnce

\* The app queues its next command.
LEMMA OneIsQueued ==
    ASSUME OrderIndInv, issued' = issued + 1, commands' = Append(commands, issued'),
           UNCHANGED <<conn, thread, up, handled>>
    PROVE  OrderIndInv'
<1>a. OrderTypes /\ InOrder /\ CommandsRunOnce
    BY DEF OrderIndInv
<1>1. issued' \in Nat /\ \A n \in ToSet(commands) : n < issued'
    BY <1>a, PassedContents DEF OrderTypes, InOrder
<1>2. commands' \in Increasing /\ ToSet(commands') = ToSet(commands) \cup {issued'}
    BY <1>a, <1>1, IncreasingAppend DEF OrderTypes
<1>3. OrderTypes'
    BY <1>a, <1>1, <1>2 DEF OrderTypes
<1>4. Passed' = Passed /\ Unused' = Unused
    BY DEF Passed, Unused
<1>5. Passed \subseteq Nat
    BY <1>a, PassedContents
<1>6. \A m \in Passed : m <= issued' /\ m < issued'
    BY <1>a, <1>5 DEF OrderTypes, InOrder
<1>7. ToSet(commands) \subseteq Nat
    BY <1>a, PassedContents
<1>8. \A n \in ToSet(commands') : 0 < n /\ n <= issued'
    BY <1>a, <1>2, <1>7 DEF OrderTypes, InOrder
<1>9. \A m \in Passed' : m <= issued' /\ \A n \in ToSet(commands') : m < n
    BY <1>a, <1>2, <1>4, <1>6 DEF InOrder
<1>10. InOrder'
    BY <1>a, <1>4, <1>8, <1>9 DEF InOrder
<1> QED
    BY <1>a, <1>3, <1>10 DEF OrderIndInv, CommandsRunOnce

\* A command is handled.
LEMMA OneIsHandled ==
    ASSUME OrderIndInv, NEW c \in Client!Connections, up[c] # <<>>, Head(up[c]) # 0,
           up' = [up EXCEPT ![c] = Tail(@)], handled' = Append(handled, <<c, Head(up[c])>>),
           UNCHANGED <<issued, commands, conn, thread>>
    PROVE  OrderIndInv'
<1> DEFINE n == Head(up[c])
           h == <<c, n>>
<1>a. OrderTypes /\ InOrder /\ CommandsRunOnce
    BY DEF OrderIndInv
<1>1. /\ n \in Nat /\ Tail(up[c]) \in Increasing
      /\ ToSet(up[c]) = {n} \cup ToSet(Tail(up[c])) /\ ToSet(Tail(up[c])) \subseteq Nat
      /\ \A m \in ToSet(Tail(up[c])) : n < m
    BY <1>a, IncreasingTail DEF OrderTypes
<1>2. up'[c] = Tail(up[c]) /\ \A d \in Client!Connections : d # c => up'[d] = up[d]
    BY <1>a DEF OrderTypes
<1>3. h \in Client!Connections \X Nat /\ h[1] = c /\ h[2] = n
    BY <1>1
<1>4. handled' \in Seq(Client!Connections \X Nat) /\ ToSet(handled') = ToSet(handled) \cup {h}
  <2> DEFINE pairs == Client!Connections \X Nat
  <2>1. handled \in Seq(pairs) /\ handled' = Append(handled, h) /\ h \in pairs
      BY <1>a, <1>3 DEF OrderTypes
  <2> HIDE DEF h, pairs
  <2>2. /\ Append(handled, h) \in Seq(pairs)
        /\ ToSet(Append(handled, h)) = ToSet(handled) \cup {h}
      BY <2>1, ContentsOfAppend
  <2> QED
      BY <2>1, <2>2 DEF pairs
<1> HIDE DEF n, h
<1>5. OrderTypes'
    BY <1>a, <1>1, <1>2, <1>4 DEF OrderTypes
<1>6. Passed' \subseteq Passed
  <2>1. \A d \in Client!Connections : ToSet(up'[d]) \subseteq ToSet(up[d])
      BY <1>1, <1>2
  <2>2. \A k \in ToSet(handled') : k \in ToSet(handled) \/ (k[2] = n /\ n \in ToSet(up[c]))
      BY <1>1, <1>3, <1>4
  <2> QED
      BY <2>1, <2>2 DEF Passed
<1>7. \A m \in Passed' : m <= issued /\ \A k \in ToSet(commands) : m < k
    BY <1>a, <1>6 DEF InOrder
<1>8. n # 0 /\ \A k \in ToSet(handled) : k[2] # n /\ (k[1] = c => k[2] < n)
    BY <1>a, <1>1 DEF InOrder, n
<1>9. \A d \in Client!Connections : n \in ToSet(up[d]) => d = c
    BY <1>a, <1>1, <1>8 DEF InOrder
<1>10. \A d \in Client!Connections :
         ToSet(up'[d]) \subseteq ToSet(up[d]) /\ n \notin ToSet(up'[d])
    BY <1>1, <1>2, <1>9
<1>11. \A d \in Client!Connections, k \in ToSet(handled') : \A m \in ToSet(up'[d]) :
         m # 0 => k[2] # m /\ (k[1] = d => k[2] < m)
  <2> SUFFICES ASSUME NEW d \in Client!Connections, NEW k \in ToSet(handled'),
                      NEW m \in ToSet(up'[d]),
                      m # 0
               PROVE  k[2] # m /\ (k[1] = d => k[2] < m)
      OBVIOUS
  <2>1. CASE k \in ToSet(handled)
      BY <1>a, <1>10, <2>1 DEF InOrder
  <2>2. CASE k = h
      BY <1>1, <1>2, <1>3, <1>10, <2>2
  <2> QED
      BY <1>4, <2>1, <2>2
<1>12. \A d, e \in Client!Connections : d # e => \A m \in ToSet(up'[d]) :
         m # 0 => m \notin ToSet(up'[e])
    BY <1>a, <1>10 DEF InOrder
<1>13. \A d \in Unused' : up'[d] = <<>>
    BY <1>a, <1>2 DEF InOrder, Unused
<1>14. InOrder'
    BY <1>a, <1>7, <1>11, <1>12, <1>13 DEF InOrder
<1>15. CommandsRunOnce'
  <2>1. /\ Len(handled') = Len(handled) + 1 /\ handled'[Len(handled) + 1] = h
        /\ \A i \in 1..Len(handled) : handled'[i] = handled[i]
      BY <1>a, <1>3, AppendProperties DEF OrderTypes, h, n
  <2>2. DOMAIN handled = 1..Len(handled) /\ DOMAIN handled' = 1..Len(handled) + 1
        /\ Len(handled) \in Nat
      BY <1>a, <1>4, <2>1 DEF OrderTypes
  <2>3. \A i \in 1..Len(handled) : handled[i] \in ToSet(handled)
      BY <2>2 DEF ToSet
  <2> SUFFICES ASSUME NEW i \in 1..Len(handled) + 1, NEW j \in 1..Len(handled) + 1, i < j
               PROVE  /\ handled'[i][2] # handled'[j][2]
                      /\ handled'[i][1] = handled'[j][1] => handled'[i][2] < handled'[j][2]
      BY <2>2 DEF CommandsRunOnce
  <2>4. i \in 1..Len(handled) /\ handled'[i] = handled[i]
      BY <2>1, <2>2
  <2>5. CASE j \in 1..Len(handled)
      BY <1>a, <2>1, <2>2, <2>4, <2>5 DEF CommandsRunOnce
  <2>6. CASE j = Len(handled) + 1
      BY <1>3, <1>8, <2>1, <2>3, <2>4, <2>6
  <2> QED
      BY <2>2, <2>5, <2>6
<1> QED
    BY <1>5, <1>14, <1>15 DEF OrderIndInv

\* Every step keeps the order.
LEMMA StepOrderIndInv ==
    ASSUME MaxConnections \in Nat \ {0}
    PROVE  OrderIndInv /\ [Client!Next]_Client!vars => OrderIndInv'
<1> SUFFICES ASSUME OrderIndInv, [Client!Next]_Client!vars PROVE OrderIndInv'
    OBVIOUS
<1> USE DEF Client!appVars, Client!threadVars, Client!serverVars, Client!ClientUnchanged,
Client!ThreadGoes
<1>a. OrderTypes /\ InOrder /\ CommandsRunOnce
    BY DEF OrderIndInv
<1>b. commands # <<>> => Tail(commands) \in Increasing
      /\ ToSet(Tail(commands)) \subseteq ToSet(commands)
    BY <1>a, IncreasingTail DEF OrderTypes
<1>c. 1 \in Client!Connections
    BY DEF Client!Connections
<1>1. CASE Client!ForwardCommand
  <2>1. issued' = issued + 1 /\ UNCHANGED <<conn, thread, up, handled>>
      BY <1>1 DEF Client!ForwardCommand
  <2>2. CASE commands' = Append(commands, issued')
      BY <2>1, <2>2, OneIsQueued
  <2>3. CASE UNCHANGED commands
    <3>1. OrderTypes' /\ Passed' = Passed /\ Unused' = Unused
        BY <1>a, <2>1, <2>3 DEF OrderTypes, Passed, Unused
    <3>2. \A n \in ToSet(commands) \cup Passed : n <= issued'
        BY <1>a, <2>1, PassedContents DEF OrderTypes, InOrder
    <3> QED
        BY <1>a, <2>1, <2>3, <3>1, <3>2 DEF OrderIndInv, InOrder, CommandsRunOnce
  <2> QED
      BY <1>1, <2>2, <2>3 DEF Client!ForwardCommand
<1>2. CASE Client!EnsureSession
  <2>1. conn = 0 /\ conn' = 1 /\ thread' = "connecting"
        /\ UNCHANGED <<issued, commands, up, handled>>
      BY <1>a, <1>2 DEF Client!EnsureSession, OrderTypes
  <2>2. Unused' \subseteq Unused
      BY <2>1 DEF Unused, Client!Connections
  <2> QED
      BY <1>a, <1>c, <2>1, <2>2, NothingSent DEF OrderTypes
<1>3. CASE Client!Connect \/ Client!ConnectFails \/ Client!ReadFails \/ Client!ReadEnds
           \/ Client!SessionEnds \/ Client!ReadMessage
    BY <1>a, <1>3, NothingSent DEF Client!Connect, Client!ConnectFails, Client!ReadFails,
       Client!ReadEnds, Client!SessionEnds, Client!ReadMessage,
       OrderTypes, Unused
<1>4. CASE Client!SendHello
  <2>1. /\ thread = "greeting" /\ thread' = "open"
        /\ UNCHANGED <<issued, commands, conn, handled>>
      BY <1>4 DEF Client!SendHello
  <2>2. conn \in Client!Connections /\ conn \in Nat /\ up[conn] = <<>>
      BY <1>a, <2>1 DEF OrderTypes, InOrder, Unused, Client!Connections
  <2>3. Unused' \subseteq Unused /\ conn \notin Unused'
      BY <2>1, <2>2 DEF Unused, Client!Connections
  <2>4. CASE UNCHANGED up
      BY <1>a, <2>1, <2>2, <2>3, <2>4, NothingSent DEF OrderTypes
  <2>5. CASE up' = [up EXCEPT ![conn] = Append(@, Client!Hello)]
    <3> DEFINE s == Append(<<>>, 0)
    <3>1. s \in Increasing /\ ToSet(s) = {0}
        BY EmptyIsIncreasing, IncreasingAppend
    <3> HIDE DEF s
    <3>2. up' = [up EXCEPT ![conn] = s]
        BY <2>2, <2>5 DEF s, Client!Hello
    <3> QED
        BY <2>1, <2>2, <2>3, <3>1, <3>2, OneLeaves
  <2> QED
      BY <1>4, <2>4, <2>5 DEF Client!SendHello, Client!Send
<1>5. CASE Client!SendCommand
  <2>1. /\ thread = "open" /\ commands # <<>> /\ commands' = Tail(commands)
        /\ UNCHANGED <<issued, conn, handled, thread>>
      BY <1>5 DEF Client!SendCommand
  <2>2. CASE UNCHANGED up
      BY <1>a, <1>b, <2>1, <2>2, NothingSent DEF OrderTypes, Unused
  <2>3. CASE up' = [up EXCEPT ![conn] = Append(@, Head(commands))]
      BY <2>1, <2>3, OneIsSent
  <2> QED
      BY <1>5, <2>2, <2>3 DEF Client!SendCommand, Client!Send
<1>6. CASE Client!SendFails
    BY <1>a, <1>b, <1>6, NothingSent DEF Client!SendFails, OrderTypes, Unused
<1>7. CASE Client!Reconnect
  <2>1. /\ thread = "waiting" /\ conn < MaxConnections /\ thread' = "connecting"
        /\ conn' = conn + 1
        /\ UNCHANGED <<issued, commands, up, handled>>
      BY <1>7 DEF Client!Reconnect
  <2>2. conn \in Client!Connections /\ conn' \in Client!Connections /\ Unused' \subseteq Unused
      BY <1>a, <2>1 DEF OrderTypes, Unused, Client!Connections
  <2> QED
      BY <1>a, <2>1, <2>2, NothingSent DEF OrderTypes
<1>8. CASE Client!Stop
    BY <1>a, <1>8, EmptyIsIncreasing, NothingSent DEF Client!Stop, OrderTypes, Unused
<1>9. CASE Client!DrainEvent \/ UNCHANGED Client!vars
    BY <1>a, <1>9, NothingSent DEF Client!DrainEvent, Client!vars, OrderTypes, Unused
<1>10. ASSUME NEW c \in Client!Connections, Client!Receive(c) PROVE OrderIndInv'
  <2>1. /\ up[c] # <<>> /\ up' = [up EXCEPT ![c] = Tail(@)]
        /\ UNCHANGED <<issued, commands, conn, thread>>
      BY <1>10 DEF Client!Receive
  <2>2. CASE Head(up[c]) = Client!Hello
    <3> DEFINE s == Tail(up[c])
    <3>1. up' = [up EXCEPT ![c] = s] /\ UNCHANGED handled
        BY <1>10, <2>1, <2>2 DEF Client!Receive
    <3>2. s \in Increasing /\ ToSet(s) \subseteq ToSet(up[c]) /\ up[c] \in Increasing
        BY <1>a, <2>1, IncreasingTail DEF OrderTypes
    <3>3. c \notin Unused /\ Unused' = Unused
        BY <1>a, <2>1 DEF InOrder, Unused
    <3> HIDE DEF s
    <3> QED
        BY <2>1, <3>1, <3>2, <3>3, OneLeaves
  <2>3. CASE Head(up[c]) # Client!Hello
      BY <1>10, <2>1, <2>3, OneIsHandled DEF Client!Receive, Client!Hello
  <2> QED
      BY <2>2, <2>3
<1>11. ASSUME NEW c \in Client!Connections, Client!TaskEnds(c) PROVE OrderIndInv'
  <2>1. up' = [up EXCEPT ![c] = <<>>] /\ UNCHANGED <<issued, commands, conn, thread, handled>>
      BY <1>11 DEF Client!TaskEnds
  <2>2. Unused' = Unused
      BY <2>1 DEF Unused
  <2> QED
      BY <2>1, <2>2, EmptyIsIncreasing, OneLeaves
<1>12. ASSUME NEW c \in Client!Connections, Client!Answer(c) \/ Client!Break(c) PROVE OrderIndInv'
    BY <1>a, <1>12, NothingSent DEF Client!Answer, Client!Break, OrderTypes, Unused
<1> QED
    BY <1>1, <1>2, <1>3, <1>4, <1>5, <1>6, <1>7, <1>8, <1>9, <1>10, <1>11,
       <1>12 DEF Client!Next, Client!Run

\* The inductive invariant of the commands: those queued, under way and handled are in
\* the order in which the app issued them, and each is in one place.
THEOREM ClientOrderIndInv ==
    ASSUME MaxConnections \in Nat \ {0}
    PROVE  Client!Spec => []OrderIndInv
BY OrderInit, StepOrderIndInv, PTL DEF Client!Spec

\* However often the session reconnects, no command runs twice, and those of one
\* connection run in the order of the app.
THEOREM ClientCommandsRunOnce ==
    ASSUME MaxConnections \in Nat \ {0}
    PROVE  Client!Spec => []CommandsRunOnce
<1>1. OrderIndInv => CommandsRunOnce
    BY DEF OrderIndInv
<1> QED
    BY <1>1, ClientOrderIndInv, PTL

-----------------------------------------------------------------------------
(* What the app is told of the session.                                    *)

Flags   == {"connected", "disconnected"}
Answers == {"hello", "error", "preparing", "ready"}

IsOpen == thread \in {"greeting", "open"}

ViewTypes ==
    /\ view \in [connected : BOOLEAN, assignment : Nat,
                 grant_state : {"idle", "preparing", "ready", "failed"}]
    /\ events \in Seq((Flags \cup Answers) \X Nat)
    /\ down \in [Client!Connections -> Seq(Answers \X Nat)]
    /\ serving \in [Client!Connections -> Nat]
    /\ conn \in Nat

\* The last event about the connection agrees with the session, and the view does when
\* there is none; while the session closes, its end has not been told yet.
LastEventTells ==
    \A i \in 1..Len(events) :
        (events[i][1] \in Flags /\ \A j \in 1..Len(events) : i < j => events[j][1] \notin Flags)
            => (events[i][1] = "connected" <=> IsOpen)

ViewTells ==
    (\A i \in 1..Len(events) : events[i][1] \notin Flags) => (view.connected <=> IsOpen)

ViewIndInv ==
    /\ OrderIndInv
    /\ ViewTypes
    /\ thread # "closing" => LastEventTells /\ ViewTells

LEMMA ViewInit == Client!Init => ViewIndInv
<1> SUFFICES ASSUME Client!Init PROVE ViewIndInv
    OBVIOUS
<1>1. ViewTypes
    BY EmptySeq DEF Client!Init, ViewTypes
<1>2. LastEventTells /\ ViewTells
    BY DEF Client!Init, LastEventTells, ViewTells, IsOpen
<1> QED
    BY <1>1, <1>2, OrderInit DEF ViewIndInv

\* One more event that is not about the connection changes nothing of what is told.
LEMMA NeutralEvent ==
    ASSUME ViewTypes, LastEventTells, ViewTells, NEW e \in Answers \X Nat,
           events' = Append(events, e), IsOpen' = IsOpen, UNCHANGED view
    PROVE  LastEventTells' /\ ViewTells'
<1>1. Len(events) \in Nat /\ e[1] \notin Flags
    BY DEF ViewTypes, Answers, Flags
<1>2. /\ Len(events') = Len(events) + 1 /\ events'[Len(events) + 1] = e
      /\ \A i \in 1..Len(events) : events'[i] = events[i]
    BY DEF ViewTypes
<1>3. \A i \in 1..Len(events) : i \in 1..Len(events')
    BY <1>1, <1>2
<1>4. ASSUME NEW i \in 1..Len(events'), events'[i][1] \in Flags
      PROVE i \in 1..Len(events) /\ events[i][1] \in Flags /\ events'[i] = events[i]
  <2>1. i \in 1..Len(events) \/ i = Len(events) + 1
      BY <1>1, <1>2
  <2> QED
      BY <1>1, <1>2, <1>4, <2>1
<1>5. LastEventTells'
  <2> SUFFICES ASSUME NEW i \in 1..Len(events'), events'[i][1] \in Flags,
                      \A j \in 1..Len(events') : i < j => events'[j][1] \notin Flags
               PROVE  events'[i][1] = "connected" <=> IsOpen'
      BY DEF LastEventTells
  <2>1. \A j \in 1..Len(events) : i < j => events[j][1] \notin Flags
      BY <1>2, <1>3
  <2>2. i \in 1..Len(events) /\ events[i][1] \in Flags /\ events'[i] = events[i]
      BY <1>4
  <2>3. events[i][1] = "connected" <=> IsOpen
      BY <2>1, <2>2 DEF LastEventTells
  <2> QED
      BY <2>2, <2>3
<1>6. ViewTells'
  <2> SUFFICES ASSUME \A i \in 1..Len(events') : events'[i][1] \notin Flags
               PROVE  view'.connected <=> IsOpen'
      BY DEF ViewTells
  <2>1. \A i \in 1..Len(events) : events[i][1] \notin Flags
      BY <1>2, <1>3
  <2> QED
      BY <2>1 DEF ViewTells
<1> QED
    BY <1>5, <1>6

\* One more event about the connection tells the app the session's new state.
LEMMA FlagEvent ==
    ASSUME events \in Seq((Flags \cup Answers) \X Nat), NEW e, e[1] \in Flags,
           events' = Append(events, e), e[1] = "connected" <=> IsOpen'
    PROVE  LastEventTells' /\ ViewTells'
<1>1. Len(events) \in Nat
    OBVIOUS
<1>2. /\ Len(events') = Len(events) + 1 /\ events'[Len(events) + 1] = e
    OBVIOUS
<1>3. Len(events) + 1 \in 1..Len(events')
    BY <1>1, <1>2
<1>4. \A i \in 1..Len(events') : i < Len(events) + 1 \/ i = Len(events) + 1
    BY <1>1, <1>2
<1>5. LastEventTells'
    BY <1>2, <1>3, <1>4 DEF LastEventTells
<1>6. ViewTells'
    BY <1>2, <1>3 DEF ViewTells
<1> QED
    BY <1>5, <1>6

\* An event is applied.
LEMMA EventApplied ==
    ASSUME ViewTypes, Client!DrainEvent
    PROVE  /\ ViewTypes'
           /\ LastEventTells /\ ViewTells => LastEventTells' /\ ViewTells'
<1> DEFINE e == Head(events)
<1>1. /\ events # <<>> /\ events' = Tail(events) /\ view' = Client!Applied(e)
      /\ UNCHANGED <<down, serving, conn, thread>>
    BY DEF Client!DrainEvent, Client!threadVars, Client!serverVars
<1>2. /\ e \in (Flags \cup Answers) \X Nat /\ events' \in Seq((Flags \cup Answers) \X Nat)
      /\ Len(events') = Len(events) - 1 /\ e = events[1]
      /\ \A i \in 1..Len(events') : events'[i] = events[i + 1]
    BY <1>1, HeadTailProperties DEF ViewTypes
<1>3. Len(events) \in Nat /\ Len(events) # 0
    BY <1>1, EmptySeq DEF ViewTypes
<1> HIDE DEF e
<1>4. e[1] \in {"connected", "disconnected", "hello", "error", "preparing", "ready"}
      /\ e[2] \in Nat
    BY <1>2 DEF Flags, Answers
<1>5. /\ view' \in [connected : BOOLEAN, assignment : Nat,
                    grant_state : {"idle", "preparing", "ready", "failed"}]
      /\ e[1] = "connected" => view'.connected = TRUE
      /\ e[1] = "disconnected" => view'.connected = FALSE
      /\ e[1] \notin Flags => view'.connected = view.connected
    BY <1>1, <1>4 DEF Client!Applied, ViewTypes, Flags
<1>6. ViewTypes'
    BY <1>1, <1>2, <1>5 DEF ViewTypes
<1>7. IsOpen' = IsOpen
    BY <1>1 DEF IsOpen
<1>8. \A i \in 1..Len(events') : i + 1 \in 1..Len(events) /\ events'[i] = events[i + 1]
    BY <1>2, <1>3
<1>9. \A j \in 1..Len(events) : j = 1 \/ (j - 1 \in 1..Len(events') /\ events'[j - 1] = events[j])
  <2> SUFFICES ASSUME NEW j \in 1..Len(events), j # 1
               PROVE  j - 1 \in 1..Len(events') /\ events'[j - 1] = events[j]
      OBVIOUS
  <2>1. j - 1 \in 1..Len(events') /\ (j - 1) + 1 = j
      BY <1>2, <1>3
  <2> QED
      BY <1>2, <2>1
<1>10. ASSUME LastEventTells PROVE LastEventTells'
  <2> SUFFICES ASSUME NEW i \in 1..Len(events'), events'[i][1] \in Flags,
                      \A j \in 1..Len(events') : i < j => events'[j][1] \notin Flags
               PROVE  events'[i][1] = "connected" <=> IsOpen'
      BY DEF LastEventTells
  <2>1. i + 1 \in 1..Len(events) /\ events[i + 1] = events'[i]
      BY <1>8
  <2>2. ASSUME NEW j \in 1..Len(events), i + 1 < j PROVE events[j][1] \notin Flags
    <3>1. j # 1 /\ i < j - 1
        BY <2>2, <1>3
    <3> QED
        BY <1>9, <3>1
  <2>3. events[i + 1][1] = "connected" <=> IsOpen
      BY <1>10, <2>1, <2>2 DEF LastEventTells
  <2> QED
      BY <1>7, <2>1, <2>3
<1>11. ASSUME LastEventTells, ViewTells PROVE ViewTells'
  <2> SUFFICES ASSUME \A i \in 1..Len(events') : events'[i][1] \notin Flags
               PROVE  view'.connected <=> IsOpen'
      BY DEF ViewTells
  <2>1. \A j \in 1..Len(events) : 1 < j => events[j][1] \notin Flags
      BY <1>9
  <2>2. CASE e[1] \in Flags
    <3>1. 1 \in 1..Len(events)
        BY <1>3
    <3>2. events[1][1] = "connected" <=> IsOpen
        BY <1>2, <1>11, <2>1, <2>2, <3>1 DEF LastEventTells
    <3> QED
        BY <1>2, <1>5, <1>7, <2>2, <3>2 DEF Flags
  <2>3. CASE e[1] \notin Flags
    <3>1. \A j \in 1..Len(events) : events[j][1] \notin Flags
        BY <1>2, <1>9, <2>3
    <3> QED
        BY <1>5, <1>7, <1>11, <2>3, <3>1 DEF ViewTells
  <2> QED
      BY <2>2, <2>3
<1> QED
    BY <1>6, <1>10, <1>11

\* One and two elements make a sequence.
LEMMA ShortSequences ==
    ASSUME NEW S, NEW x \in S, NEW y \in S
    PROVE  <<x>> \in Seq(S) /\ <<x, y>> \in Seq(S)
OBVIOUS

\* Every step keeps the types of what the app is told.
LEMMA StepViewTypes ==
    ASSUME OrderIndInv, ViewTypes, [Client!Next]_Client!vars
    PROVE  ViewTypes'
<1> USE DEF Client!appVars, Client!threadVars, Client!serverVars, Client!ClientUnchanged,
Client!ThreadGoes, Client!Tell
<1>1. CASE Client!DrainEvent
    BY <1>1, EventApplied
<1>2. CASE Client!Connect \/ Client!ConnectFails \/ Client!SendFails \/ Client!ReadFails
           \/ Client!SessionEnds
  <2>1. \E e \in (Flags \cup Answers) \X Nat : events' = Append(events, e)
    <3>1. <<"connected", conn>> \in (Flags \cup Answers) \X Nat
          /\ <<"disconnected", conn>> \in (Flags \cup Answers) \X Nat
          /\ <<"error", 0>> \in (Flags \cup Answers) \X Nat
        BY DEF ViewTypes, Flags, Answers
    <3> QED
        BY <1>2, <3>1 DEF Client!Connect, Client!ConnectFails, Client!SendFails,
           Client!ReadFails, Client!SessionEnds
  <2>2. events' \in Seq((Flags \cup Answers) \X Nat)
      BY <2>1, ContentsOfAppend DEF ViewTypes
  <2>3. UNCHANGED <<view, down, serving, conn>>
      BY <1>2 DEF Client!Connect, Client!ConnectFails, Client!SendFails, Client!ReadFails,
         Client!SessionEnds
  <2> QED
      BY <2>2, <2>3 DEF ViewTypes
<1>3. CASE Client!ReadMessage
  <2>1. /\ events' = Append(events, Head(down[conn])) /\ down[conn] # <<>>
        /\ down' = [down EXCEPT ![conn] = Tail(@)] /\ thread = "open"
        /\ UNCHANGED <<view, serving, conn>>
      BY <1>3 DEF Client!ReadMessage
  <2>2. conn \in Client!Connections
      BY <2>1 DEF OrderIndInv, OrderTypes
  <2>3. Head(down[conn]) \in Answers \X Nat /\ Tail(down[conn]) \in Seq(Answers \X Nat)
      BY <2>1, <2>2, HeadTailProperties DEF ViewTypes
  <2>4. events' \in Seq((Flags \cup Answers) \X Nat)
    <3>1. Head(down[conn]) \in (Flags \cup Answers) \X Nat
        BY <2>3
    <3> QED
        BY <2>1, <3>1, ContentsOfAppend DEF ViewTypes
  <2>5. down' \in [Client!Connections -> Seq(Answers \X Nat)]
      BY <2>1, <2>3 DEF ViewTypes
  <2> QED
      BY <2>1, <2>4, <2>5 DEF ViewTypes
<1>4. ASSUME NEW c \in Client!Connections, Client!Receive(c) PROVE ViewTypes'
  <2>1. Head(up[c]) \in Nat
      BY <1>4, IncreasingTail DEF Client!Receive, OrderIndInv, OrderTypes
  <2>2. Append(down[c], <<"hello", 0>>) \in Seq(Answers \X Nat)
    <3>1. <<"hello", 0>> \in Answers \X Nat
        BY DEF Answers
    <3>2. down[c] \in Seq(Answers \X Nat)
        BY DEF ViewTypes
    <3> QED
        BY <3>1, <3>2, ContentsOfAppend
  <2> QED
      BY <1>4, <2>1, <2>2 DEF Client!Receive, ViewTypes
<1>5. ASSUME NEW c \in Client!Connections, Client!Answer(c) PROVE ViewTypes'
  <2>1. PICK answers \in {<<<<"preparing", serving[c]>>, <<"ready", serving[c]>>>>,
                          <<<<"error", 0>>>>} :
          down' = IF link[c] = "up" THEN [down EXCEPT ![c] = @ \o answers] ELSE down
      BY <1>5 DEF Client!Answer
  <2>2. answers \in Seq(Answers \X Nat) /\ down[c] \in Seq(Answers \X Nat)
    <3>1. serving[c] \in Nat /\ down[c] \in Seq(Answers \X Nat)
        BY DEF ViewTypes
    <3>2. <<"preparing", serving[c]>> \in Answers \X Nat
          /\ <<"ready", serving[c]>> \in Answers \X Nat
          /\ <<"error", 0>> \in Answers \X Nat
        BY <3>1 DEF Answers
    <3>3. <<<<"error", 0>>>> \in Seq(Answers \X Nat)
        BY <3>2, ShortSequences
    <3>4. <<<<"preparing", serving[c]>>, <<"ready", serving[c]>>>> \in Seq(Answers \X Nat)
        BY <3>2, ShortSequences
    <3> QED
        BY <3>1, <3>3, <3>4
  <2>3. down[c] \o answers \in Seq(Answers \X Nat)
      BY <2>2, ConcatProperties
  <2>4. down' \in [Client!Connections -> Seq(Answers \X Nat)]
      BY <2>1, <2>3 DEF ViewTypes
  <2>5. serving' = [serving EXCEPT ![c] = 0] /\ UNCHANGED <<view, events, conn>>
      BY <1>5 DEF Client!Answer
  <2> QED
      BY <2>4, <2>5 DEF ViewTypes
<1>6. CASE Client!ForwardCommand \/ Client!EnsureSession \/ Client!SendHello
           \/ Client!SendCommand \/ Client!ReadEnds \/ Client!Reconnect \/ Client!Stop
           \/ UNCHANGED Client!vars
    BY <1>6 DEF Client!ForwardCommand, Client!EnsureSession, Client!SendHello,
       Client!SendCommand, Client!ReadEnds, Client!Reconnect, Client!Stop,
       Client!vars, ViewTypes
<1>7. ASSUME NEW c \in Client!Connections, Client!Break(c) \/ Client!TaskEnds(c) PROVE ViewTypes'
    BY <1>7 DEF Client!Break, Client!TaskEnds, ViewTypes
<1> QED
    BY <1>1, <1>2, <1>3, <1>4, <1>5, <1>6, <1>7 DEF Client!Next, Client!Run

\* Every step keeps the inductive invariant.
LEMMA StepViewIndInv ==
    ASSUME MaxConnections \in Nat \ {0}
    PROVE  ViewIndInv /\ [Client!Next]_Client!vars => ViewIndInv'
<1> SUFFICES ASSUME ViewIndInv, [Client!Next]_Client!vars PROVE ViewIndInv'
    OBVIOUS
<1> USE DEF Client!appVars, Client!threadVars, Client!serverVars, Client!ClientUnchanged,
Client!ThreadGoes, Client!Tell
<1>a. OrderIndInv /\ ViewTypes /\ (thread # "closing" => LastEventTells /\ ViewTells)
    BY DEF ViewIndInv
<1>b. OrderIndInv' /\ ViewTypes'
    BY <1>a, StepOrderIndInv, StepViewTypes
<1> SUFFICES ASSUME thread' # "closing" PROVE LastEventTells' /\ ViewTells'
    BY <1>b DEF ViewIndInv
<1>1. CASE /\ thread # "closing"
           /\ UNCHANGED <<view, events>>
           /\ IsOpen' = IsOpen
    BY <1>a, <1>1 DEF LastEventTells, ViewTells
<1>2. CASE Client!ForwardCommand \/ Client!EnsureSession \/ Client!SendHello
           \/ Client!SendCommand \/ Client!ReadEnds \/ Client!Reconnect \/ Client!Stop
           \/ UNCHANGED Client!vars
    BY <1>a, <1>2 DEF Client!ForwardCommand, Client!EnsureSession, Client!SendHello,
       Client!SendCommand, Client!ReadEnds, Client!Reconnect,
       Client!Stop, Client!vars, IsOpen, LastEventTells, ViewTells
<1>3. ASSUME NEW c \in Client!Connections,
             Client!Receive(c) \/ Client!Answer(c) \/ Client!Break(c) \/ Client!TaskEnds(c)
      PROVE LastEventTells' /\ ViewTells'
    BY <1>a, <1>3 DEF Client!Receive, Client!Answer, Client!Break, Client!TaskEnds, IsOpen,
       LastEventTells, ViewTells
<1>4. CASE Client!Connect
  <2>1. events' = Append(events, <<"connected", conn>>) /\ IsOpen'
      BY <1>4 DEF Client!Connect, IsOpen
  <2>2. <<"connected", conn>>[1] \in Flags /\ (<<"connected", conn>>[1] = "connected" <=> IsOpen')
      BY <2>1 DEF Flags
  <2> QED
      BY <1>a, <2>1, <2>2, FlagEvent DEF ViewTypes
<1>5. CASE Client!SessionEnds
  <2>1. events' = Append(events, <<"disconnected", conn>>) /\ ~IsOpen'
      BY <1>5 DEF Client!SessionEnds, IsOpen
  <2>2. <<"disconnected", conn>>[1] \in Flags
        /\ (<<"disconnected", conn>>[1] = "connected" <=> IsOpen')
      BY <2>1 DEF Flags
  <2> QED
      BY <1>a, <2>1, <2>2, FlagEvent DEF ViewTypes
<1>6. CASE Client!ReadMessage
  <2>1. /\ events' = Append(events, Head(down[conn])) /\ down[conn] # <<>>
        /\ thread = "open" /\ thread' = thread /\ UNCHANGED view
      BY <1>6 DEF Client!ReadMessage
  <2>2. conn \in Client!Connections
      BY <1>a, <2>1 DEF OrderIndInv, OrderTypes
  <2>3. Head(down[conn]) \in Answers \X Nat
      BY <1>a, <2>1, <2>2, HeadTailProperties DEF ViewTypes
  <2>4. IsOpen' = IsOpen
      BY <2>1 DEF IsOpen
  <2> QED
      BY <1>a, <2>1, <2>3, <2>4, NeutralEvent
<1>7. CASE Client!DrainEvent
    BY <1>a, <1>7, EventApplied DEF Client!DrainEvent
<1>8. CASE Client!ConnectFails \/ Client!SendFails \/ Client!ReadFails
    BY <1>8 DEF Client!ConnectFails, Client!SendFails, Client!ReadFails
<1> QED
    BY <1>2, <1>3, <1>4, <1>5, <1>6, <1>7, <1>8 DEF Client!Next, Client!Run

\* The inductive invariant of the view: the last event about the connection agrees with
\* the session, whatever else is queued.
THEOREM ClientViewIndInv ==
    ASSUME MaxConnections \in Nat \ {0}
    PROVE  Client!Spec => []ViewIndInv
BY ViewInit, StepViewIndInv, PTL DEF Client!Spec

\* Once all events are applied, the app takes itself for connected exactly while the
\* session is, however often it was refused, broken, closed and reconnected.
THEOREM ClientViewFollowsSession ==
    ASSUME MaxConnections \in Nat \ {0}
    PROVE  Client!Spec => []ViewFollowsSession
<1>1. ViewIndInv => ViewFollowsSession
    BY DEF ViewIndInv, ViewTells, IsOpen, ViewFollowsSession
<1> QED
    BY <1>1, ClientViewIndInv, PTL
=============================================================================
