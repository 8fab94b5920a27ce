---------------------------- MODULE ClientSession ----------------------------
(***************************************************************************)
(* A game client's matchmaker session: the bevy app, the session thread    *)
(* that connects, sends the app's commands and reads the answers, the      *)
(* channel in each direction between the two, and on the other side the    *)
(* matchmaker's task of each websocket connection.  A connection may be    *)
(* refused, break, or be closed by the matchmaker; the thread reconnects   *)
(* if it is configured to.  Commands are numbered in the order in which    *)
(* the app queues them, 0 is the hello; connections are numbered too.      *)
(***************************************************************************)
EXTENDS ClientPromises, SequencesExt

CONSTANTS
    MaxCommands,     \* bound: commands of the app
    MaxConnections   \* bound: attempts to connect

ASSUME SessionAssumption == MaxCommands \in Nat /\ MaxConnections \in Nat \ {0}

VARIABLES   \* besides the thread, the events, the view and what was handled
    reconnect,  \* MatchmakerClientConfig::reconnect
    issued,     \* commands the app has queued so far
    refused,    \* commands the app could not queue
    told,       \* connections whose end the app was told of
    commands,   \* the command channel
    conn,       \* the connection it is at
    up, down,   \* messages under way on each connection
    link,       \* each connection
    serving,    \* the command a connection's task handles, 0 if none
    lost        \* commands that nobody will handle any more

appVars    == <<issued, refused, view, told>>
threadVars == <<thread, conn>>
serverVars == <<serving, handled>>
vars == <<reconnect, appVars, commands, events, threadVars, up, down, link, serverVars, lost>>

Connections == 1..MaxConnections
Commands    == 1..MaxCommands
Hello       == 0

Init ==
    /\ reconnect \in BOOLEAN
    /\ issued = 0 /\ refused = {} /\ told = {}
    /\ view = [connected |-> FALSE, grant_state |-> "idle", assignment |-> 0]
    /\ commands = <<>> /\ events = <<>>
    /\ thread = "unstarted" /\ conn = 0
    /\ up = [c \in Connections |-> <<>>]
    /\ down = [c \in Connections |-> <<>>]
    /\ link = [c \in Connections |-> "none"]
    /\ serving = [c \in Connections |-> 0]
    /\ handled = <<>>
    /\ lost = {}

-----------------------------------------------------------------------------
(* The app.                                                                *)

EnsureSession ==
    /\ thread = "unstarted"
    /\ thread' = "connecting" /\ conn' = 1
    /\ UNCHANGED <<reconnect, appVars, commands, events, up, down, link, serverVars, lost>>

\* forward_client_commands: once the thread has ended, queueing fails and the app
\* is told at once.
ForwardCommand ==
    /\ issued < MaxCommands
    /\ issued' = issued + 1
    /\ IF thread = "ended"
       THEN refused' = refused \cup {issued'} /\ UNCHANGED commands
       ELSE commands' = Append(commands, issued') /\ UNCHANGED refused
    /\ UNCHANGED <<reconnect, view, told, events, threadVars, up, down, link, serverVars, lost>>

\* What an event does to the client's view; everything but the flag, the grant's
\* state and the assignment is left out.
Applied(event) ==
    CASE event[1] = "connected"    -> [view EXCEPT !.connected = TRUE]
      [] event[1] = "disconnected" -> [view EXCEPT !.connected = FALSE]
      [] event[1] = "error"        -> [view EXCEPT !.grant_state = "failed"]
      [] event[1] = "preparing"    -> [view EXCEPT !.grant_state = "preparing",
                                                   !.assignment = event[2]]
      [] event[1] = "ready"        -> [view EXCEPT !.grant_state = "ready"]
      [] event[1] = "hello"        -> view

DrainEvent ==
    /\ events # <<>>
    /\ events' = Tail(events)
    /\ view' = Applied(Head(events))
    /\ told' = IF Head(events)[1] = "disconnected" THEN told \cup {Head(events)[2]} ELSE told
    /\ UNCHANGED <<reconnect, issued, refused, commands, threadVars, up, down, link,
                   serverVars, lost>>

-----------------------------------------------------------------------------
(* The session thread: one connection after the other.                     *)

Tell(event) == events' = Append(events, event)
ThreadGoes(from, to) ==
    /\ thread = from
    /\ thread' = to
    /\ UNCHANGED <<reconnect, conn, appVars, serverVars>>

ConnectUntold ==   \* deviation: the app is told of the first connection only
    /\ ThreadGoes("connecting", "greeting")
    /\ IF conn = 1 THEN Tell(<<"connected", conn>>) ELSE UNCHANGED events
    /\ link' = [link EXCEPT ![conn] = "up"]
    /\ UNCHANGED <<commands, up, down, lost>>

Connect ==
    /\ ThreadGoes("connecting", "greeting")
    /\ Tell(<<"connected", conn>>)
    /\ link' = [link EXCEPT ![conn] = "up"]
    /\ UNCHANGED <<commands, up, down, lost>>

ConnectFails ==
    /\ ThreadGoes("connecting", "closing")
    /\ Tell(<<"error", 0>>)
    /\ UNCHANGED <<commands, up, down, link, lost>>

\* A write to a connection that is down may succeed all the same.
Send(message) ==
    IF link[conn] = "up"
    THEN up' = [up EXCEPT ![conn] = Append(@, message)] /\ UNCHANGED lost
    ELSE lost' = lost \cup {<<conn, message>>} /\ UNCHANGED up

SendHello ==
    /\ ThreadGoes("greeting", "open")
    /\ Send(Hello)
    /\ UNCHANGED <<commands, events, down, link>>

\* Queued commands are taken off the channel one by one before each read.
SendCommandAgain ==   \* deviation: the command is taken off once it is answered
    /\ commands # <<>>
    /\ ThreadGoes("open", "open")
    /\ commands' = IF serving[conn] = Head(commands) THEN Tail(commands) ELSE commands
    /\ Len(up[conn]) <= MaxCommands
    /\ Send(Head(commands))
    /\ UNCHANGED <<events, down, link>>

SendCommand ==
    /\ commands # <<>>
    /\ ThreadGoes("open", "open")
    /\ commands' = Tail(commands)
    /\ Send(Head(commands))
    /\ UNCHANGED <<events, down, link>>

\* The command whose write fails is gone too.
SendFails ==
    /\ \/ ThreadGoes("greeting", "closing") /\ UNCHANGED <<commands, lost>>
       \/ /\ ThreadGoes("open", "closing")
          /\ commands # <<>>
          /\ commands' = Tail(commands)
          /\ lost' = lost \cup {<<conn, Head(commands)>>}
    /\ link[conn] # "up"
    /\ Tell(<<"error", 0>>)
    /\ UNCHANGED <<up, down, link>>

ReadMessage ==
    /\ ThreadGoes("open", "open")
    /\ down[conn] # <<>>
    /\ Tell(Head(down[conn]))
    /\ down' = [down EXCEPT ![conn] = Tail(@)]
    /\ UNCHANGED <<commands, up, link, lost>>

\* The read fails, or the message does not decode: the socket is dropped.
ReadFails ==
    /\ ThreadGoes("open", "closing")
    /\ link[conn] # "up" \/ down[conn] # <<>>
    /\ Tell(<<"error", 0>>)
    /\ link' = [link EXCEPT ![conn] = IF @ = "up" THEN "broken" ELSE @]
    /\ UNCHANGED <<commands, up, down, lost>>

\* The matchmaker closed the connection: the session ends without an error.
ReadEnds ==
    /\ ThreadGoes("open", "closing")
    /\ link[conn] = "closed"
    /\ down[conn] = <<>>
    /\ UNCHANGED <<commands, events, up, down, link, lost>>

SessionEndsQuietly ==   \* deviation: only an error is told to the app
    /\ ThreadGoes("closing", IF reconnect THEN "waiting" ELSE "stopping")
    /\ IF link[conn] = "closed" THEN UNCHANGED events ELSE Tell(<<"disconnected", conn>>)
    /\ UNCHANGED <<commands, up, down, link, lost>>

SessionEnds ==
    /\ ThreadGoes("closing", IF reconnect THEN "waiting" ELSE "stopping")
    /\ Tell(<<"disconnected", conn>>)
    /\ UNCHANGED <<commands, up, down, link, lost>>

\* After reconnect_delay.
Reconnect ==
    /\ thread = "waiting"
    /\ conn < MaxConnections
    /\ thread' = "connecting" /\ conn' = conn + 1
    /\ UNCHANGED <<reconnect, appVars, commands, events, up, down, link, serverVars, lost>>

\* The thread ends, and what is queued is dropped with its channel.
Stop ==
    /\ ThreadGoes("stopping", "ended")
    /\ lost' = lost \cup ({conn} \X ToSet(commands))
    /\ commands' = <<>>
    /\ UNCHANGED <<events, up, down, link>>

-----------------------------------------------------------------------------
(* The matchmaker's task of a connection, and the network.                 *)

ClientUnchanged == UNCHANGED <<reconnect, appVars, commands, events, threadVars>>

\* The task handles one message at a time, also one that came before a break.
Receive(c) ==
    /\ link[c] \in {"up", "broken"}
    /\ serving[c] = 0
    /\ up[c] # <<>>
    /\ up' = [up EXCEPT ![c] = Tail(@)]
    /\ IF Head(up[c]) = Hello
       THEN down' = [down EXCEPT ![c] = Append(@, <<"hello", 0>>)] /\ UNCHANGED serverVars
       ELSE /\ serving' = [serving EXCEPT ![c] = Head(up[c])]
            /\ handled' = Append(handled, <<c, Head(up[c])>>)
            /\ UNCHANGED down
    /\ UNCHANGED <<link, lost>>
    /\ ClientUnchanged

\* Nothing is sent while a command is handled; then all its answers are, or they
\* are lost with the connection.
Answer(c) ==
    LET n == serving[c] IN
    /\ n # 0
    /\ serving' = [serving EXCEPT ![c] = 0]
    /\ \E answers \in {<<<<"preparing", n>>, <<"ready", n>>>>, <<<<"error", 0>>>>} :
         down' = IF link[c] = "up" THEN [down EXCEPT ![c] = @ \o answers] ELSE down
    /\ UNCHANGED <<up, link, handled, lost>>
    /\ ClientUnchanged

Break(c) ==
    /\ link[c] = "up"
    /\ link' = [link EXCEPT ![c] = "broken"]
    /\ UNCHANGED <<up, down, serverVars, lost>>
    /\ ClientUnchanged

\* The task ends: the matchmaker closes the connection, or notices that it broke.
TaskEnds(c) ==
    /\ link[c] \in {"up", "broken"}
    /\ serving[c] = 0
    /\ link' = [link EXCEPT ![c] = "closed"]
    /\ lost' = lost \cup ({c} \X ToSet(up[c]))
    /\ up' = [up EXCEPT ![c] = <<>>]
    /\ UNCHANGED <<down, serverVars>>
    /\ ClientUnchanged

Run ==
    \/ EnsureSession \/ Connect \/ ConnectFails \/ SendHello \/ SendCommand \/ SendFails
    \/ ReadMessage \/ ReadFails \/ ReadEnds \/ SessionEnds \/ Reconnect \/ Stop

Next ==
    \/ ForwardCommand \/ DrainEvent \/ Run
    \/ \E c \in Connections : Receive(c) \/ Answer(c) \/ Break(c) \/ TaskEnds(c)

\* The session thread and the app's frames run; what has been written to a
\* connection that is down makes its next read or write fail in the end.
Spec == Init /\ [][Next]_vars
FairSpec == Spec /\ WF_vars(Run) /\ WF_vars(DrainEvent)

-----------------------------------------------------------------------------
(* Properties; the other ones are in ClientPromises.                       *)

TypeOK ==
    /\ view \in [connected : BOOLEAN, assignment : {0} \cup Commands,
                 grant_state : {"idle", "preparing", "ready", "failed"}]
    /\ commands \in Seq(Commands)
    /\ conn \in {0} \cup Connections
    /\ lost \in SUBSET (Connections \X ({Hello} \cup Commands))

\* Of a command that was lost with its connection, on the way or in the channel of
\* a thread that stopped, the app is told by the end of that connection.
LossIsReported ==
    \A c \in Connections, n \in Commands : (<<c, n>> \in lost) ~> (c \in told)
=============================================================================
