---------------------------- MODULE ClientPromises ----------------------------
(***************************************************************************)
(* What a game client's matchmaker session promises to the app, on the     *)
(* state of the session that the promises are about.                       *)
(***************************************************************************)
EXTENDS Naturals, Sequences

VARIABLES
    thread,   \* what the session thread is doing
    events,   \* the event channel
    view,     \* MatchmakerClientState
    handled   \* commands the matchmaker handled, each with its connection

\* However often the session reconnects, a command is handled at most once, and
\* those of one connection in the order in which the app queued them.
CommandsRunOnce ==
    \A i, j \in DOMAIN handled : i < j =>
        /\ handled[i][2] # handled[j][2]
        /\ handled[i][1] = handled[j][1] => handled[i][2] < handled[j][2]

\* Once it has applied all events the app takes itself for connected exactly while
\* the session is.
ViewFollowsSession ==
    (events = <<>> /\ thread # "closing") => (view.connected <=> thread \in {"greeting", "open"})
=============================================================================
