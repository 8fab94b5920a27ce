--------------------------- MODULE ProviderRouter ----------------------------
(***************************************************************************)
(* The providers behind the matchmaker.  One is configured, for good: the  *)
(* configured static list, live static servers over NATS, Edgegap, its     *)
(* mock, or Gameflow.  allocate and release are those of that provider.    *)
(***************************************************************************)
CONSTANTS
    Servers, Requests, Rooms, Capacity, Latencies, MaxEvents,
    Attempts, Deployments, ReleaseMissingOk, MaxFaults

VARIABLES
    provider,
    request, at, snapshot, unread, chosen, ready, rooms, reports, drained, events,
    excused, split,
    avoid, attempt, session, link, release, hit, refused, faults

Placement == INSTANCE CapacityPlacement
Sessions  == INSTANCE SessionProviders

ASSUME RouterAssumption ==
    Placement!PlacementAssumption /\ Sessions!SessionAssumption

placementVars == <<request, at, snapshot, unread, chosen, ready, rooms, reports, drained,
                   events, excused, split>>
sessionVars == <<avoid, attempt, session, link, release, hit, refused, faults>>
vars == <<provider, placementVars, sessionVars>>

Init ==
    /\ provider \in {"static", "nats_static", "edgegap", "edgegap_mock", "gameflow"}
    /\ Placement!Init
    /\ Sessions!Init

Next ==
    \/ Placement!Next /\ UNCHANGED sessionVars
    \/ Sessions!Next /\ UNCHANGED placementVars

Spec == Init /\ [][Next]_vars

-----------------------------------------------------------------------------
(* The properties of the parts.                                            *)

\* A server never carries more players than it can, unless a request was decided
\* on an old report or for a whole roster.
SeatsAreBooked == Placement!SeatsAreBooked

\* An explicit room is on two servers only if a request could not see or not use
\* the one that had it, or saw it where it was closed.
RoomsStayTogether == Placement!RoomsStayTogether

\* A failed Edgegap attempt none of whose calls failed leaves no session.
FailedLeavesNoSession == Sessions!FailedLeavesNoSession

\* Releases are repeatable, and what is released is gone.
ReleaseSettles == Sessions!ReleaseSettles

\* What is inductive about the remote providers.
IndInv ==
    /\ Sessions!TypeOK
    /\ Sessions!Stages
    /\ FailedLeavesNoSession
    /\ ReleaseSettles
=============================================================================
