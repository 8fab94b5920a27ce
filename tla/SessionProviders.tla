-------------------------- MODULE SessionProviders ---------------------------
(***************************************************************************)
(* Providers that ask a remote service for a server.  Edgegap: a session is *)
(* created, polled until it is linked to a ready deployment, and deleted on *)
(* release.  Gameflow: one call hands out a server, whose address is       *)
(* resolved; release does nothing, the game server shuts itself down.      *)
(* Every call may fail, before or after the service has carried it out.    *)
(* An attempt is one call of allocate, by a request or by its retry.       *)
(***************************************************************************)
EXTENDS Naturals, FiniteSets

CONSTANTS
    Attempts,          \* calls of allocate
    Deployments,       \* game servers the service can hand out
    ReleaseMissingOk,  \* release_missing_ok: deleting what is gone succeeds
    MaxFaults          \* bound: failing calls, and sessions the service ends

\* What is assumed of the constants: the bound is a number.
SessionAssumption ==
    /\ IsFiniteSet(Attempts)
    /\ ReleaseMissingOk \in BOOLEAN
    /\ MaxFaults \in Nat

VARIABLES
    provider,   \* the configured provider
    avoid,      \* servers each attempt is to avoid
    attempt,    \* where each attempt is
    session,    \* the service's session, or handed out server, of each attempt
    link,       \* what the service linked it to, when it became ready
    release,    \* the release job of each granted allocation
    hit,        \* attempts one of whose calls failed
    refused,    \* attempts whose release the service refused
    faults      \* failed calls and ended sessions

sessionVars == <<avoid, attempt, session, link, release, hit, refused, faults>>

\* A deployment without an address or port a client can use.
Unusable == "unusable"
Nothing  == "nothing"

Init ==
    /\ avoid = [a \in Attempts |-> {}]
    /\ attempt = [a \in Attempts |-> "idle"]
    /\ session = [a \in Attempts |-> "none"]
    /\ link = [a \in Attempts |-> Nothing]
    /\ release = [a \in Attempts |-> "none"]
    /\ hit = {} /\ refused = {}
    /\ faults = 0

Goes(a, from, to) ==
    /\ attempt[a] = from
    /\ attempt' = [attempt EXCEPT ![a] = to]

Fault(a) ==
    /\ faults < MaxFaults
    /\ faults' = faults + 1
    /\ hit' = hit \cup {a}

NoFault == UNCHANGED <<faults, hit>>
Local   == UNCHANGED <<avoid, session, link, release, refused>>

-----------------------------------------------------------------------------
(* allocate.                                                               *)

\* A request that does not validate is refused before any call.
Ask(a) ==
    /\ avoid' \in {[avoid EXCEPT ![a] = servers] : servers \in SUBSET Deployments}
    /\ Goes(a, "idle", "creating") \/ Goes(a, "idle", "failed")
    /\ UNCHANGED <<session, link, release, refused>>
    /\ NoFault

CreateSession(a) ==
    /\ provider = "edgegap"
    /\ Goes(a, "creating", "polling")
    /\ session' = [session EXCEPT ![a] = "open"]
    /\ UNCHANGED <<avoid, link, release, refused>>
    /\ NoFault

\* The service was not reached, refused, or its answer was lost or undecodable.
CreateFails(a) ==
    /\ Fault(a)
    /\ Goes(a, "creating", "failed")
    /\ \E after \in {"none", "open"} : session' = [session EXCEPT ![a] = after]
    /\ UNCHANGED <<avoid, link, release, refused>>

\* allocation_from_session of a ready session.
Fits(a) == link[a] \in Deployments \ avoid[a]

PollLeaves(a) ==   \* deviation: the session is not deleted on timeout
    /\ session[a] = "open"
    /\ \/ link[a] # Nothing /\ Goes(a, "polling", IF Fits(a) THEN "granted" ELSE "deleting")
       \/ link[a] = Nothing /\ Goes(a, "polling", "failed")
    /\ Local
    /\ NoFault

\* wait_for_ready_session: a session that is not ready is polled again, which
\* changes nothing, or the deadline has passed.
PollSession(a) ==
    /\ session[a] = "open"
    /\ \/ link[a] # Nothing /\ Goes(a, "polling", IF Fits(a) THEN "granted" ELSE "deleting")
       \/ link[a] = Nothing /\ Goes(a, "polling", "deleting")
    /\ Local
    /\ NoFault

\* The session is gone: the poll answers with an error status.
PollGone(a) ==
    /\ session[a] = "ended"
    /\ Goes(a, "polling", "failed")
    /\ Local
    /\ NoFault

\* The error returns from allocate; nothing deletes the session.
PollFails(a) ==
    /\ Fault(a)
    /\ Goes(a, "polling", "failed")
    /\ Local

\* The session of a failed attempt is deleted; the answer is ignored.
DeleteSession(a) ==
    /\ Goes(a, "deleting", "failed")
    /\ session' = [session EXCEPT ![a] = "ended"]
    /\ UNCHANGED <<avoid, link, release, refused>>
    /\ NoFault

DeleteFails(a) ==
    /\ Fault(a)
    /\ Goes(a, "deleting", "failed")
    /\ \E after \in {session[a], "ended"} : session' = [session EXCEPT ![a] = after]
    /\ UNCHANGED <<avoid, link, release, refused>>

\* Gameflow hands out a server, or has none.
AllocateServer(a) ==
    /\ provider = "gameflow"
    /\ \/ Goes(a, "creating", "failed") /\ UNCHANGED <<session, link>>
       \/ \E server \in Deployments :
            /\ Goes(a, "creating", "resolving")
            /\ session' = [session EXCEPT ![a] = "open"]
            /\ link' = [link EXCEPT ![a] = server]
    /\ UNCHANGED <<avoid, release, refused>>
    /\ NoFault

\* Its address does not resolve, or the request avoids it: the attempt fails and
\* the server stays handed out.
ResolveAddress(a) ==
    /\ \/ Fits(a) /\ Goes(a, "resolving", "granted")
       \/ Goes(a, "resolving", "failed")
    /\ Local
    /\ NoFault

-----------------------------------------------------------------------------
(* The service.                                                            *)

SessionReady(a) ==
    /\ provider = "edgegap"
    /\ session[a] = "open"
    /\ link[a] = Nothing
    /\ \E to \in Deployments \cup {Unusable} : link' = [link EXCEPT ![a] = to]
    /\ UNCHANGED <<avoid, attempt, session, release, refused>>
    /\ NoFault

SessionEnds(a) ==
    /\ session[a] = "open"
    /\ faults < MaxFaults
    /\ faults' = faults + 1
    /\ session' = [session EXCEPT ![a] = "ended"]
    /\ UNCHANGED <<avoid, attempt, link, release, hit, refused>>

-----------------------------------------------------------------------------
(* release, called by the lifecycle worker until it succeeds.              *)

WantRelease(a) ==
    /\ attempt[a] = "granted"
    /\ release[a] = "none"
    /\ release' = [release EXCEPT ![a] = "wanted"]
    /\ UNCHANGED <<avoid, attempt, session, link, refused>>
    /\ NoFault

ReleaseStrictly(a) ==   \* deviation: only a session that is there can be released
    /\ release[a] = "wanted"
    /\ \/ provider = "gameflow" /\ release' = [release EXCEPT ![a] = "done"]
                                /\ UNCHANGED <<session, refused>>
       \/ /\ provider = "edgegap"
          /\ session' = [session EXCEPT ![a] = "ended"]
          /\ IF session[a] = "open"
             THEN release' = [release EXCEPT ![a] = "done"] /\ UNCHANGED refused
             ELSE refused' = refused \cup {a} /\ UNCHANGED release
    /\ UNCHANGED <<avoid, attempt, link>>
    /\ NoFault

Release(a) ==
    /\ release[a] = "wanted"
    /\ \/ provider = "gameflow" /\ release' = [release EXCEPT ![a] = "done"]
                                /\ UNCHANGED <<session, refused>>
       \/ /\ provider = "edgegap"
          /\ session' = [session EXCEPT ![a] = "ended"]
          /\ IF session[a] = "open" \/ ReleaseMissingOk
             THEN release' = [release EXCEPT ![a] = "done"] /\ UNCHANGED refused
             ELSE refused' = refused \cup {a} /\ UNCHANGED release
    /\ UNCHANGED <<avoid, attempt, link>>
    /\ NoFault

\* The deletion is not carried out, or it is and its answer is lost.
ReleaseFails(a) ==
    /\ provider = "edgegap"
    /\ Fault(a)
    /\ release[a] = "wanted"
    /\ \E after \in {session[a], "ended"} : session' = [session EXCEPT ![a] = after]
    /\ UNCHANGED <<avoid, attempt, link, release, refused>>

Allocate(a) ==
    \/ CreateSession(a) \/ PollSession(a) \/ PollGone(a) \/ DeleteSession(a)
    \/ AllocateServer(a) \/ ResolveAddress(a)

Next ==
    /\ provider \in {"edgegap", "gameflow"}
    /\ UNCHANGED provider
    /\ \E a \in Attempts :
         \/ Ask(a) \/ Allocate(a) \/ CreateFails(a) \/ PollFails(a) \/ DeleteFails(a)
         \/ SessionReady(a) \/ SessionEnds(a)
         \/ WantRelease(a) \/ Release(a) \/ ReleaseFails(a)

-----------------------------------------------------------------------------
(* Properties.                                                             *)

TypeOK ==
    /\ avoid \in [Attempts -> SUBSET Deployments]
    /\ attempt \in [Attempts -> {"idle", "creating", "polling", "deleting", "resolving",
                                 "granted", "failed"}]
    /\ session \in [Attempts -> {"none", "open", "ended"}]
    /\ link \in [Attempts -> Deployments \cup {Unusable, Nothing}]
    /\ release \in [Attempts -> {"none", "wanted", "done"}]
    /\ hit \in SUBSET Attempts
    /\ refused \in SUBSET Attempts
    /\ faults \in 0..MaxFaults

\* What makes the two properties inductive: an attempt that has not created its
\* session has none, only Gameflow resolves addresses, and only what was granted
\* is released.
Stages ==
    \A a \in Attempts :
        /\ attempt[a] \in {"idle", "creating"} => session[a] = "none"
        /\ attempt[a] = "resolving" => provider = "gameflow"
        /\ release[a] # "none" => attempt[a] = "granted"

\* An Edgegap attempt that failed leaves no session behind, unless one of its
\* calls failed: neither a timeout nor a deployment it cannot use leaks a seat.
FailedLeavesNoSession ==
    provider = "edgegap" =>
        \A a \in Attempts \ hit : attempt[a] = "failed" => session[a] # "open"

\* With release_missing_ok a release is never refused, even when an earlier one
\* was carried out and its answer lost, or the service ended the session itself;
\* and what has been released is gone.
ReleaseSettles ==
    /\ ReleaseMissingOk => refused = {}
    /\ provider = "edgegap" =>
         \A a \in Attempts : release[a] = "done" => session[a] = "ended"
=============================================================================
