-------------------------- MODULE ServerAssignments --------------------------
(***************************************************************************)
(* update_server_assignments: the optimistic read-modify-write loop on one *)
(* key of the assignments_by_server bucket.  Matchmaker tasks insert and   *)
(* remove assignments, the server's bridge removes what it has prepared,   *)
(* drains clear the set and the lifecycle worker removes; all of them go   *)
(* through this loop.                                                      *)
(*                                                                         *)
(* The key's latest entry is a set of assignments with the revision that   *)
(* wrote it; revision 0 stands for no entry (never written, or expired).   *)
(***************************************************************************)
EXTENDS Naturals, FiniteSets

CONSTANTS
    Callers,      \* tasks that each make one call
    Items,        \* assignments
    MaxTries,     \* turns of the loop
    MaxExpiries,  \* bound: times the entry expires
    MaxFaults     \* bound: store operations that fail or whose answer is lost

ASSUME CasAssumption ==
    /\ IsFiniteSet(Callers)
    /\ MaxTries \in Nat \ {0}
    /\ MaxExpiries \in Nat
    /\ MaxFaults \in Nat

VARIABLES
    entry,      \* value and revision of the key
    revisions,  \* revisions handed out so far
    pc,         \* where each caller is
    op,         \* the update each caller applies
    tries,      \* failed turns of each caller's loop
    copy,       \* the entry each caller read
    result,     \* what each call returned
    expiries,   \* times the entry expired
    faults,     \* store operations that failed
    changes     \* history: revisions + expiries when each caller last read

callerVars == <<pc, op, tries, copy, result, changes>>
vars == <<entry, revisions, callerVars, expiries, faults>>

Abstract == INSTANCE PendingSet WITH pending <- entry.value

NoEntry == [value |-> {}, revision |-> 0]
Entries == [value : SUBSET Items, revision : Nat]

Init ==
    /\ entry = NoEntry
    /\ revisions = 0
    /\ pc = [c \in Callers |-> "idle"]
    /\ op = [c \in Callers |-> Abstract!NoOp]
    /\ tries = [c \in Callers |-> 0]
    /\ copy = [c \in Callers |-> NoEntry]
    /\ result = [c \in Callers |-> "none"]
    /\ expiries = 0
    /\ faults = 0
    /\ changes = [c \in Callers |-> 0]

Step(c, from, to) ==
    /\ pc[c] = from
    /\ pc' = [pc EXCEPT ![c] = to]

Return(c, from, r) ==
    /\ Step(c, from, "done")
    /\ result' = [result EXCEPT ![c] = r]

\* put_assignment, delete_assignment_for_server or cancel_assignments_for_server.
Call(c, o) ==
    /\ Step(c, "idle", "read")
    /\ op' = [op EXCEPT ![c] = o]
    /\ UNCHANGED <<entry, revisions, tries, copy, result, expiries, faults, changes>>

ReadEntryLater(c) ==   \* deviation: the revision is read after the value
    /\ \/ /\ Step(c, "read", "read")
          /\ copy' = [copy EXCEPT ![c].value = entry.value]
       \/ /\ Step(c, "read", "write")
          /\ copy' = [copy EXCEPT ![c].revision = entry.revision]
    /\ changes' = [changes EXCEPT ![c] = revisions + expiries]
    /\ UNCHANGED <<entry, revisions, op, tries, result, expiries, faults>>

ReadEntry(c) ==
    /\ Step(c, "read", "write")
    /\ copy' = [copy EXCEPT ![c] = entry]
    /\ changes' = [changes EXCEPT ![c] = revisions + expiries]
    /\ UNCHANGED <<entry, revisions, op, tries, result, expiries, faults>>

\* Reading the entry fails: the ? operator returns at once.
ReadFails(c) ==
    /\ faults < MaxFaults
    /\ faults' = faults + 1
    /\ Return(c, "read", "error")
    /\ UNCHANGED <<entry, revisions, op, tries, copy, expiries, changes>>

\* The store accepts an update (or a create) of the revision the caller read.
StoreUpdate(c) ==
    /\ entry' = [value |-> Abstract!Effect(op[c], copy[c].value), revision |-> revisions + 1]
    /\ revisions' = revisions + 1

WriteEntryBlindly(c) ==   \* deviation: put instead of update(revision)
    /\ StoreUpdate(c)
    /\ Return(c, "write", "ok")
    /\ UNCHANGED <<op, tries, copy, expiries, faults, changes>>

WriteEntry(c) ==
    /\ entry.revision = copy[c].revision
    /\ StoreUpdate(c)
    /\ Return(c, "write", "ok")
    /\ UNCHANGED <<op, tries, copy, expiries, faults, changes>>

\* A turn is lost; after MaxTries of them the call gives up.
TryAgain(c) ==
    /\ tries' = [tries EXCEPT ![c] = @ + 1]
    /\ IF tries[c] + 1 < MaxTries
         THEN Step(c, "write", "read") /\ UNCHANGED result
         ELSE Return(c, "write", "error")

WriteRejectedAtAnyTime(c) ==   \* deviation: turns are lost without a conflict
    /\ TryAgain(c)
    /\ UNCHANGED <<entry, revisions, op, copy, expiries, faults, changes>>

WriteRejected(c) ==
    /\ entry.revision # copy[c].revision
    /\ TryAgain(c)
    /\ UNCHANGED <<entry, revisions, op, copy, expiries, faults, changes>>

\* The write fails for another reason, before or after the store applied it.
WriteFails(c) ==
    /\ faults < MaxFaults
    /\ faults' = faults + 1
    /\ TryAgain(c)
    /\ \/ UNCHANGED <<entry, revisions>>
       \/ entry.revision = copy[c].revision /\ StoreUpdate(c)
    /\ UNCHANGED <<op, copy, expiries, changes>>

\* Nothing has been written to the key for assignments_secs.
Expire ==
    /\ entry.revision # 0
    /\ expiries < MaxExpiries
    /\ expiries' = expiries + 1
    /\ entry' = NoEntry
    /\ UNCHANGED <<revisions, callerVars, faults>>

CallStep(c) == ReadEntry(c) \/ WriteEntry(c) \/ WriteRejected(c)

Next ==
    \/ \E c \in Callers : \/ \E o \in Abstract!Ops : Call(c, o)
                          \/ CallStep(c) \/ ReadFails(c) \/ WriteFails(c)
    \/ Expire

Spec == Init /\ [][Next]_vars

-----------------------------------------------------------------------------
(* Properties.                                                             *)

TypeOK ==
    /\ entry \in Entries
    /\ revisions \in Nat
    /\ pc \in [Callers -> {"idle", "read", "write", "done"}]
    /\ op \in [Callers -> Abstract!Ops \cup {Abstract!NoOp}]
    /\ tries \in [Callers -> 0..MaxTries]
    /\ copy \in [Callers -> Entries]
    /\ result \in [Callers -> {"none", "ok", "error"}]
    /\ expiries \in 0..MaxExpiries
    /\ faults \in 0..MaxFaults
    /\ changes \in [Callers -> Nat]

\* A revision identifies the set it wrote: whoever read the current revision has
\* read the current set.
RevisionIdentifiesValue ==
    \A c \in Callers :
        copy[c].revision = entry.revision => copy[c].value = entry.value

\* No update is lost: the loop implements a set that changes atomically.
ImplementsPendingSet == Abstract!Spec

\* A call gives up only under contention: every turn it lost was lost to another
\* call's write, to the expiry of the entry, or to a failing store.
LostTurnsHaveCauses ==
    \A c \in Callers : tries[c] <= revisions + expiries + faults

\* What the proofs need besides: revisions are handed out once, an entry that is
\* absent is empty, a caller that is to write has seen all changes but those that
\* changed the revision since, and op, tries and result follow pc.
RevisionsGrow ==
    /\ entry.revision <= revisions
    /\ entry.revision = 0 => entry.value = {}
    /\ \A c \in Callers :
         /\ copy[c].revision <= revisions
         /\ copy[c].revision = 0 => copy[c].value = {}

ChangesAreSeen ==
    \A c \in Callers : pc[c] = "write" =>
        /\ tries[c] <= changes[c] + faults
        /\ changes[c] <= revisions + expiries
        /\ entry.revision # copy[c].revision => changes[c] < revisions + expiries

CallsInProgress ==
    \A c \in Callers :
        /\ pc[c] = "idle" <=> op[c] = Abstract!NoOp
        /\ pc[c] = "done" <=> result[c] # "none"
        /\ tries[c] = MaxTries => pc[c] = "done"

IndInv ==
    /\ TypeOK
    /\ RevisionIdentifiesValue
    /\ RevisionsGrow
    /\ LostTurnsHaveCauses
    /\ ChangesAreSeen
    /\ CallsInProgress
=============================================================================
