----------------------- MODULE ServerAssignmentsProofs -----------------------
(***************************************************************************)
(* Proofs about the compare-and-set loop, for every number of callers,     *)
(* assignments, turns, expiries and faults: its inductive invariant, and   *)
(* that it implements a set that changes atomically.                       *)
(***************************************************************************)
EXTENDS ServerAssignments, TLAPS

\* The initial states satisfy the inductive invariant.
LEMMA InitInv == Init => IndInv
<1> SUFFICES ASSUME Init PROVE IndInv
    OBVIOUS
<1> USE CasAssumption DEF Init
<1>1. TypeOK
    BY DEF TypeOK, Entries, NoEntry
<1>2. RevisionIdentifiesValue
    BY DEF RevisionIdentifiesValue
<1>3. RevisionsGrow
    BY DEF RevisionsGrow, NoEntry
<1>4. LostTurnsHaveCauses
    BY DEF LostTurnsHaveCauses
<1>5. ChangesAreSeen
    BY DEF ChangesAreSeen
<1>6. CallsInProgress
    BY DEF CallsInProgress
<1> QED
    BY <1>1, <1>2, <1>3, <1>4, <1>5, <1>6 DEF IndInv

\* NoOp is not an operation a call may carry.
LEMMA NoOpIsNoOp == Abstract!NoOp \notin Abstract!Ops
BY DEF Abstract!NoOp, Abstract!Ops

\* An update closure maps sets of assignments to sets of assignments.
LEMMA EffectType ==
    ASSUME NEW o \in Abstract!Ops, NEW set \in SUBSET Items
    PROVE  Abstract!Effect(o, set) \in SUBSET Items
<1>1. CASE o.kind = "insert"
    <2>1. o.item \in Items
        BY <1>1 DEF Abstract!Ops
    <2> QED
        BY <1>1, <2>1 DEF Abstract!Effect
<1>2. CASE o.kind # "insert"
    BY <1>2 DEF Abstract!Effect
<1> QED
    BY <1>1, <1>2

\* A store update hands out a revision nobody has read before.
LEMMA StoreUpdateFresh ==
    ASSUME IndInv, NEW c \in Callers, op[c] \in Abstract!Ops, StoreUpdate(c)
    PROVE  /\ entry' \in Entries
           /\ entry'.revision = revisions + 1
           /\ revisions' = revisions + 1
           /\ revisions' \in Nat
           /\ \A d \in Callers : copy[d].revision < entry'.revision
<1>1. TypeOK /\ RevisionsGrow
    BY DEF IndInv
<1>2. copy[c].value \in SUBSET Items
    BY <1>1 DEF TypeOK, Entries
<1>3. Abstract!Effect(op[c], copy[c].value) \in SUBSET Items
    BY <1>2, EffectType
<1>4. revisions \in Nat /\ \A d \in Callers : copy[d].revision \in Nat
    BY <1>1 DEF TypeOK, Entries
<1> QED
    BY <1>1, <1>3, <1>4 DEF StoreUpdate, Entries, RevisionsGrow

\* Starting a call preserves the inductive invariant.
LEMMA CallInv ==
    ASSUME IndInv, NEW c \in Callers, NEW o \in Abstract!Ops, Call(c, o)
    PROVE  IndInv'
<1>a. /\ TypeOK /\ RevisionIdentifiesValue /\ RevisionsGrow
      /\ LostTurnsHaveCauses /\ ChangesAreSeen /\ CallsInProgress
    BY DEF IndInv
<1>b. o # Abstract!NoOp
    BY NoOpIsNoOp
<1>1. TypeOK'
    BY <1>a DEF TypeOK, Call, Step
<1>2. RevisionIdentifiesValue'
    BY <1>a DEF RevisionIdentifiesValue, Call
<1>3. RevisionsGrow'
    BY <1>a DEF RevisionsGrow, Call
<1>4. LostTurnsHaveCauses'
    BY <1>a DEF LostTurnsHaveCauses, Call
<1>5. ChangesAreSeen'
    BY <1>a DEF ChangesAreSeen, Call, Step, TypeOK
<1>6. CallsInProgress'
    BY <1>a, <1>b DEF CallsInProgress, Call, Step, TypeOK
<1> QED
    BY <1>1, <1>2, <1>3, <1>4, <1>5, <1>6 DEF IndInv

\* Reading the entry preserves the inductive invariant.
LEMMA ReadInv ==
    ASSUME IndInv, NEW c \in Callers, ReadEntry(c)
    PROVE  IndInv'
<1>a. /\ TypeOK /\ RevisionIdentifiesValue /\ RevisionsGrow
      /\ LostTurnsHaveCauses /\ ChangesAreSeen /\ CallsInProgress
    BY DEF IndInv
<1>1. TypeOK'
    BY <1>a DEF TypeOK, ReadEntry, Step
<1>2. RevisionIdentifiesValue'
    BY <1>a DEF RevisionIdentifiesValue, ReadEntry, TypeOK
<1>3. RevisionsGrow'
    BY <1>a DEF RevisionsGrow, ReadEntry, TypeOK
<1>4. LostTurnsHaveCauses'
    BY <1>a DEF LostTurnsHaveCauses, ReadEntry
<1>5. ChangesAreSeen'
    BY <1>a DEF ChangesAreSeen, LostTurnsHaveCauses, ReadEntry, Step, TypeOK
<1>6. CallsInProgress'
    BY <1>a DEF CallsInProgress, ReadEntry, Step, TypeOK
<1> QED
    BY <1>1, <1>2, <1>3, <1>4, <1>5, <1>6 DEF IndInv

\* A failed read preserves the inductive invariant.
LEMMA ReadFailsInv ==
    ASSUME IndInv, NEW c \in Callers, ReadFails(c)
    PROVE  IndInv'
<1>a. /\ TypeOK /\ RevisionIdentifiesValue /\ RevisionsGrow
      /\ LostTurnsHaveCauses /\ ChangesAreSeen /\ CallsInProgress
    BY DEF IndInv
<1>1. TypeOK'
    BY <1>a, CasAssumption DEF TypeOK, ReadFails, Return, Step
<1>2. RevisionIdentifiesValue'
    BY <1>a DEF RevisionIdentifiesValue, ReadFails
<1>3. RevisionsGrow'
    BY <1>a DEF RevisionsGrow, ReadFails
<1>4. LostTurnsHaveCauses'
    BY <1>a, CasAssumption DEF LostTurnsHaveCauses, ReadFails, TypeOK
<1>5. ChangesAreSeen'
    BY <1>a, CasAssumption DEF ChangesAreSeen, ReadFails, Return, Step, TypeOK
<1>6. CallsInProgress'
    BY <1>a DEF CallsInProgress, ReadFails, Return, Step, TypeOK
<1> QED
    BY <1>1, <1>2, <1>3, <1>4, <1>5, <1>6 DEF IndInv

\* A successful write preserves the inductive invariant: it makes every copy stale.
LEMMA WriteInv ==
    ASSUME IndInv, NEW c \in Callers, WriteEntry(c)
    PROVE  IndInv'
<1>a. /\ TypeOK /\ RevisionIdentifiesValue /\ RevisionsGrow
      /\ LostTurnsHaveCauses /\ ChangesAreSeen /\ CallsInProgress
    BY DEF IndInv
<1>b. op[c] \in Abstract!Ops
    BY <1>a DEF TypeOK, CallsInProgress, WriteEntry, Return, Step
<1>c. /\ entry' \in Entries /\ entry'.revision = revisions + 1
      /\ revisions' = revisions + 1 /\ revisions' \in Nat
      /\ \A d \in Callers : copy[d].revision < entry'.revision
    BY <1>b, StoreUpdateFresh DEF WriteEntry
<1>1. TypeOK'
    BY <1>a, <1>c DEF TypeOK, WriteEntry, Return, Step
<1>2. RevisionIdentifiesValue'
    BY <1>a, <1>c DEF RevisionIdentifiesValue, WriteEntry, TypeOK, Entries
<1>3. RevisionsGrow'
    BY <1>a, <1>c DEF RevisionsGrow, WriteEntry, TypeOK, Entries
<1>4. LostTurnsHaveCauses'
    BY <1>a, <1>c DEF LostTurnsHaveCauses, WriteEntry, TypeOK
<1>5. ChangesAreSeen'
    BY <1>a, <1>c DEF ChangesAreSeen, WriteEntry, Return, Step, TypeOK
<1>6. CallsInProgress'
    BY <1>a DEF CallsInProgress, WriteEntry, Return, Step, TypeOK
<1> QED
    BY <1>1, <1>2, <1>3, <1>4, <1>5, <1>6 DEF IndInv

\* A lost turn: the call ends exactly when it was the last one.
LEMMA TryAgainKeeps ==
    ASSUME IndInv, NEW c \in Callers, TryAgain(c), UNCHANGED op
    PROVE  /\ pc[c] = "write"
           /\ pc' \in [Callers -> {"idle", "read", "write", "done"}]
           /\ tries' \in [Callers -> 0..MaxTries]
           /\ result' \in [Callers -> {"none", "ok", "error"}]
           /\ pc'[c] # "write"
           /\ tries'[c] = tries[c] + 1
           /\ \A d \in Callers \ {c} : tries'[d] = tries[d] /\ pc'[d] = pc[d]
           /\ CallsInProgress'
<1>a. TypeOK /\ CallsInProgress
    BY DEF IndInv
<1>b. MaxTries \in Nat /\ MaxTries > 0
    BY CasAssumption
<1>c. pc[c] = "write" /\ pc'[c] \in {"read", "done"} /\ tries'[c] = tries[c] + 1
    BY <1>a DEF TryAgain, Step, Return, TypeOK
<1>d. tries[c] \in 0..MaxTries /\ tries[c] # MaxTries
    BY <1>a, <1>c DEF TypeOK, CallsInProgress
<1>1. /\ pc' \in [Callers -> {"idle", "read", "write", "done"}]
      /\ tries' \in [Callers -> 0..MaxTries]
      /\ result' \in [Callers -> {"none", "ok", "error"}]
    BY <1>a, <1>b, <1>d DEF TryAgain, Step, Return, TypeOK
<1>2. \A d \in Callers \ {c} : tries'[d] = tries[d] /\ pc'[d] = pc[d]
    BY <1>a DEF TryAgain, Step, Return, TypeOK
<1>3. CallsInProgress'
    BY <1>a, <1>b, <1>c, <1>d DEF CallsInProgress, TryAgain, Step, Return, TypeOK
<1> QED
    BY <1>1, <1>2, <1>3, <1>c

\* A rejected write preserves the inductive invariant: the change it lost to had
\* not been seen when the entry was read.
LEMMA RejectedInv ==
    ASSUME IndInv, NEW c \in Callers, WriteRejected(c)
    PROVE  IndInv'
<1>a. /\ TypeOK /\ RevisionIdentifiesValue /\ RevisionsGrow
      /\ LostTurnsHaveCauses /\ ChangesAreSeen /\ CallsInProgress
    BY DEF IndInv
<1>b. /\ pc[c] = "write"
      /\ pc' \in [Callers -> {"idle", "read", "write", "done"}]
      /\ tries' \in [Callers -> 0..MaxTries]
      /\ result' \in [Callers -> {"none", "ok", "error"}]
      /\ pc'[c] # "write"
      /\ tries'[c] = tries[c] + 1
      /\ \A d \in Callers \ {c} : tries'[d] = tries[d] /\ pc'[d] = pc[d]
      /\ CallsInProgress'
    BY TryAgainKeeps DEF WriteRejected
<1>c. /\ entry' = entry /\ revisions' = revisions /\ copy' = copy /\ op' = op
      /\ expiries' = expiries /\ faults' = faults /\ changes' = changes
      /\ entry.revision # copy[c].revision
    BY DEF WriteRejected
<1>1. TypeOK'
    BY <1>a, <1>b, <1>c DEF TypeOK
<1>2. RevisionIdentifiesValue'
    BY <1>a, <1>c DEF RevisionIdentifiesValue
<1>3. RevisionsGrow'
    BY <1>a, <1>c DEF RevisionsGrow
<1>4. LostTurnsHaveCauses'
    <2>1. tries[c] + 1 <= revisions + expiries + faults
        BY <1>a, <1>b, <1>c, CasAssumption DEF ChangesAreSeen, TypeOK
    <2> QED
        BY <1>a, <1>b, <1>c, <2>1 DEF LostTurnsHaveCauses
<1>5. ChangesAreSeen'
    BY <1>a, <1>b, <1>c DEF ChangesAreSeen
<1> QED
    BY <1>1, <1>2, <1>3, <1>4, <1>5, <1>b DEF IndInv

\* A failed write preserves the inductive invariant, whether or not the store
\* applied it: the turn is charged to the fault.
LEMMA WriteFailsInv ==
    ASSUME IndInv, NEW c \in Callers, WriteFails(c)
    PROVE  IndInv'
<1>a. /\ TypeOK /\ RevisionIdentifiesValue /\ RevisionsGrow
      /\ LostTurnsHaveCauses /\ ChangesAreSeen /\ CallsInProgress
    BY DEF IndInv
<1>b. /\ pc[c] = "write"
      /\ pc' \in [Callers -> {"idle", "read", "write", "done"}]
      /\ tries' \in [Callers -> 0..MaxTries]
      /\ result' \in [Callers -> {"none", "ok", "error"}]
      /\ pc'[c] # "write"
      /\ tries'[c] = tries[c] + 1
      /\ \A d \in Callers \ {c} : tries'[d] = tries[d] /\ pc'[d] = pc[d]
      /\ CallsInProgress'
    BY TryAgainKeeps DEF WriteFails
<1>c. /\ copy' = copy /\ op' = op /\ expiries' = expiries /\ changes' = changes
      /\ faults' = faults + 1 /\ faults' \in 0..MaxFaults
    BY <1>a, CasAssumption DEF WriteFails, TypeOK
<1>d. op[c] \in Abstract!Ops
    BY <1>a, <1>b DEF TypeOK, CallsInProgress
<1>e. CASE UNCHANGED <<entry, revisions>>
    <2>1. TypeOK'
        BY <1>a, <1>b, <1>c, <1>e DEF TypeOK
    <2>2. RevisionIdentifiesValue' /\ RevisionsGrow'
        BY <1>a, <1>c, <1>e DEF RevisionIdentifiesValue, RevisionsGrow
    <2>3. LostTurnsHaveCauses'
        BY <1>a, <1>b, <1>c, <1>e, CasAssumption DEF LostTurnsHaveCauses, TypeOK
    <2>4. ChangesAreSeen'
        BY <1>a, <1>b, <1>c, <1>e, CasAssumption DEF ChangesAreSeen, TypeOK
    <2> QED
        BY <2>1, <2>2, <2>3, <2>4, <1>b DEF IndInv
<1>f. CASE StoreUpdate(c)
    <2>a. /\ entry' \in Entries /\ entry'.revision = revisions + 1
          /\ revisions' = revisions + 1 /\ revisions' \in Nat
          /\ \A d \in Callers : copy[d].revision < entry'.revision
        BY <1>d, <1>f, StoreUpdateFresh
    <2>1. TypeOK'
        BY <1>a, <1>b, <1>c, <2>a DEF TypeOK
    <2>2. RevisionIdentifiesValue'
        BY <1>a, <1>c, <2>a DEF RevisionIdentifiesValue, TypeOK, Entries
    <2>3. RevisionsGrow'
        BY <1>a, <1>c, <2>a DEF RevisionsGrow, TypeOK, Entries
    <2>4. LostTurnsHaveCauses'
        BY <1>a, <1>b, <1>c, <2>a, CasAssumption DEF LostTurnsHaveCauses, TypeOK
    <2>5. ChangesAreSeen'
        BY <1>a, <1>b, <1>c, <2>a, CasAssumption DEF ChangesAreSeen, TypeOK
    <2> QED
        BY <2>1, <2>2, <2>3, <2>4, <2>5, <1>b DEF IndInv
<1> QED
    BY <1>e, <1>f DEF WriteFails

\* An expiry preserves the inductive invariant: revision 0 stands for no entry.
LEMMA ExpireInv ==
    ASSUME IndInv, Expire
    PROVE  IndInv'
<1>a. /\ TypeOK /\ RevisionIdentifiesValue /\ RevisionsGrow
      /\ LostTurnsHaveCauses /\ ChangesAreSeen /\ CallsInProgress
    BY DEF IndInv
<1>b. /\ entry'.revision = 0 /\ entry'.value = {} /\ entry' \in Entries
      /\ expiries' = expiries + 1 /\ expiries' \in 0..MaxExpiries
      /\ UNCHANGED <<revisions, pc, op, tries, copy, result, changes, faults>>
    BY <1>a, CasAssumption DEF Expire, NoEntry, Entries, TypeOK, callerVars
<1>1. TypeOK'
    BY <1>a, <1>b DEF TypeOK
<1>2. RevisionIdentifiesValue' /\ RevisionsGrow'
    BY <1>a, <1>b DEF RevisionIdentifiesValue, RevisionsGrow, TypeOK
<1>3. LostTurnsHaveCauses'
    BY <1>a, <1>b, CasAssumption DEF LostTurnsHaveCauses, TypeOK
<1>4. ChangesAreSeen'
    BY <1>a, <1>b, CasAssumption DEF ChangesAreSeen, TypeOK
<1>5. CallsInProgress'
    BY <1>a, <1>b DEF CallsInProgress
<1> QED
    BY <1>1, <1>2, <1>3, <1>4, <1>5 DEF IndInv

\* Every step preserves the inductive invariant.
LEMMA StepInv == IndInv /\ [Next]_vars => IndInv'
<1> SUFFICES ASSUME IndInv, [Next]_vars PROVE IndInv'
    OBVIOUS
<1>1. ASSUME NEW c \in Callers, NEW o \in Abstract!Ops, Call(c, o) PROVE IndInv'
    BY <1>1, CallInv
<1>2. ASSUME NEW c \in Callers, CallStep(c) PROVE IndInv'
    BY <1>2, ReadInv, WriteInv, RejectedInv DEF CallStep
<1>3. ASSUME NEW c \in Callers, ReadFails(c) PROVE IndInv'
    BY <1>3, ReadFailsInv
<1>4. ASSUME NEW c \in Callers, WriteFails(c) PROVE IndInv'
    BY <1>4, WriteFailsInv
<1>5. CASE Expire
    BY <1>5, ExpireInv
<1>6. CASE UNCHANGED vars
    BY <1>6 DEF vars, callerVars, IndInv, TypeOK, RevisionIdentifiesValue, RevisionsGrow,
                LostTurnsHaveCauses, ChangesAreSeen, CallsInProgress
<1> QED
    BY <1>1, <1>2, <1>3, <1>4, <1>5, <1>6 DEF Next

\* The inductive invariant holds throughout: revisions only grow and identify what
\* they wrote, and every lost turn of the loop has been paid for by a change of the
\* entry or a fault (update_server_assignments).
THEOREM CasIndInv == Spec => []IndInv
<1>1. Init => IndInv
    BY InitInv
<1>2. IndInv /\ [Next]_vars => IndInv'
    BY StepInv
<1> QED
    BY <1>1, <1>2, PTL DEF Spec

\* Type correctness; in particular no call makes more than MaxTries turns.
THEOREM CasTypeOK == Spec => []TypeOK
<1>1. IndInv => TypeOK
    BY DEF IndInv
<1> QED
    BY <1>1, CasIndInv, PTL

\* The revision a caller presents stands for the set it has read.
THEOREM CasRevisionIdentifiesValue == Spec => []RevisionIdentifiesValue
<1>1. IndInv => RevisionIdentifiesValue
    BY DEF IndInv
<1> QED
    BY <1>1, CasIndInv, PTL

\* A call that gives up lost each of its turns to a change of the entry or a fault.
THEOREM CasLostTurnsHaveCauses == Spec => []LostTurnsHaveCauses
<1>1. IndInv => LostTurnsHaveCauses
    BY DEF IndInv
<1> QED
    BY <1>1, CasIndInv, PTL

\* A call that has started and not returned runs in the abstract set too.
LEMMA RunsAbstractly ==
    ASSUME IndInv, NEW c \in Callers, pc[c] \in {"read", "write"}
    PROVE  Abstract!Running(c)
BY DEF IndInv, CallsInProgress, Abstract!Running

\* An accepted update applies the operation to the current set, not to a stale copy.
LEMMA UpdateIsCurrent ==
    ASSUME IndInv, NEW c \in Callers, entry.revision = copy[c].revision, StoreUpdate(c)
    PROVE  entry'.value = Abstract!Effect(op[c], entry.value)
<1>1. copy[c].value = entry.value
    BY DEF IndInv, RevisionIdentifiesValue
<1> QED
    BY <1>1 DEF StoreUpdate

\* A lost turn either leaves the result alone or makes it an error.
LEMMA LostTurnResult ==
    ASSUME IndInv, NEW c \in Callers, TryAgain(c)
    PROVE  /\ pc[c] = "write"
           /\ result' = result \/ result' = [result EXCEPT ![c] = "error"]
BY DEF TryAgain, Step, Return

\* Every step of the loop is a step of the abstract set or leaves it alone.
LEMMA StepRefines == IndInv /\ [Next]_vars => [Abstract!Next]_<<entry.value, op, result>>
<1> SUFFICES ASSUME IndInv, [Next]_vars
             PROVE  Abstract!Next \/ UNCHANGED <<entry.value, op, result>>
    OBVIOUS
<1>1. ASSUME NEW c \in Callers, NEW o \in Abstract!Ops, Call(c, o)
      PROVE  Abstract!Next
    <2>1. op[c] = Abstract!NoOp
        BY <1>1 DEF IndInv, CallsInProgress, Call, Step
    <2>2. Abstract!Start(c, o)
        BY <1>1, <2>1 DEF Call, Abstract!Start
    <2> QED
        BY <2>2 DEF Abstract!Next
<1>2. ASSUME NEW c \in Callers, ReadEntry(c)
      PROVE  UNCHANGED <<entry.value, op, result>>
    BY <1>2 DEF ReadEntry
<1>3. ASSUME NEW c \in Callers, WriteEntry(c)
      PROVE  Abstract!Next
    <2>1. Abstract!Running(c)
        BY <1>3, RunsAbstractly DEF WriteEntry, Return, Step
    <2>2. entry'.value = Abstract!Effect(op[c], entry.value)
        BY <1>3, UpdateIsCurrent DEF WriteEntry
    <2>3. op' = op /\ result' = [result EXCEPT ![c] = "ok"]
        BY <1>3 DEF WriteEntry, Return
    <2>4. Abstract!TakeEffect(c)
        BY <2>1, <2>2, <2>3 DEF Abstract!TakeEffect
    <2> QED
        BY <2>4 DEF Abstract!Next
<1>4. ASSUME NEW c \in Callers, WriteRejected(c)
      PROVE  Abstract!Next \/ UNCHANGED <<entry.value, op, result>>
    <2>1. pc[c] = "write" /\ (result' = result \/ result' = [result EXCEPT ![c] = "error"])
        BY <1>4, LostTurnResult DEF WriteRejected
    <2>2. UNCHANGED <<entry.value, op>>
        BY <1>4 DEF WriteRejected
    <2>3. Abstract!Running(c)
        BY <2>1, RunsAbstractly
    <2> QED
        BY <2>1, <2>2, <2>3 DEF Abstract!Fail, Abstract!Next
<1>5. ASSUME NEW c \in Callers, ReadFails(c)
      PROVE  Abstract!Next
    <2>1. Abstract!Running(c)
        BY <1>5, RunsAbstractly DEF ReadFails, Return, Step
    <2> QED
        BY <1>5, <2>1 DEF ReadFails, Return, Abstract!Fail, Abstract!Next
<1>6. ASSUME NEW c \in Callers, WriteFails(c)
      PROVE  Abstract!Next \/ UNCHANGED <<entry.value, op, result>>
    <2>1. pc[c] = "write" /\ (result' = result \/ result' = [result EXCEPT ![c] = "error"])
        BY <1>6, LostTurnResult DEF WriteFails
    <2>2. op' = op
        BY <1>6 DEF WriteFails
    <2>3. Abstract!Running(c)
        BY <2>1, RunsAbstractly
    <2>4. CASE UNCHANGED <<entry, revisions>>
        BY <2>1, <2>2, <2>3, <2>4 DEF Abstract!Fail, Abstract!Next
    <2>5. CASE entry.revision = copy[c].revision /\ StoreUpdate(c)
        <3>1. entry'.value = Abstract!Effect(op[c], entry.value)
            BY <2>5, UpdateIsCurrent
        <3>2. result \in [Callers -> {"none", "ok", "error"}]
            BY DEF IndInv, TypeOK
        <3>3. \E r \in {result[c], "ok", "error"} : result' = [result EXCEPT ![c] = r]
            BY <2>1, <3>2
        <3>4. Abstract!TakeEffect(c)
            BY <2>2, <2>3, <3>1, <3>3 DEF Abstract!TakeEffect
        <3> QED
            BY <3>4 DEF Abstract!Next
    <2> QED
        BY <1>6, <2>4, <2>5 DEF WriteFails
<1>7. CASE Expire
    BY <1>7 DEF Expire, NoEntry, callerVars, Abstract!Expire, Abstract!Next
<1>8. CASE UNCHANGED vars
    BY <1>8 DEF vars, callerVars
<1> QED
    BY <1>1, <1>2, <1>3, <1>4, <1>5, <1>6, <1>7, <1>8 DEF Next, CallStep

\* No update of a pending set is lost: whatever tasks race on one key, whatever
\* answers of the store are lost, each call changes the whole set at one instant.
THEOREM CasImplementsPendingSet == Spec => ImplementsPendingSet
<1>1. Init => Abstract!Init
    BY DEF Init, NoEntry, Abstract!Init
<1>2. IndInv /\ [Next]_vars => [Abstract!Next]_<<entry.value, op, result>>
    BY StepRefines
<1> QED
    BY <1>1, <1>2, CasIndInv, PTL DEF Spec, ImplementsPendingSet, Abstract!Spec
=============================================================================
