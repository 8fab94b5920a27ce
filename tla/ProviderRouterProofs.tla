------------------------- MODULE ProviderRouterProofs -------------------------
(***************************************************************************)
(* Proofs about the providers behind the router.  The remote ones, for     *)
(* every number of attempts, deployments and failures: failed attempts     *)
(* leave no session and releases settle.  Placement by capacity, for any   *)
(* servers, requests, rooms and limits: seats are booked and rooms stay    *)
(* together.                                                               *)
(***************************************************************************)
EXTENDS ProviderRouter, Integers, FiniteSetTheorems, WellFoundedInduction, TLAPS

\* The initial states satisfy the inductive invariant.
LEMMA InitInv == ASSUME MaxFaults \in Nat PROVE Init => IndInv
BY DEF Init, IndInv, Sessions!Init, Sessions!TypeOK, Sessions!Stages, Sessions!Unusable,
       Sessions!Nothing, FailedLeavesNoSession, Sessions!FailedLeavesNoSession,
       ReleaseSettles, Sessions!ReleaseSettles

\* Every step keeps the types.
LEMMA StepTypeOK == IndInv /\ [Next]_vars => Sessions!TypeOK'
<1> SUFFICES ASSUME IndInv, [Next]_vars PROVE Sessions!TypeOK'
    OBVIOUS
<1>a. Sessions!TypeOK /\ MaxFaults \in Nat
    BY RouterAssumption DEF IndInv, Sessions!SessionAssumption
<1> USE <1>a DEF Sessions!Goes, Sessions!Fault, Sessions!NoFault, Sessions!Local, Sessions!Fits,
          Sessions!Unusable, Sessions!Nothing, Sessions!TypeOK
<1>1. ASSUME NEW a \in Attempts, Sessions!Ask(a), UNCHANGED provider PROVE Sessions!TypeOK'
    BY <1>1 DEF Sessions!Ask
<1>2. ASSUME NEW a \in Attempts, Sessions!CreateSession(a), UNCHANGED provider PROVE Sessions!TypeOK'
    BY <1>2 DEF Sessions!CreateSession
<1>3. ASSUME NEW a \in Attempts, Sessions!PollSession(a), UNCHANGED provider PROVE Sessions!TypeOK'
    BY <1>3 DEF Sessions!PollSession
<1>4. ASSUME NEW a \in Attempts, Sessions!PollGone(a), UNCHANGED provider PROVE Sessions!TypeOK'
    BY <1>4 DEF Sessions!PollGone
<1>5. ASSUME NEW a \in Attempts, Sessions!DeleteSession(a), UNCHANGED provider PROVE Sessions!TypeOK'
    BY <1>5 DEF Sessions!DeleteSession
<1>6. ASSUME NEW a \in Attempts, Sessions!AllocateServer(a), UNCHANGED provider PROVE Sessions!TypeOK'
    BY <1>6 DEF Sessions!AllocateServer
<1>7. ASSUME NEW a \in Attempts, Sessions!ResolveAddress(a), UNCHANGED provider PROVE Sessions!TypeOK'
    BY <1>7 DEF Sessions!ResolveAddress
<1>8. ASSUME NEW a \in Attempts, Sessions!CreateFails(a), UNCHANGED provider PROVE Sessions!TypeOK'
    BY <1>8 DEF Sessions!CreateFails
<1>9. ASSUME NEW a \in Attempts, Sessions!PollFails(a), UNCHANGED provider PROVE Sessions!TypeOK'
    BY <1>9 DEF Sessions!PollFails
<1>10. ASSUME NEW a \in Attempts, Sessions!DeleteFails(a), UNCHANGED provider PROVE Sessions!TypeOK'
    BY <1>10 DEF Sessions!DeleteFails
<1>11. ASSUME NEW a \in Attempts, Sessions!SessionReady(a), UNCHANGED provider PROVE Sessions!TypeOK'
    BY <1>11 DEF Sessions!SessionReady
<1>12. ASSUME NEW a \in Attempts, Sessions!SessionEnds(a), UNCHANGED provider PROVE Sessions!TypeOK'
    BY <1>12 DEF Sessions!SessionEnds
<1>13. ASSUME NEW a \in Attempts, Sessions!WantRelease(a), UNCHANGED provider PROVE Sessions!TypeOK'
    BY <1>13 DEF Sessions!WantRelease
<1>14. ASSUME NEW a \in Attempts, Sessions!Release(a), UNCHANGED provider PROVE Sessions!TypeOK'
    BY <1>14 DEF Sessions!Release
<1>15. ASSUME NEW a \in Attempts, Sessions!ReleaseFails(a), UNCHANGED provider PROVE Sessions!TypeOK'
    BY <1>15 DEF Sessions!ReleaseFails
<1>16. CASE UNCHANGED vars \/ (Placement!Next /\ UNCHANGED sessionVars)
    BY <1>16 DEF vars, sessionVars, Placement!Next
<1> QED
    BY <1>1, <1>2, <1>3, <1>4, <1>5, <1>6, <1>7, <1>8, <1>9, <1>10, <1>11, <1>12, <1>13, <1>14, <1>15, <1>16
       DEF Next, Sessions!Next, Sessions!Allocate

\* Every step keeps what the stages of an attempt say.
LEMMA StepStages == IndInv /\ [Next]_vars => Sessions!Stages'
<1> SUFFICES ASSUME IndInv, [Next]_vars PROVE Sessions!Stages'
    OBVIOUS
<1>a. Sessions!TypeOK /\ Sessions!Stages
    BY DEF IndInv
<1> USE <1>a DEF Sessions!Goes, Sessions!Fault, Sessions!NoFault, Sessions!Local, Sessions!Fits,
          Sessions!Unusable, Sessions!Nothing, Sessions!TypeOK, Sessions!Stages
<1>1. ASSUME NEW a \in Attempts, Sessions!Ask(a), UNCHANGED provider PROVE Sessions!Stages'
    BY <1>1 DEF Sessions!Ask
<1>2. ASSUME NEW a \in Attempts, Sessions!CreateSession(a), UNCHANGED provider PROVE Sessions!Stages'
    BY <1>2 DEF Sessions!CreateSession
<1>3. ASSUME NEW a \in Attempts, Sessions!PollSession(a), UNCHANGED provider PROVE Sessions!Stages'
    BY <1>3 DEF Sessions!PollSession
<1>4. ASSUME NEW a \in Attempts, Sessions!PollGone(a), UNCHANGED provider PROVE Sessions!Stages'
    BY <1>4 DEF Sessions!PollGone
<1>5. ASSUME NEW a \in Attempts, Sessions!DeleteSession(a), UNCHANGED provider PROVE Sessions!Stages'
    BY <1>5 DEF Sessions!DeleteSession
<1>6. ASSUME NEW a \in Attempts, Sessions!AllocateServer(a), UNCHANGED provider PROVE Sessions!Stages'
    BY <1>6 DEF Sessions!AllocateServer
<1>7. ASSUME NEW a \in Attempts, Sessions!ResolveAddress(a), UNCHANGED provider PROVE Sessions!Stages'
    BY <1>7 DEF Sessions!ResolveAddress
<1>8. ASSUME NEW a \in Attempts, Sessions!CreateFails(a), UNCHANGED provider PROVE Sessions!Stages'
    BY <1>8 DEF Sessions!CreateFails
<1>9. ASSUME NEW a \in Attempts, Sessions!PollFails(a), UNCHANGED provider PROVE Sessions!Stages'
    BY <1>9 DEF Sessions!PollFails
<1>10. ASSUME NEW a \in Attempts, Sessions!DeleteFails(a), UNCHANGED provider PROVE Sessions!Stages'
    BY <1>10 DEF Sessions!DeleteFails
<1>11. ASSUME NEW a \in Attempts, Sessions!SessionReady(a), UNCHANGED provider PROVE Sessions!Stages'
    BY <1>11 DEF Sessions!SessionReady
<1>12. ASSUME NEW a \in Attempts, Sessions!SessionEnds(a), UNCHANGED provider PROVE Sessions!Stages'
    BY <1>12 DEF Sessions!SessionEnds
<1>13. ASSUME NEW a \in Attempts, Sessions!WantRelease(a), UNCHANGED provider PROVE Sessions!Stages'
    BY <1>13 DEF Sessions!WantRelease
<1>14. ASSUME NEW a \in Attempts, Sessions!Release(a), UNCHANGED provider PROVE Sessions!Stages'
    BY <1>14 DEF Sessions!Release
<1>15. ASSUME NEW a \in Attempts, Sessions!ReleaseFails(a), UNCHANGED provider PROVE Sessions!Stages'
    BY <1>15 DEF Sessions!ReleaseFails
<1>16. CASE UNCHANGED vars \/ (Placement!Next /\ UNCHANGED sessionVars)
    BY <1>16 DEF vars, sessionVars, Placement!Next
<1> QED
    BY <1>1, <1>2, <1>3, <1>4, <1>5, <1>6, <1>7, <1>8, <1>9, <1>10, <1>11, <1>12, <1>13, <1>14, <1>15, <1>16
       DEF Next, Sessions!Next, Sessions!Allocate

\* No step lets a failed attempt have a session.
LEMMA StepFailed == IndInv /\ [Next]_vars => FailedLeavesNoSession'
<1> SUFFICES ASSUME IndInv, [Next]_vars PROVE FailedLeavesNoSession'
    OBVIOUS
<1>a. Sessions!TypeOK /\ Sessions!Stages /\ FailedLeavesNoSession
    BY DEF IndInv
<1> USE <1>a DEF Sessions!Goes, Sessions!Fault, Sessions!NoFault, Sessions!Local, Sessions!Fits,
          Sessions!Unusable, Sessions!Nothing, Sessions!TypeOK, Sessions!Stages,
          FailedLeavesNoSession, Sessions!FailedLeavesNoSession
<1>1. ASSUME NEW a \in Attempts, Sessions!Ask(a), UNCHANGED provider PROVE FailedLeavesNoSession'
    BY <1>1 DEF Sessions!Ask
<1>2. ASSUME NEW a \in Attempts, Sessions!CreateSession(a), UNCHANGED provider PROVE FailedLeavesNoSession'
    BY <1>2 DEF Sessions!CreateSession
<1>3. ASSUME NEW a \in Attempts, Sessions!PollSession(a), UNCHANGED provider PROVE FailedLeavesNoSession'
    BY <1>3 DEF Sessions!PollSession
<1>4. ASSUME NEW a \in Attempts, Sessions!PollGone(a), UNCHANGED provider PROVE FailedLeavesNoSession'
    BY <1>4 DEF Sessions!PollGone
<1>5. ASSUME NEW a \in Attempts, Sessions!DeleteSession(a), UNCHANGED provider PROVE FailedLeavesNoSession'
    BY <1>5 DEF Sessions!DeleteSession
<1>6. ASSUME NEW a \in Attempts, Sessions!AllocateServer(a), UNCHANGED provider PROVE FailedLeavesNoSession'
    BY <1>6 DEF Sessions!AllocateServer
<1>7. ASSUME NEW a \in Attempts, Sessions!ResolveAddress(a), UNCHANGED provider PROVE FailedLeavesNoSession'
    BY <1>7 DEF Sessions!ResolveAddress
<1>8. ASSUME NEW a \in Attempts, Sessions!CreateFails(a), UNCHANGED provider PROVE FailedLeavesNoSession'
    BY <1>8 DEF Sessions!CreateFails
<1>9. ASSUME NEW a \in Attempts, Sessions!PollFails(a), UNCHANGED provider PROVE FailedLeavesNoSession'
    BY <1>9 DEF Sessions!PollFails
<1>10. ASSUME NEW a \in Attempts, Sessions!DeleteFails(a), UNCHANGED provider PROVE FailedLeavesNoSession'
    BY <1>10 DEF Sessions!DeleteFails
<1>11. ASSUME NEW a \in Attempts, Sessions!SessionReady(a), UNCHANGED provider PROVE FailedLeavesNoSession'
    BY <1>11 DEF Sessions!SessionReady
<1>12. ASSUME NEW a \in Attempts, Sessions!SessionEnds(a), UNCHANGED provider PROVE FailedLeavesNoSession'
    BY <1>12 DEF Sessions!SessionEnds
<1>13. ASSUME NEW a \in Attempts, Sessions!WantRelease(a), UNCHANGED provider PROVE FailedLeavesNoSession'
    BY <1>13 DEF Sessions!WantRelease
<1>14. ASSUME NEW a \in Attempts, Sessions!Release(a), UNCHANGED provider PROVE FailedLeavesNoSession'
    BY <1>14 DEF Sessions!Release
<1>15. ASSUME NEW a \in Attempts, Sessions!ReleaseFails(a), UNCHANGED provider PROVE FailedLeavesNoSession'
    BY <1>15 DEF Sessions!ReleaseFails
<1>16. CASE UNCHANGED vars \/ (Placement!Next /\ UNCHANGED sessionVars)
    BY <1>16 DEF vars, sessionVars, Placement!Next
<1> QED
    BY <1>1, <1>2, <1>3, <1>4, <1>5, <1>6, <1>7, <1>8, <1>9, <1>10, <1>11, <1>12, <1>13, <1>14, <1>15, <1>16
       DEF Next, Sessions!Next, Sessions!Allocate

\* No step refuses a release, or finishes one without its session's end.
LEMMA StepReleases == IndInv /\ [Next]_vars => ReleaseSettles'
<1> SUFFICES ASSUME IndInv, [Next]_vars PROVE ReleaseSettles'
    OBVIOUS
<1>a. Sessions!TypeOK /\ Sessions!Stages /\ ReleaseSettles
    BY DEF IndInv
<1> USE <1>a DEF Sessions!Goes, Sessions!Fault, Sessions!NoFault, Sessions!Local, Sessions!Fits,
          Sessions!Unusable, Sessions!Nothing, Sessions!TypeOK, Sessions!Stages,
          ReleaseSettles, Sessions!ReleaseSettles
<1>1. ASSUME NEW a \in Attempts, Sessions!Ask(a), UNCHANGED provider PROVE ReleaseSettles'
    BY <1>1 DEF Sessions!Ask
<1>2. ASSUME NEW a \in Attempts, Sessions!CreateSession(a), UNCHANGED provider PROVE ReleaseSettles'
    BY <1>2 DEF Sessions!CreateSession
<1>3. ASSUME NEW a \in Attempts, Sessions!PollSession(a), UNCHANGED provider PROVE ReleaseSettles'
    BY <1>3 DEF Sessions!PollSession
<1>4. ASSUME NEW a \in Attempts, Sessions!PollGone(a), UNCHANGED provider PROVE ReleaseSettles'
    BY <1>4 DEF Sessions!PollGone
<1>5. ASSUME NEW a \in Attempts, Sessions!DeleteSession(a), UNCHANGED provider PROVE ReleaseSettles'
    BY <1>5 DEF Sessions!DeleteSession
<1>6. ASSUME NEW a \in Attempts, Sessions!AllocateServer(a), UNCHANGED provider PROVE ReleaseSettles'
    BY <1>6 DEF Sessions!AllocateServer
<1>7. ASSUME NEW a \in Attempts, Sessions!ResolveAddress(a), UNCHANGED provider PROVE ReleaseSettles'
    BY <1>7 DEF Sessions!ResolveAddress
<1>8. ASSUME NEW a \in Attempts, Sessions!CreateFails(a), UNCHANGED provider PROVE ReleaseSettles'
    BY <1>8 DEF Sessions!CreateFails
<1>9. ASSUME NEW a \in Attempts, Sessions!PollFails(a), UNCHANGED provider PROVE ReleaseSettles'
    BY <1>9 DEF Sessions!PollFails
<1>10. ASSUME NEW a \in Attempts, Sessions!DeleteFails(a), UNCHANGED provider PROVE ReleaseSettles'
    BY <1>10 DEF Sessions!DeleteFails
<1>11. ASSUME NEW a \in Attempts, Sessions!SessionReady(a), UNCHANGED provider PROVE ReleaseSettles'
    BY <1>11 DEF Sessions!SessionReady
<1>12. ASSUME NEW a \in Attempts, Sessions!SessionEnds(a), UNCHANGED provider PROVE ReleaseSettles'
    BY <1>12 DEF Sessions!SessionEnds
<1>13. ASSUME NEW a \in Attempts, Sessions!WantRelease(a), UNCHANGED provider PROVE ReleaseSettles'
    BY <1>13 DEF Sessions!WantRelease
<1>14. ASSUME NEW a \in Attempts, Sessions!Release(a), UNCHANGED provider PROVE ReleaseSettles'
    BY <1>14 DEF Sessions!Release
<1>15. ASSUME NEW a \in Attempts, Sessions!ReleaseFails(a), UNCHANGED provider PROVE ReleaseSettles'
    BY <1>15 DEF Sessions!ReleaseFails
<1>16. CASE UNCHANGED vars \/ (Placement!Next /\ UNCHANGED sessionVars)
    BY <1>16 DEF vars, sessionVars, Placement!Next
<1> QED
    BY <1>1, <1>2, <1>3, <1>4, <1>5, <1>6, <1>7, <1>8, <1>9, <1>10, <1>11, <1>12, <1>13, <1>14, <1>15, <1>16
       DEF Next, Sessions!Next, Sessions!Allocate

\* The invariant is inductive.
THEOREM RouterIndInv == Spec => []IndInv
<1>1. Init => IndInv
    BY InitInv, RouterAssumption DEF Sessions!SessionAssumption
<1>2. IndInv /\ [Next]_vars => IndInv'
    BY StepTypeOK, StepStages, StepFailed, StepReleases DEF IndInv
<1> QED
    BY <1>1, <1>2, PTL DEF Spec

\* A failed Edgegap attempt none of whose calls failed leaves no session.
THEOREM RouterFailedLeavesNoSession == Spec => []FailedLeavesNoSession
<1>1. IndInv => FailedLeavesNoSession
    BY DEF IndInv
<1> QED
    BY <1>1, RouterIndInv, PTL

\* With release_missing_ok no release is refused; what is released is gone.
THEOREM RouterReleaseSettles == Spec => []ReleaseSettles
<1>1. IndInv => ReleaseSettles
    BY DEF IndInv
<1> QED
    BY <1>1, RouterIndInv, PTL

-----------------------------------------------------------------------------
(* Adding up a function's values.                                          *)

\* A set of numbers has a least element.
LEMMA LeastOfNumbers ==
    ASSUME NEW T \in SUBSET Nat, T # {}
    PROVE  \E n \in T : \A m \in T : n <= m
<1> DEFINE less == {p \in Nat \X Nat : p[1] < p[2]}
<1>1. IsWellFoundedOn(less, Nat)
    BY NatLessThanWellFounded, Zenon DEF OpToRel
<1>2. PICK n \in T : \A m \in T : <<m, n>> \notin less
  <2> HIDE DEF less
  <2> QED
      BY <1>1, WFMin, Zenon
<1>3. ASSUME NEW m \in T PROVE n <= m
  <2>1. <<m, n>> \in Nat \X Nat /\ <<m, n>>[1] = m /\ <<m, n>>[2] = n
      OBVIOUS
  <2>2. ~(m < n)
      BY <1>2, <2>1
  <2> QED
      BY <2>2
<1> QED
    BY <1>3

\* The numbers from 1 to n are n.
LEMMA IntervalsCount == \A n \in Nat : IsFiniteSet(1..n) /\ Cardinality(1..n) = n
<1> TAKE n \in Nat
<1>1. 1 \in Int /\ n \in Int
    OBVIOUS
<1>2. IsFiniteSet(1..n) /\ Cardinality(1..n) = IF 1 > n THEN 0 ELSE n - 1 + 1
    BY <1>1, FS_Interval
<1> QED
    BY <1>2

\* As many pairs with x as f[x] says; what is added up is the number of pairs.
Part(f, x) == {x} \X (1..f[x])
Units(f, S) == UNION {Part(f, x) : x \in S}

LEMMA PartsCount ==
    ASSUME NEW f, NEW x, f[x] \in Nat
    PROVE  /\ IsFiniteSet(Part(f, x)) /\ Cardinality(Part(f, x)) = f[x]
           /\ \A p \in Part(f, x) : p[1] = x
<1> DEFINE A == {x}
           B == 1..f[x]
<1>1. IsFiniteSet(A) /\ IsFiniteSet(B) /\ Cardinality(A) = 1 /\ Cardinality(B) = f[x]
    BY FS_Singleton, IntervalsCount
<1>2. Part(f, x) = A \X B /\ A = {x}
    BY Zenon DEF Part
<1> HIDE DEF A, B
<1>3. IsFiniteSet(A \X B) /\ Cardinality(A \X B) = Cardinality(A) * Cardinality(B)
    BY <1>1, FS_Product
<1>4. Cardinality(A) * Cardinality(B) = f[x]
    BY <1>1
<1>5. \A p \in A \X B : p[1] = x
    BY <1>2
<1> QED
    BY <1>2, <1>3, <1>4, <1>5

\* One more value adds as many pairs.
LEMMA UnitsOfOneMore ==
    ASSUME NEW f, NEW S, IsFiniteSet(Units(f, S)), NEW x, x \notin S,
           \A y \in S \cup {x} : f[y] \in Nat
    PROVE  Cardinality(Units(f, S \cup {x})) = Cardinality(Units(f, S)) + f[x]
<1>1. Units(f, S \cup {x}) = Units(f, S) \cup Part(f, x)
    BY DEF Units
<1>2. Units(f, S) \cap Part(f, x) = {}
  <2> SUFFICES ASSUME NEW y \in S, NEW p \in Part(f, y), p \in Part(f, x) PROVE FALSE
      BY DEF Units
  <2> QED
      BY PartsCount
<1>3. IsFiniteSet(Part(f, x)) /\ Cardinality(Part(f, x)) = f[x]
    BY PartsCount
<1>4. Cardinality(Units(f, S)) \in Nat /\ Cardinality({}) = 0
    BY FS_CardinalityType, FS_EmptySet
<1>5. Cardinality(Units(f, S) \cup Part(f, x)) =
        Cardinality(Units(f, S)) + Cardinality(Part(f, x)) - Cardinality({})
    BY <1>2, <1>3, FS_Union
<1>6. f[x] \in Nat
    OBVIOUS
<1> DEFINE n == Cardinality(Units(f, S))
<1>7. n \in Nat /\ Cardinality(Units(f, S \cup {x})) = n + f[x] - 0
    BY <1>1, <1>3, <1>4, <1>5, Zenon
<1> HIDE DEF n
<1>8. Cardinality(Units(f, S \cup {x})) = n + f[x]
    BY <1>6, <1>7
<1> QED
    BY <1>8 DEF n

\* Finitely many values are finitely many pairs.
LEMMA UnitsAreFinite ==
    ASSUME NEW f, NEW S, IsFiniteSet(S), \A x \in S : f[x] \in Nat
    PROVE  IsFiniteSet(Units(f, S)) /\ Cardinality(Units(f, S)) \in Nat
<1> DEFINE part == [x \in S |-> Part(f, x)]
           parts == {Part(f, x) : x \in S}
<1>1. part \in Surjection(S, parts)
    BY DEF Surjection
<1>2. IsFiniteSet(parts)
    BY <1>1, FS_Surjection
<1>3. \A T \in parts : IsFiniteSet(T)
    BY PartsCount
<1>4. IsFiniteSet(UNION parts)
    BY <1>2, <1>3, FS_UNION
<1> QED
    BY <1>4, FS_CardinalityType DEF Units

\* The sum of a function's values is the number of pairs.
LEMMA SumCounts ==
    ASSUME NEW f, IsFiniteSet(DOMAIN f), \A x \in DOMAIN f : f[x] \in Nat
    PROVE  Placement!Sum(f) = Cardinality(Units(f, DOMAIN f))
<1> DEFINE D == DOMAIN f
           step(g) == [S \in SUBSET D |->
                         IF S = {} THEN 0
                         ELSE LET x == CHOOSE x \in S : TRUE IN f[x] + g[S \ {x}]]
           count == [S \in SUBSET D |-> Cardinality(Units(f, S))]
           sum == CHOOSE g : g = step(g)
<1>1. Placement!Sum(f) = sum[D]
    BY DEF Placement!Sum
<1>2. \A S \in SUBSET D : IsFiniteSet(S) /\ Cardinality(S) \in Nat /\ count[S] \in Nat
    BY FS_Subset, FS_CardinalityType, UnitsAreFinite
<1>3. count[{}] = 0
  <2>1. Units(f, {}) = {}
      BY DEF Units
  <2> QED
      BY <2>1, FS_EmptySet
<1>4. ASSUME NEW S \in SUBSET D, NEW x \in S PROVE count[S] = f[x] + count[S \ {x}]
  <2>1. S \ {x} \in SUBSET D /\ (S \ {x}) \cup {x} = S /\ x \notin S \ {x} /\ f[x] \in Nat
      OBVIOUS
  <2>2. IsFiniteSet(Units(f, S \ {x})) /\ Cardinality(Units(f, S \ {x})) \in Nat
      BY <1>2, <2>1, UnitsAreFinite
  <2>3. Cardinality(Units(f, (S \ {x}) \cup {x})) = Cardinality(Units(f, S \ {x})) + f[x]
      BY <2>1, <2>2, UnitsOfOneMore
  <2> QED
    <3> DEFINE T == S \ {x}
    <3>1. count[S] = Cardinality(Units(f, T \cup {x})) /\ count[T] = Cardinality(Units(f, T))
        BY <2>1
    <3> HIDE DEF count, T
    <3> QED
        BY <2>1, <2>2, <2>3, <3>1 DEF T
<1>5. step(count) = count
  <2> HIDE DEF D
  <2>1. ASSUME NEW S \in SUBSET D PROVE step(count)[S] = count[S]
    <3>1. CASE S = {}
        BY <3>1, <1>3
    <3>2. CASE S # {}
      <4> DEFINE x == CHOOSE x \in S : TRUE
      <4>1. x \in S
          BY <3>2
      <4>2. step(count)[S] = f[x] + count[S \ {x}]
          BY <3>2
      <4> HIDE DEF x, count, step
      <4> QED
          BY <4>1, <4>2, <1>4
    <3> QED
        BY <3>1, <3>2
  <2> QED
      BY <2>1, Zenon
<1>6. sum = step(sum)
  <2> HIDE DEF step, count
  <2> QED
      BY <1>5
<1>7. ASSUME NEW W \in SUBSET D, sum[W] # count[W] PROVE FALSE
  <2> DEFINE sizes == {n \in Nat : \E S \in SUBSET D : Cardinality(S) = n /\ sum[S] # count[S]}
  <2> HIDE DEF D, count, sum
  <2>1. sizes # {}
      BY <1>2, <1>7
  <2>2. PICK n \in sizes : \A m \in sizes : n <= m
      BY <2>1, LeastOfNumbers
  <2>3. PICK S \in SUBSET D : Cardinality(S) = n /\ sum[S] # count[S]
      BY <2>2
  <2>4. sum[S] = step(sum)[S]
      BY <1>6
  <2>5. S # {}
      BY <1>3, <2>3, <2>4
  <2> DEFINE x == CHOOSE x \in S : TRUE
  <2>6. x \in S
      BY <2>5
  <2>7. sum[S] = f[x] + sum[S \ {x}]
      BY <2>4, <2>5
  <2> HIDE DEF x, sizes
  <2>8. S \ {x} \in SUBSET D /\ Cardinality(S \ {x}) = Cardinality(S) - 1
    <3>1. IsFiniteSet(S)
        BY <1>2
    <3>2. Cardinality(S \ {x}) = IF x \in S THEN Cardinality(S) - 1 ELSE Cardinality(S)
        BY <3>1, FS_RemoveElement
    <3> QED
        BY <2>6, <3>2
  <2>9. Cardinality(S \ {x}) \in Nat /\ Cardinality(S) \in Nat /\ n \in Nat
      BY <2>8, <1>2 DEF sizes
  <2>10. sum[S \ {x}] = count[S \ {x}]
    <3>1. Cardinality(S \ {x}) \notin sizes
        BY <2>2, <2>3, <2>8, <2>9
    <3> QED
        BY <3>1, <2>8, <2>9 DEF sizes
  <2> QED
      BY <2>3, <2>6, <2>7, <2>10, <1>4
<1> HIDE DEF sum
<1> QED
    BY <1>1, <1>7

\* One value of a sum, and the others.
LEMMA SumWithout ==
    ASSUME NEW f, IsFiniteSet(DOMAIN f), \A x \in DOMAIN f : f[x] \in Nat, NEW k
    PROVE  LET others == Cardinality(Units(f, DOMAIN f \ {k})) IN
           /\ others \in Nat /\ Placement!Sum(f) \in Nat
           /\ Placement!Sum(f) = (IF k \in DOMAIN f THEN f[k] ELSE 0) + others
<1> DEFINE R == DOMAIN f \ {k}
           others == Cardinality(Units(f, R))
<1>1. IsFiniteSet(R) /\ \A x \in R : f[x] \in Nat
    BY FS_RemoveElement
<1>2. IsFiniteSet(Units(f, R)) /\ others \in Nat
    BY <1>1, UnitsAreFinite
<1>3. Placement!Sum(f) = Cardinality(Units(f, DOMAIN f)) /\ Placement!Sum(f) \in Nat
    BY SumCounts, UnitsAreFinite
<1>4. CASE k \in DOMAIN f
  <2>1. R \cup {k} = DOMAIN f /\ k \notin R /\ \A y \in R \cup {k} : f[y] \in Nat
      BY <1>4
  <2> HIDE DEF R
  <2>2. Cardinality(Units(f, R \cup {k})) = Cardinality(Units(f, R)) + f[k]
      BY <1>2, <2>1, UnitsOfOneMore
  <2>3. f[k] \in Nat
      BY <1>4
  <2> QED
      BY <1>2, <1>3, <1>4, <2>1, <2>2, <2>3 DEF R
<1>5. CASE k \notin DOMAIN f
    BY <1>2, <1>3, <1>5
<1> QED
    BY <1>4, <1>5

\* A sum is a number, and that of nothing is 0.
LEMMA SumIsNumber ==
    ASSUME NEW f, IsFiniteSet(DOMAIN f), \A x \in DOMAIN f : f[x] \in Nat
    PROVE  Placement!Sum(f) \in Nat /\ (DOMAIN f = {} => Placement!Sum(f) = 0)
<1>1. Placement!Sum(f) \in Nat
    BY SumCounts, UnitsAreFinite
<1>2. Units(f, {}) = {}
    BY DEF Units
<1> QED
    BY <1>1, <1>2, SumCounts, FS_EmptySet

\* One value that changes.
LEMMA SumChanges ==
    ASSUME NEW f, IsFiniteSet(DOMAIN f), \A x \in DOMAIN f : f[x] \in Nat,
           NEW g, IsFiniteSet(DOMAIN g), \A x \in DOMAIN g : g[x] \in Nat,
           NEW k, DOMAIN g \ {k} = DOMAIN f \ {k}, \A x \in DOMAIN f \ {k} : g[x] = f[x]
    PROVE  /\ Placement!Sum(f) \in Nat /\ Placement!Sum(g) \in Nat
           /\ Placement!Sum(g) + (IF k \in DOMAIN f THEN f[k] ELSE 0)
                = Placement!Sum(f) + (IF k \in DOMAIN g THEN g[k] ELSE 0)
<1>1. \A x \in DOMAIN f \ {k} : Part(f, x) = Part(g, x)
    BY DEF Part
<1>2. Units(f, DOMAIN f \ {k}) = Units(g, DOMAIN g \ {k})
    BY <1>1 DEF Units
<1> DEFINE n == Cardinality(Units(f, DOMAIN f \ {k}))
           m == Cardinality(Units(g, DOMAIN g \ {k}))
<1>3. Placement!Sum(f) \in Nat /\ Placement!Sum(f) = (IF k \in DOMAIN f THEN f[k] ELSE 0) + n /\ n \in Nat
    BY SumWithout
<1>4. Placement!Sum(g) \in Nat /\ Placement!Sum(g) = (IF k \in DOMAIN g THEN g[k] ELSE 0) + m /\ m \in Nat
    BY SumWithout
<1>5. n = m
    BY <1>2
<1>6. (IF k \in DOMAIN f THEN f[k] ELSE 0) \in Nat /\ (IF k \in DOMAIN g THEN g[k] ELSE 0) \in Nat
    OBVIOUS
<1> HIDE DEF n, m
<1> QED
    BY <1>3, <1>4, <1>5, <1>6

-----------------------------------------------------------------------------
(* The choice among reports.                                               *)

\* What is assumed of the constants of placement.
LEMMA PlacementConstants ==
    /\ Servers \subseteq Nat \ {0} /\ Placement!NoServer = 0
    /\ IsFiniteSet(Requests) /\ IsFiniteSet(Rooms)
    /\ Rooms \cap ({"auto", "new"} \cup Requests) = {}
    /\ \A s \in Servers : "max_players" \in DOMAIN Capacity[s] /\ Capacity[s].max_players \in Nat
    /\ \A l \in Latencies : l.rtt_ms \in Nat
<1>1. Placement!PlacementAssumption
    BY RouterAssumption
<1>2. \A s \in Servers : \A limit \in {"max_players", "max_rooms", "room_players"} :
         limit \in DOMAIN Capacity[s] /\ Capacity[s][limit] \in Nat
    BY <1>1 DEF Placement!PlacementAssumption
<1>3. \A s \in Servers : "max_players" \in DOMAIN Capacity[s] /\ Capacity[s].max_players \in Nat
    BY <1>2
<1>4. Servers \subseteq Nat \ {0} /\ Placement!NoServer = 0
    BY <1>1 DEF Placement!PlacementAssumption, Placement!NoServer
<1>5. /\ IsFiniteSet(Requests) /\ IsFiniteSet(Rooms)
      /\ Rooms \cap ({"auto", "new"} \cup Requests) = {}
    BY <1>1, Zenon DEF Placement!PlacementAssumption, Placement!IsFiniteSet, IsFiniteSet
<1>6. \A l \in Latencies : l.rtt_ms \in Nat
  <2>1. \A l \in Latencies : l.rtt_ms \in 0..Placement!Unmeasured
      BY <1>1, Zenon DEF Placement!PlacementAssumption
  <2>2. Placement!Unmeasured \in Nat
      BY DEF Placement!Unmeasured
  <2> QED
      BY <2>1, <2>2
<1> QED
    BY <1>3, <1>4, <1>5, <1>6

\* A request's rank of a server is a number.
LEMMA RankIsNumber ==
    ASSUME NEW load, NEW wish, wish.latencies = Latencies
    PROVE  Placement!LatencyRank(load, wish) \in Nat
<1> DEFINE measured == {l \in wish.latencies : l.region = load.region}
           times == {l.rtt_ms : l \in measured}
<1>1. CASE measured = {}
    BY <1>1 DEF Placement!LatencyRank, Placement!Unmeasured
<1>2. CASE measured # {}
  <2>1. times \in SUBSET Nat /\ times # {}
      BY <1>2, PlacementConstants
  <2>2. PICK n \in times : \A m \in times : n <= m
      BY <2>1, LeastOfNumbers
  <2>3. \E l \in measured : \A k \in measured : l.rtt_ms <= k.rtt_ms
      BY <2>2
  <2>4. (CHOOSE l \in measured : \A k \in measured : l.rtt_ms <= k.rtt_ms) \in measured
      BY <2>3
  <2>5. Placement!LatencyRank(load, wish)
          = (CHOOSE l \in measured : \A k \in measured : l.rtt_ms <= k.rtt_ms).rtt_ms
      BY <1>2 DEF Placement!LatencyRank
  <2> QED
      BY <2>4, <2>5, PlacementConstants
<1> QED
    BY <1>1, <1>2

\* Of servers that reported, one comes first.
LEMMA FirstIsOne ==
    ASSUME NEW servers \in SUBSET Servers, NEW read, NEW wish, wish.latencies = Latencies,
           \A s \in servers : read[s].players \in Nat
    PROVE  IF servers = {} THEN Placement!First(servers, read, wish) = Placement!NoServer
           ELSE Placement!First(servers, read, wish) \in servers
<1>1. CASE servers = {}
    BY <1>1 DEF Placement!First
<1>2. CASE servers # {}
  <2> DEFINE near == [s \in servers |-> Placement!LatencyRank(read[s], wish)]
             load == [s \in servers |-> read[s].players]
  <2>1. \A s \in servers : near[s] \in Nat /\ load[s] \in Nat /\ s \in Nat
      BY RankIsNumber, PlacementConstants
  <2>2. \A s, t \in servers : Placement!Precedes(s, t, read, wish) <=>
          \/ near[s] < near[t]
          \/ near[s] = near[t] /\ load[s] < load[t]
          \/ near[s] = near[t] /\ load[s] = load[t] /\ s <= t
      BY DEF Placement!Precedes
  <2> HIDE DEF near, load
  <2>3. PICK a \in servers : \A t \in servers : near[a] <= near[t]
    <3> DEFINE T == {near[s] : s \in servers}
    <3>1. T \in SUBSET Nat /\ T # {}
        BY <2>1, <1>2
    <3>2. PICK n \in T : \A m \in T : n <= m
      <4> HIDE DEF T
      <4> QED
          BY <3>1, LeastOfNumbers
    <3> QED
        BY <3>2
  <2>4. PICK b \in servers : near[b] = near[a] /\ \A t \in servers : near[t] = near[a] => load[b] <= load[t]
    <3> DEFINE T == {load[s] : s \in {q \in servers : near[q] = near[a]}}
    <3>1. T \in SUBSET Nat /\ T # {}
        BY <2>1
    <3>2. PICK n \in T : \A m \in T : n <= m
      <4> HIDE DEF T
      <4> QED
          BY <3>1, LeastOfNumbers
    <3> QED
        BY <3>2
  <2>5. PICK c \in servers : /\ near[c] = near[a] /\ load[c] = load[b]
                             /\ \A t \in servers : (near[t] = near[a] /\ load[t] = load[b]) => c <= t
    <3> DEFINE T == {s \in servers : near[s] = near[a] /\ load[s] = load[b]}
    <3>1. T \in SUBSET Nat /\ T # {}
        BY <2>1, <2>4
    <3> QED
        BY <3>1, LeastOfNumbers
  <2>6. \A t \in servers : Placement!Precedes(c, t, read, wish)
    <3> SUFFICES ASSUME NEW t \in servers PROVE Placement!Precedes(c, t, read, wish)
        OBVIOUS
    <3>1. near[a] <= near[t] /\ near[a] \in Nat /\ near[t] \in Nat
        BY <2>1, <2>3
    <3>2. near[t] = near[a] => load[b] <= load[t] /\ load[b] \in Nat /\ load[t] \in Nat
        BY <2>1, <2>4
    <3> QED
        BY <3>1, <3>2, <2>2, <2>5
  <2> QED
      BY <1>2, <2>6 DEF Placement!First
<1> QED
    BY <1>1, <1>2

\* What a request asks for, and a report that says how many players its server carries.
Asked ==
    [room : {"auto", "new"} \cup Rooms \cup Requests, size : {1, 2}, avoid : SUBSET Servers,
     latencies : {Latencies}]
Told(read) ==
    /\ DOMAIN read \subseteq Servers
    /\ \A s \in DOMAIN read :
         read[s].players \in Nat /\ read[s].max_players = Capacity[s].max_players

\* The server that is chosen reported a seat.
LEMMA ChosenHasSeat ==
    ASSUME NEW read, Told(read), NEW wish \in Asked, NEW away, NEW c, c # 0,
           \/ c = Placement!ChooseLive(read, wish, away)
           \/ c = Placement!ChooseConfigured(read, wish)
    PROVE  /\ c \in DOMAIN read
           /\ read[c].players < Placement!AtLeastOne(Capacity[c].max_players)
<1>1. wish.latencies = Latencies /\ Placement!NoServer = 0
    BY PlacementConstants DEF Asked
<1>2. \A s \in DOMAIN read : s \in Servers /\ read[s].players \in Nat
    BY DEF Told
<1>3. \A S \in SUBSET DOMAIN read : Placement!First(S, read, wish) # 0 => Placement!First(S, read, wish) \in S
    BY <1>1, <1>2, FirstIsOne
<1>4. Placement!Accepts(read, wish) \subseteq DOMAIN read
    BY DEF Placement!Accepts
<1>5. PICK S \in SUBSET Placement!Accepts(read, wish) : c = Placement!First(S, read, wish)
  <2>1. CASE c = Placement!ChooseConfigured(read, wish)
      BY <2>1 DEF Placement!ChooseConfigured
  <2>2. CASE c = Placement!ChooseLive(read, wish, away)
    <3> DEFINE C == Placement!Candidates(read, wish, away)
    <3>1. C \subseteq Placement!Accepts(read, wish)
        BY DEF Placement!Candidates
    <3> HIDE DEF C
    <3>2. \/ c = Placement!First(C, read, wish)
          \/ c = Placement!First({s \in C : Placement!HasRoomCapacity(read[s])}, read, wish)
          \/ c = Placement!ChooseExplicitRoom(C, read, wish)
        BY <2>2 DEF Placement!ChooseLive, C
    <3>3. CASE c = Placement!ChooseExplicitRoom(C, read, wish)
      <4> DEFINE H == {s \in C : Placement!Hosts(read[s], wish.room)}
                 S == IF H # {} THEN {s \in H : Placement!HasSeatIn(read[s], wish.room)}
                      ELSE {s \in C : Placement!HasRoomCapacity(read[s])}
      <4>1. S \subseteq C
          OBVIOUS
      <4>2. c = Placement!First(S, read, wish)
          BY <3>3 DEF Placement!ChooseExplicitRoom
      <4> HIDE DEF S
      <4> QED
          BY <3>1, <4>1, <4>2
    <3> QED
        BY <3>1, <3>2, <3>3
  <2> QED
      BY <2>1, <2>2
<1>6. c \in Placement!Accepts(read, wish)
    BY <1>3, <1>4, <1>5
<1> QED
    BY <1>4, <1>6 DEF Placement!Accepts, Placement!HasPlayerCapacity, Told

\* A room that some candidate reported is not opened on a server that did not report it.
LEMMA RoomsAreJoined ==
    ASSUME NEW read, Told(read), NEW wish \in Asked, wish.room \in Rooms, NEW away,
           NEW c, c # 0, c = Placement!ChooseLive(read, wish, away),
           NEW t \in Placement!Candidates(read, wish, away), Placement!Hosts(read[t], wish.room)
    PROVE  Placement!Hosts(read[c], wish.room)
<1> DEFINE C == Placement!Candidates(read, wish, away)
           H == {s \in C : Placement!Hosts(read[s], wish.room)}
           S == {s \in H : Placement!HasSeatIn(read[s], wish.room)}
<1>1. wish.latencies = Latencies /\ Placement!NoServer = 0 /\ wish.room \notin {"auto", "new"}
    BY PlacementConstants DEF Asked
<1>2. C \subseteq DOMAIN read
    BY DEF Placement!Candidates, Placement!Accepts
<1>3. S \in SUBSET Servers /\ \A s \in S : read[s].players \in Nat
    BY <1>2 DEF Told
<1>4. H # {}
    OBVIOUS
<1>5. c = Placement!First(S, read, wish)
  <2>1. c = Placement!ChooseExplicitRoom(C, read, wish)
      BY <1>1 DEF Placement!ChooseLive
  <2> HIDE DEF C
  <2> QED
      BY <2>1, <1>4 DEF Placement!ChooseExplicitRoom
<1>6. c \in S
  <2> HIDE DEF S
  <2> QED
      BY <1>1, <1>3, <1>5, FirstIsOne
<1> QED
    BY <1>6

-----------------------------------------------------------------------------
(* The invariant of the placement.                                         *)

\* The sizes of those that are expected on a server, and of those that play in a room.
ExpectedIn(places, choices, wishes, s) ==
    [r \in {q \in Requests : places[q] = "placed" /\ choices[q] = s} |-> wishes[r].size]
PlayingIn(places, choices, wishes, s, key) ==
    [r \in {q \in Requests : places[q] = "playing" /\ choices[q] = s /\ wishes[q].room = key}
        |-> wishes[r].size]

\* The types of what decides on seats and rooms.
PlaceTypes ==
    /\ at \in [Requests -> {"idle", "choosing", "refused", "placed", "playing", "gone"}]
    /\ chosen \in [Requests -> Servers \cup {0}]
    /\ request \in [Requests -> {<<>>} \cup Asked]
    /\ rooms \in [Servers -> UNION {[keys -> Nat \ {0}] : keys \in SUBSET (Rooms \cup Requests)}]
    /\ \A r \in Requests :
         /\ at[r] \in {"choosing", "placed", "playing"} => request[r] \in Asked
         /\ at[r] \in {"placed", "playing"} => chosen[r] \in Servers

\* What the requests read.
ReadTypes ==
    /\ Told(reports)
    /\ snapshot = [r \in Requests |-> snapshot[r]]
    /\ \A r \in Requests : Told(snapshot[r])
    /\ Placement!Configured => \A s \in DOMAIN reports : DOMAIN reports[s].rooms = {}

\* Who plays is in an open room, and a room counts who plays in it.
RoomsAreCounted ==
    /\ \A r \in Requests : at[r] = "playing" => request[r].room \in DOMAIN rooms[chosen[r]]
    /\ \A s \in Servers : \A key \in DOMAIN rooms[s] :
         rooms[s][key] = Placement!Sum(PlayingIn(at, chosen, request, s, key))

PlaceInv == PlaceTypes /\ ReadTypes /\ RoomsAreCounted /\ SeatsAreBooked /\ RoomsStayTogether

\* Sizes are numbers, for finitely many requests.
LEMMA SizesAreNumbers ==
    ASSUME NEW R \in SUBSET Requests, NEW wishes, \A r \in R : wishes[r] \in Asked
    PROVE  LET sizes == [r \in R |-> wishes[r].size] IN
           IsFiniteSet(DOMAIN sizes) /\ \A x \in DOMAIN sizes : sizes[x] \in Nat \ {0}
BY PlacementConstants, FS_Subset DEF Asked

LEMMA ExpectedAreNumbers ==
    ASSUME NEW P, NEW C, NEW W, NEW s,
           \A r \in Requests : P[r] \in {"placed", "playing"} => W[r] \in Asked
    PROVE  /\ IsFiniteSet(DOMAIN ExpectedIn(P, C, W, s))
           /\ \A x \in DOMAIN ExpectedIn(P, C, W, s) : ExpectedIn(P, C, W, s)[x] \in Nat
<1> DEFINE R == {q \in Requests : P[q] = "placed" /\ C[q] = s}
<1>1. R \in SUBSET Requests /\ \A r \in R : W[r] \in Asked
    OBVIOUS
<1>2. ExpectedIn(P, C, W, s) = [r \in R |-> W[r].size]
    BY DEF ExpectedIn
<1> HIDE DEF R
<1> QED
    BY <1>1, <1>2, SizesAreNumbers

LEMMA PlayingAreNumbers ==
    ASSUME NEW P, NEW C, NEW W, NEW s, NEW key,
           \A r \in Requests : P[r] \in {"placed", "playing"} => W[r] \in Asked
    PROVE  /\ IsFiniteSet(DOMAIN PlayingIn(P, C, W, s, key))
           /\ \A x \in DOMAIN PlayingIn(P, C, W, s, key) :
                PlayingIn(P, C, W, s, key)[x] \in Nat \ {0}
<1> DEFINE R == {q \in Requests : P[q] = "playing" /\ C[q] = s /\ W[q].room = key}
<1>1. R \in SUBSET Requests /\ \A r \in R : W[r] \in Asked
    OBVIOUS
<1>2. PlayingIn(P, C, W, s, key) = [r \in R |-> W[r].size]
    BY DEF PlayingIn
<1> HIDE DEF R
<1> QED
    BY <1>1, <1>2, SizesAreNumbers

\* The players of a server are numbers, for finitely many rooms.
LEMMA RoomsAreNumbers ==
    ASSUME NEW f \in UNION {[keys -> Nat \ {0}] : keys \in SUBSET (Rooms \cup Requests)}
    PROVE  IsFiniteSet(DOMAIN f) /\ \A x \in DOMAIN f : f[x] \in Nat
<1>1. DOMAIN f \in SUBSET (Rooms \cup Requests) /\ \A x \in DOMAIN f : f[x] \in Nat
    OBVIOUS
<1>2. IsFiniteSet(Rooms \cup Requests)
    BY PlacementConstants, FS_Union
<1> QED
    BY <1>1, <1>2, FS_Subset

\* What a server publishes.
LEMMA CurrentTells ==
    ASSUME NEW s \in Servers
    PROVE  /\ Placement!Current(s).players = Placement!Players(s)
           /\ Placement!Current(s).max_players = Capacity[s].max_players
           /\ Placement!Current(s).rooms = rooms[s]
BY DEF Placement!Current

\* The initial states.
LEMMA PlaceInit == Init => PlaceInv
<1> SUFFICES ASSUME Init PROVE PlaceInv
    OBVIOUS
<1>1. Placement!Init
    BY DEF Init
<1>2. /\ request = [r \in Requests |-> <<>>] /\ at = [r \in Requests |-> "idle"]
      /\ snapshot = [r \in Requests |-> <<>>] /\ chosen = [r \in Requests |-> 0]
      /\ rooms = [s \in Servers |-> <<>>] /\ excused = {} /\ split = {}
      /\ reports = [s \in Servers |-> Placement!Current(s)]
    BY <1>1, PlacementConstants DEF Placement!Init
<1>3. <<>> \in UNION {[keys -> Nat \ {0}] : keys \in SUBSET (Rooms \cup Requests)}
  <2>1. <<>> \in [{} -> Nat \ {0}]
      OBVIOUS
  <2> QED
      BY <2>1
<1>4. PlaceTypes
    BY <1>2, <1>3 DEF PlaceTypes
<1>5. \A s \in Servers : Placement!Players(s) = 0
  <2>1. DOMAIN <<>> = {} /\ IsFiniteSet({})
      BY FS_EmptySet
  <2>2. Placement!Sum(<<>>) = 0
      BY <2>1, SumIsNumber
  <2> QED
      BY <1>2, <2>2 DEF Placement!Players
<1>6. ReadTypes
  <2>1. \A s \in Servers : /\ Placement!Current(s).players = 0
                           /\ Placement!Current(s).max_players = Capacity[s].max_players
                           /\ Placement!Current(s).rooms = <<>>
      BY <1>2, <1>5, CurrentTells
  <2>2. Told(reports)
      BY <1>2, <2>1 DEF Told
  <2>3. \A r \in Requests : Told(snapshot[r])
      BY <1>2 DEF Told
  <2> QED
      BY <1>2, <2>1, <2>2, <2>3 DEF ReadTypes
<1>7. RoomsAreCounted
    BY <1>2 DEF RoomsAreCounted
<1>8. SeatsAreBooked
  <2> SUFFICES ASSUME NEW s \in Servers
               PROVE  Placement!Load(s) <= Placement!AtLeastOne(Capacity[s].max_players)
      BY DEF SeatsAreBooked, Placement!SeatsAreBooked
  <2> DEFINE f == [r \in {r \in Requests : at[r] = "placed" /\ chosen[r] = s} |-> request[r].size]
  <2>1. DOMAIN f = {} /\ IsFiniteSet({})
      BY <1>2, FS_EmptySet
  <2>2. Placement!Expected(s) = Placement!Sum(f)
      BY DEF Placement!Expected
  <2> HIDE DEF f
  <2>3. Placement!Sum(f) = 0
      BY <2>1, SumIsNumber
  <2> QED
      BY <1>5, <2>2, <2>3, PlacementConstants DEF Placement!Load, Placement!AtLeastOne
<1>9. RoomsStayTogether
    BY <1>2 DEF RoomsStayTogether, Placement!RoomsStayTogether, Placement!Occupies
<1> QED
    BY <1>4, <1>6, <1>7, <1>8, <1>9 DEF PlaceInv

-----------------------------------------------------------------------------
(* The steps that give, take or leave seats.                               *)

\* The requests q of which a step changes nothing.
Same(q) == at'[q] = at[q] /\ chosen'[q] = chosen[q] /\ request'[q] = request[q]

\* Nobody with a seat gains, loses or changes it.
SeatsStay ==
    /\ rooms' = rooms /\ excused \subseteq excused' /\ split \subseteq split'
    /\ \A q \in Requests :
         Same(q) \/ (at[q] \notin {"placed", "playing"} /\ at'[q] \notin {"placed", "playing"})

\* A request gets a seat that was reported, and excuses what it could not see.
TakesSeat(r) ==
    LET c == chosen'[r]
        key == request[r].room
    IN  /\ at[r] = "choosing" /\ at'[r] = "placed" /\ c \in Servers /\ request'[r] = request[r]
        /\ \A q \in Requests \ {r} : Same(q)
        /\ rooms' = rooms /\ excused \subseteq excused' /\ split \subseteq split'
        /\ c \notin excused' =>
             request[r].size = 1 /\ (Placement!Load(c) \in Nat =>
                Placement!Load(c) < Placement!AtLeastOne(Capacity[c].max_players))
        /\ (key \in Rooms /\ key \notin split') =>
             \A t \in Servers \ {c} : Placement!Occupies(t, key) => Placement!Occupies(c, key)

\* A roster that is expected comes into a room.
EntersRoom(r, key) ==
    LET s == chosen[r]
        there == IF key \in DOMAIN rooms[s] THEN rooms[s][key] ELSE 0
    IN  /\ at[r] = "placed" /\ at'[r] = "playing" /\ s \in Servers /\ chosen'[r] = s
        /\ request[r] \in Asked /\ request'[r] = [request[r] EXCEPT !.room = key]
        /\ \A q \in Requests \ {r} : Same(q)
        /\ key \in Rooms \cup Requests
        /\ key \in Rooms => key = request[r].room \/ key \in DOMAIN rooms[s]
        /\ rooms' = [rooms EXCEPT ![s] = [k \in DOMAIN rooms[s] \cup {key} |->
                        IF k # key THEN rooms[s][k] ELSE request[r].size + there]]
        /\ excused' = excused /\ split' = split

\* A roster that is expected or plays goes.
GivesUpSeat(r) ==
    LET s == chosen[r]
        key == request[r].room
    IN  /\ at[r] \in {"placed", "playing"} /\ at'[r] = "gone" /\ s \in Servers
        /\ request[r] \in Asked
        /\ \A q \in Requests \ {r} : Same(q)
        /\ rooms' = IF at[r] = "placed" THEN rooms
                    ELSE [rooms EXCEPT ![s] =
                            IF rooms[s][key] = request[r].size
                            THEN [k \in DOMAIN rooms[s] \ {key} |-> rooms[s][k]]
                            ELSE [rooms[s] EXCEPT ![key] = rooms[s][key] - request[r].size]]
        /\ excused' = excused /\ split' = split

\* The choice gives a seat, or refuses.
LEMMA ChooseMoves ==
    ASSUME PlaceTypes, ReadTypes, NEW r \in Requests, Placement!Choose(r),
           Placement!Configured \/ Placement!Live
    PROVE  /\ SeatsStay \/ TakesSeat(r)
           /\ at[r] = "choosing" /\ rooms' = rooms
           /\ IF chosen'[r] = 0
              THEN /\ at' = [at EXCEPT ![r] = "refused"] /\ chosen' = [chosen EXCEPT ![r] = 0]
                   /\ request' = [request EXCEPT ![r] = <<>>]
              ELSE /\ at' = [at EXCEPT ![r] = "placed"] /\ chosen' = [chosen EXCEPT ![r] = chosen'[r]]
                   /\ request' = request /\ chosen'[r] \in Servers
<1> DEFINE read == IF Placement!Live THEN snapshot[r] ELSE reports
           choice == IF Placement!Live THEN Placement!ChooseLive(read, request[r], drained)
                     ELSE Placement!ChooseConfigured(read, request[r])
           key == request[r].room
           seen(t) == t \in Placement!Candidates(read, request[r], drained) /\ Placement!Hosts(read[t], key)
           closed == Placement!Hosts(read[choice], key) /\ ~Placement!Occupies(choice, key)
<1>1. /\ at[r] = "choosing" /\ rooms' = rooms
      /\ chosen' = [chosen EXCEPT ![r] = choice]
      /\ at' = [at EXCEPT ![r] = IF choice = 0 THEN "refused" ELSE "placed"]
      /\ request' = [request EXCEPT ![r] = IF choice = 0 THEN <<>> ELSE @]
  <2> HIDE DEF read
  <2> QED
      BY PlacementConstants DEF Placement!Choose, Placement!serverVars, read
<1>2. excused' = IF choice # 0 /\ (read[choice].players < Placement!Load(choice) \/ request[r].size > 1)
                 THEN excused \cup {choice} ELSE excused
    BY PlacementConstants DEF Placement!Choose
<1>3. split' = IF /\ choice # 0 /\ key \in Rooms
                  /\ \E t \in Servers \ {choice} : Placement!Occupies(t, key) /\ (~seen(t) \/ closed)
               THEN split \cup {key} ELSE split
    BY PlacementConstants DEF Placement!Choose
<1>4. request[r] \in Asked /\ request[r].size \in {1, 2}
    BY <1>1 DEF PlaceTypes, Asked
<1>5. Told(read)
    BY DEF ReadTypes
<1>6. chosen'[r] = choice
    BY <1>1 DEF PlaceTypes
<1>7. excused \subseteq excused' /\ split \subseteq split'
    BY <1>2, <1>3
<1>8. ASSUME choice # 0
      PROVE  choice \in DOMAIN read /\ read[choice].players < Placement!AtLeastOne(Capacity[choice].max_players)
  <2>1. \/ choice = Placement!ChooseLive(read, request[r], drained)
        \/ choice = Placement!ChooseConfigured(read, request[r])
      OBVIOUS
  <2> HIDE DEF choice, read
  <2> QED
      BY <1>4, <1>5, <1>8, <2>1, ChosenHasSeat
<1>9. ASSUME choice # 0 PROVE choice \in Servers
    BY <1>5, <1>8, <1>9 DEF Told
<1>10. ASSUME choice # 0, choice \notin excused'
       PROVE  /\ request[r].size = 1
              /\ Placement!Load(choice) < Placement!AtLeastOne(Capacity[choice].max_players)
                 \/ Placement!Load(choice) \notin Nat
  <2>1. ~(read[choice].players < Placement!Load(choice)) /\ ~(request[r].size > 1)
      BY <1>2, <1>10
  <2>2. read[choice].players \in Nat /\ read[choice].players < Placement!AtLeastOne(Capacity[choice].max_players)
      BY <1>5, <1>8, <1>10 DEF Told
  <2>3. Placement!AtLeastOne(Capacity[choice].max_players) \in Nat
      BY <1>9, <1>10, PlacementConstants DEF Placement!AtLeastOne
  <2> HIDE DEF choice, read
  <2> QED
      BY <1>4, <2>1, <2>2, <2>3
<1>11. ASSUME choice # 0, key \in Rooms, key \notin split', NEW t \in Servers \ {choice},
              Placement!Occupies(t, key)
       PROVE  Placement!Occupies(choice, key)
  <2>1. seen(t) /\ ~closed
      BY <1>3, <1>11
  <2>2. CASE Placement!Live
    <3>1. choice = Placement!ChooseLive(read, request[r], drained)
        BY <2>2
    <3>2. t \in Placement!Candidates(read, request[r], drained) /\ Placement!Hosts(read[t], request[r].room)
        BY <2>1
    <3>3. choice # 0 /\ request[r].room \in Rooms
        BY <1>11
    <3> HIDE DEF choice, read
    <3>4. Placement!Hosts(read[choice], request[r].room)
        BY <1>4, <1>5, <3>1, <3>2, <3>3, RoomsAreJoined
    <3> QED
        BY <2>1, <3>4
  <2>3. CASE ~Placement!Live
    <3>1. t \in DOMAIN reports /\ key \in DOMAIN reports[t].rooms
        BY <2>1, <2>3 DEF Placement!Candidates, Placement!Accepts, Placement!Hosts
    <3> QED
        BY <2>3, <3>1 DEF ReadTypes
  <2> QED
      BY <2>2, <2>3
<1> HIDE DEF read, choice, key, seen, closed
<1>12. CASE choice = 0
  <2>1. SeatsStay
      BY <1>1, <1>7, <1>12 DEF SeatsStay, Same, PlaceTypes
  <2> QED
      BY <1>1, <1>6, <1>12, <2>1
<1>13. CASE choice # 0
  <2>1. request' = request /\ at' = [at EXCEPT ![r] = "placed"] /\ chosen' = [chosen EXCEPT ![r] = chosen'[r]]
        /\ chosen'[r] \in Servers
      BY <1>1, <1>6, <1>9, <1>13 DEF PlaceTypes
  <2>2. \A t \in Servers \ {chosen'[r]} :
            (request[r].room \in Rooms /\ request[r].room \notin split' /\ Placement!Occupies(t, request[r].room))
              => Placement!Occupies(chosen'[r], request[r].room)
      BY <1>6, <1>11, <1>13 DEF key
  <2>3. chosen'[r] \notin excused' =>
            request[r].size = 1 /\ (Placement!Load(chosen'[r]) \in Nat =>
              Placement!Load(chosen'[r]) < Placement!AtLeastOne(Capacity[chosen'[r]].max_players))
      BY <1>6, <1>10, <1>13
  <2>4. at'[r] = "placed" /\ \A q \in Requests \ {r} : Same(q)
      BY <2>1 DEF Same, PlaceTypes
  <2>5. TakesSeat(r)
      BY <1>1, <1>7, <2>1, <2>2, <2>3, <2>4 DEF TakesSeat
  <2> QED
      BY <1>1, <1>6, <1>13, <2>1, <2>5
<1> QED
    BY <1>12, <1>13

\* Who joins a room was expected on its server.
LEMMA JoinMoves ==
    ASSUME PlaceTypes, NEW r \in Requests, Placement!Join(r)
    PROVE  \E key : /\ EntersRoom(r, key)
                    /\ at' = [at EXCEPT ![r] = "playing"] /\ chosen' = chosen
                    /\ request' = [request EXCEPT ![r].room = key]
<1> DEFINE s == chosen[r]
           keys == IF request[r].room \in Rooms THEN {request[r].room}
                   ELSE IF request[r].room = "new" THEN {r} ELSE DOMAIN rooms[s] \cup {r}
           with(key) == [k \in DOMAIN rooms[s] \cup {key} |->
                            IF k # key THEN rooms[s][k]
                            ELSE request[r].size + IF key \in DOMAIN rooms[s] THEN rooms[s][key] ELSE 0]
<1>1. at[r] = "placed" /\ s \in Servers /\ request[r] \in Asked
    BY DEF Placement!Join, PlaceTypes
<1>2. PICK key \in keys : /\ rooms' = [rooms EXCEPT ![s] = with(key)]
                          /\ request' = [request EXCEPT ![r].room = key]
    BY Zenon DEF Placement!Join
<1>3. /\ at' = [at EXCEPT ![r] = "playing"] /\ chosen' = chosen
      /\ excused' = excused /\ split' = split
    BY DEF Placement!Join, Placement!history
<1>4. DOMAIN rooms[s] \subseteq Rooms \cup Requests
    BY <1>1 DEF PlaceTypes
<1>5. key \in Rooms \cup Requests /\ (key \in Rooms => key = request[r].room \/ key \in DOMAIN rooms[s])
    BY <1>4, PlacementConstants
<1>6. /\ at'[r] = "playing" /\ chosen'[r] = s /\ request'[r] = [request[r] EXCEPT !.room = key]
      /\ \A q \in Requests \ {r} : Same(q)
    BY <1>1, <1>2, <1>3 DEF PlaceTypes, Same
<1>7. EntersRoom(r, key)
    BY <1>1, <1>2, <1>3, <1>5, <1>6, Zenon DEF EntersRoom
<1> QED
    BY <1>2, <1>3, <1>7, Zenon

\* Who leaves gives up the place, and the seat in the room.
LEMMA LeaveMoves ==
    ASSUME PlaceTypes, NEW r \in Requests, Placement!Leave(r)
    PROVE  /\ GivesUpSeat(r)
           /\ at' = [at EXCEPT ![r] = "gone"] /\ chosen' = [chosen EXCEPT ![r] = 0]
           /\ request' = [request EXCEPT ![r] = <<>>]
<1>1. at[r] \in {"placed", "playing"} /\ chosen[r] \in Servers /\ request[r] \in Asked
    BY DEF Placement!Leave, PlaceTypes
<1>2. /\ at' = [at EXCEPT ![r] = "gone"] /\ chosen' = [chosen EXCEPT ![r] = 0]
      /\ excused' = excused /\ split' = split
      /\ request' = [request EXCEPT ![r] = <<>>]
    BY PlacementConstants DEF Placement!Leave, Placement!history
<1> DEFINE s == chosen[r]
           key == request[r].room
<1>3. rooms' = IF at[r] = "placed" THEN rooms
               ELSE [rooms EXCEPT ![s] =
                       IF rooms[s][key] = request[r].size
                       THEN [k \in DOMAIN rooms[s] \ {key} |-> rooms[s][k]]
                       ELSE [rooms[s] EXCEPT ![key] = rooms[s][key] - request[r].size]]
    BY Zenon DEF Placement!Leave
<1>4. at'[r] = "gone" /\ \A q \in Requests \ {r} : Same(q)
    BY <1>2 DEF PlaceTypes, Same
<1>5. GivesUpSeat(r)
    BY <1>1, <1>2, <1>3, <1>4, Zenon DEF GivesUpSeat
<1> QED
    BY <1>2, <1>5, Zenon

\* Where seats stay, the same requests are counted.
LEMMA SeatsStayCounted ==
    ASSUME SeatsStay
    PROVE  /\ \A s : ExpectedIn(at', chosen', request', s) = ExpectedIn(at, chosen, request, s)
           /\ \A s, key : PlayingIn(at', chosen', request', s, key) = PlayingIn(at, chosen, request, s, key)
<1>1. \A q \in Requests :
          \/ at'[q] = at[q] /\ chosen'[q] = chosen[q] /\ request'[q] = request[q]
          \/ at[q] \notin {"placed", "playing"} /\ at'[q] \notin {"placed", "playing"}
    BY DEF SeatsStay, Same
<1>2. ASSUME NEW s
      PROVE  ExpectedIn(at', chosen', request', s) = ExpectedIn(at, chosen, request, s)
  <2> DEFINE R == {q \in Requests : at[q] = "placed" /\ chosen[q] = s}
  <2>1. {q \in Requests : at'[q] = "placed" /\ chosen'[q] = s} = R
      BY <1>1
  <2>2. \A r \in R : request'[r].size = request[r].size
      BY <1>1
  <2> HIDE DEF R
  <2> QED
      BY <2>1, <2>2 DEF ExpectedIn, R
<1>3. ASSUME NEW s, NEW key
      PROVE  PlayingIn(at', chosen', request', s, key) = PlayingIn(at, chosen, request, s, key)
  <2> DEFINE R == {q \in Requests : at[q] = "playing" /\ chosen[q] = s /\ request[q].room = key}
  <2>1. {q \in Requests : at'[q] = "playing" /\ chosen'[q] = s /\ request'[q].room = key} = R
      BY <1>1
  <2>2. \A r \in R : request'[r].size = request[r].size
      BY <1>1
  <2> HIDE DEF R
  <2> QED
      BY <2>1, <2>2 DEF PlayingIn, R
<1> QED
    BY <1>2, <1>3, Zenon

\* The places of all but one request stay: what changes is what that one counts.
LEMMA ExpectedOfOne ==
    ASSUME PlaceTypes, PlaceTypes', NEW r \in Requests, \A q \in Requests \ {r} : Same(q), NEW s
    PROVE  LET before == Placement!Sum(ExpectedIn(at, chosen, request, s))
               after  == Placement!Sum(ExpectedIn(at', chosen', request', s))
           IN  /\ before \in Nat /\ after \in Nat
               /\ after + (IF at[r] = "placed" /\ chosen[r] = s THEN request[r].size ELSE 0)
                    = before + (IF at'[r] = "placed" /\ chosen'[r] = s THEN request'[r].size ELSE 0)
<1> DEFINE f == ExpectedIn(at, chosen, request, s)
           g == ExpectedIn(at', chosen', request', s)
<1>1. /\ \A q \in Requests : at[q] \in {"placed", "playing"} => request[q] \in Asked
      /\ \A q \in Requests : at'[q] \in {"placed", "playing"} => request'[q] \in Asked
    BY DEF PlaceTypes
<1>2. /\ DOMAIN f = {q \in Requests : at[q] = "placed" /\ chosen[q] = s}
      /\ DOMAIN g = {q \in Requests : at'[q] = "placed" /\ chosen'[q] = s}
      /\ \A x \in DOMAIN f : f[x] = request[x].size
      /\ \A x \in DOMAIN g : g[x] = request'[x].size
    BY DEF ExpectedIn
<1>3. IsFiniteSet(DOMAIN f) /\ \A x \in DOMAIN f : f[x] \in Nat
    BY <1>1, ExpectedAreNumbers
<1>4. IsFiniteSet(DOMAIN g) /\ \A x \in DOMAIN g : g[x] \in Nat
    BY <1>1, ExpectedAreNumbers
<1>5. \A q \in Requests \ {r} : at'[q] = at[q] /\ chosen'[q] = chosen[q] /\ request'[q] = request[q]
    BY DEF Same
<1> HIDE DEF f, g
<1>6. DOMAIN g \ {r} = DOMAIN f \ {r} /\ \A x \in DOMAIN f \ {r} : g[x] = f[x]
    BY <1>2, <1>5
<1>7. /\ Placement!Sum(f) \in Nat /\ Placement!Sum(g) \in Nat
      /\ Placement!Sum(g) + (IF r \in DOMAIN f THEN f[r] ELSE 0)
           = Placement!Sum(f) + (IF r \in DOMAIN g THEN g[r] ELSE 0)
    BY <1>3, <1>4, <1>6, SumChanges
<1>8. /\ (IF r \in DOMAIN f THEN f[r] ELSE 0)
           = (IF at[r] = "placed" /\ chosen[r] = s
              THEN request[r].size ELSE 0)
      /\ (IF r \in DOMAIN g THEN g[r] ELSE 0)
           = (IF at'[r] = "placed" /\ chosen'[r] = s
              THEN request'[r].size ELSE 0)
    BY <1>2
<1> QED
    BY <1>7, <1>8 DEF f, g

LEMMA PlayingOfOne ==
    ASSUME PlaceTypes, PlaceTypes', NEW r \in Requests, \A q \in Requests \ {r} : Same(q), NEW s, NEW key
    PROVE  LET before == Placement!Sum(PlayingIn(at, chosen, request, s, key))
               after  == Placement!Sum(PlayingIn(at', chosen', request', s, key))
           IN  /\ before \in Nat /\ after \in Nat
               /\ after + (IF at[r] = "playing" /\ chosen[r] = s /\ request[r].room = key
                           THEN request[r].size ELSE 0)
                    = before + (IF at'[r] = "playing" /\ chosen'[r] = s /\ request'[r].room = key
                                THEN request'[r].size ELSE 0)
<1> DEFINE f == PlayingIn(at, chosen, request, s, key)
           g == PlayingIn(at', chosen', request', s, key)
<1>1. /\ \A q \in Requests : at[q] \in {"placed", "playing"} => request[q] \in Asked
      /\ \A q \in Requests : at'[q] \in {"placed", "playing"} => request'[q] \in Asked
    BY DEF PlaceTypes
<1>2. /\ DOMAIN f = {q \in Requests : at[q] = "playing" /\ chosen[q] = s /\ request[q].room = key}
      /\ DOMAIN g = {q \in Requests : at'[q] = "playing" /\ chosen'[q] = s /\ request'[q].room = key}
      /\ \A x \in DOMAIN f : f[x] = request[x].size
      /\ \A x \in DOMAIN g : g[x] = request'[x].size
    BY DEF PlayingIn
<1>3. IsFiniteSet(DOMAIN f) /\ \A x \in DOMAIN f : f[x] \in Nat
    BY <1>1, PlayingAreNumbers
<1>4. IsFiniteSet(DOMAIN g) /\ \A x \in DOMAIN g : g[x] \in Nat
    BY <1>1, PlayingAreNumbers
<1>5. \A q \in Requests \ {r} : at'[q] = at[q] /\ chosen'[q] = chosen[q] /\ request'[q] = request[q]
    BY DEF Same
<1> HIDE DEF f, g
<1>6. DOMAIN g \ {r} = DOMAIN f \ {r} /\ \A x \in DOMAIN f \ {r} : g[x] = f[x]
    BY <1>2, <1>5
<1>7. /\ Placement!Sum(f) \in Nat /\ Placement!Sum(g) \in Nat
      /\ Placement!Sum(g) + (IF r \in DOMAIN f THEN f[r] ELSE 0)
           = Placement!Sum(f) + (IF r \in DOMAIN g THEN g[r] ELSE 0)
    BY <1>3, <1>4, <1>6, SumChanges
<1>8. /\ (IF r \in DOMAIN f THEN f[r] ELSE 0)
           = (IF at[r] = "playing" /\ chosen[r] = s /\ request[r].room = key
              THEN request[r].size ELSE 0)
      /\ (IF r \in DOMAIN g THEN g[r] ELSE 0)
           = (IF at'[r] = "playing" /\ chosen'[r] = s /\ request'[r].room = key
              THEN request'[r].size ELSE 0)
    BY <1>2
<1> QED
    BY <1>7, <1>8 DEF f, g

\* What a server carries, there and expected.
LEMMA LoadIsSum ==
    /\ \A s : Placement!Load(s) = Placement!Sum(rooms[s]) + Placement!Sum(ExpectedIn(at, chosen, request, s))
    /\ \A s : Placement!Load(s)' = Placement!Sum(rooms'[s]) + Placement!Sum(ExpectedIn(at', chosen', request', s))
BY DEF Placement!Load, Placement!Players, Placement!Expected, ExpectedIn

\* Every step leaves the seats, gives one, moves a roster into its room, or frees a seat.
LEMMA SeatSteps ==
    ASSUME PlaceTypes, ReadTypes, [Next]_vars
    PROVE  SeatsStay \/ \E r \in Requests : TakesSeat(r) \/ GivesUpSeat(r) \/ \E key : EntersRoom(r, key)
<1>1. CASE UNCHANGED placementVars
    BY <1>1 DEF placementVars, SeatsStay, Same
<1>2. ASSUME NEW r \in Requests, Placement!Ask(r) PROVE SeatsStay
    BY <1>2 DEF Placement!Ask, SeatsStay, Same, PlaceTypes, Placement!serverVars, Placement!history
<1>3. ASSUME NEW r \in Requests, NEW s \in Servers, Placement!ReadCapacity(r, s) PROVE SeatsStay
    BY <1>3 DEF Placement!ReadCapacity, SeatsStay, Same, Placement!serverVars, Placement!history
<1>4. ASSUME NEW s \in Servers, Placement!LiveServer(s) PROVE SeatsStay
    BY <1>4 DEF Placement!LiveServer, Placement!SetReady, Placement!PublishCapacity, Placement!ExpireCapacity,
        Placement!DrainOrUndrain, Placement!ServerEvent, SeatsStay, Same, Placement!requestVars, Placement!history
<1>5. CASE Placement!Next
    BY <1>2, <1>3, <1>4, <1>5, ChooseMoves, JoinMoves, LeaveMoves, Zenon DEF Placement!Next
<1> QED
    BY <1>1, <1>5 DEF Next, vars, placementVars

\* The seats of a server.
LEMMA StepSeatsAreBooked ==
    ASSUME PlaceTypes, PlaceTypes', ReadTypes, RoomsAreCounted, SeatsAreBooked, [Next]_vars
    PROVE  SeatsAreBooked'
<1> SUFFICES ASSUME NEW s \in Servers, s \notin excused'
             PROVE  Placement!Load(s)' <= Placement!AtLeastOne(Capacity[s].max_players)
    BY DEF SeatsAreBooked, Placement!SeatsAreBooked, Placement!AtLeastOne
<1> DEFINE cap == Placement!AtLeastOne(Capacity[s].max_players)
           there == Placement!Sum(rooms[s])
           there2 == Placement!Sum(rooms'[s])
           expected == Placement!Sum(ExpectedIn(at, chosen, request, s))
           expected2 == Placement!Sum(ExpectedIn(at', chosen', request', s))
           size(q) == request[q].size
<1>1. cap \in Nat
    BY PlacementConstants DEF Placement!AtLeastOne
<1>2. Placement!Load(s) = there + expected /\ Placement!Load(s)' = there2 + expected2
    BY LoadIsSum
<1>3. s \notin excused => Placement!Load(s) <= cap
    BY DEF SeatsAreBooked, Placement!SeatsAreBooked
<1>4. /\ \A q \in Requests : at[q] \in {"placed", "playing"} => request[q] \in Asked
      /\ \A q \in Requests : at'[q] \in {"placed", "playing"} => request'[q] \in Asked
    BY DEF PlaceTypes
<1>5. /\ rooms[s] \in UNION {[keys -> Nat \ {0}] : keys \in SUBSET (Rooms \cup Requests)}
      /\ rooms'[s] \in UNION {[keys -> Nat \ {0}] : keys \in SUBSET (Rooms \cup Requests)}
    BY DEF PlaceTypes
<1>6. there \in Nat /\ there2 \in Nat
    BY <1>5, RoomsAreNumbers, SumIsNumber
<1>7. ASSUME NEW r \in Requests, \A q \in Requests \ {r} : Same(q)
      PROVE  /\ expected \in Nat /\ expected2 \in Nat
             /\ expected2 + (IF at[r] = "placed" /\ chosen[r] = s THEN request[r].size ELSE 0)
                  = expected + (IF at'[r] = "placed" /\ chosen'[r] = s THEN request'[r].size ELSE 0)
    BY <1>7, ExpectedOfOne
<1>8. \A q \in Requests : request[q] \in Asked => size(q) \in Nat \ {0}
    BY DEF Asked
<1>9. CASE SeatsStay
  <2>1. rooms' = rooms /\ s \notin excused
      BY <1>9 DEF SeatsStay
  <2>2. ExpectedIn(at', chosen', request', s) = ExpectedIn(at, chosen, request, s)
      BY <1>9, SeatsStayCounted
  <2> QED
      BY <1>2, <1>3, <2>1, <2>2
<1>10. ASSUME NEW r \in Requests, TakesSeat(r)
       PROVE  Placement!Load(s)' <= cap
  <2>1. there2 = there /\ s \notin excused /\ at[r] = "choosing" /\ at'[r] = "placed" /\ request'[r] = request[r]
      BY <1>10 DEF TakesSeat
  <2>2. /\ expected \in Nat /\ expected2 \in Nat
        /\ expected2 = expected + (IF chosen'[r] = s THEN request[r].size ELSE 0)
    <3>1. \A q \in Requests \ {r} : Same(q)
        BY <1>10 DEF TakesSeat
    <3> HIDE DEF expected, expected2
    <3> QED
        BY <1>7, <2>1, <3>1
  <2>3. CASE chosen'[r] = s
    <3>1. request[r].size = 1 /\ (Placement!Load(s) \in Nat => Placement!Load(s) < cap)
        BY <1>10, <2>3 DEF TakesSeat
    <3> HIDE DEF expected, expected2, there, there2, cap
    <3> QED
        BY <1>1, <1>2, <1>6, <2>1, <2>2, <2>3, <3>1
  <2>4. CASE chosen'[r] # s
    <3> HIDE DEF expected, expected2, there, there2, cap
    <3> QED
        BY <1>1, <1>2, <1>3, <1>6, <2>1, <2>2, <2>4
  <2> QED
      BY <2>3, <2>4
<1>11. ASSUME NEW r \in Requests, NEW key, EntersRoom(r, key)
       PROVE  Placement!Load(s)' <= cap
  <2>1. /\ at[r] = "placed" /\ at'[r] = "playing" /\ s \notin excused
        /\ request[r] \in Asked /\ chosen[r] \in Servers
      BY <1>11 DEF EntersRoom
  <2>2. /\ expected \in Nat /\ expected2 \in Nat
        /\ expected2 + (IF chosen[r] = s THEN request[r].size ELSE 0) = expected
    <3>1. \A q \in Requests \ {r} : Same(q)
        BY <1>11 DEF EntersRoom
    <3> HIDE DEF expected, expected2
    <3> QED
        BY <1>7, <2>1, <3>1
  <2>3. there2 = there + (IF chosen[r] = s THEN request[r].size ELSE 0)
    <3>1. CASE chosen[r] # s
      <4>1. rooms'[s] = rooms[s]
          BY <1>11, <3>1 DEF EntersRoom, PlaceTypes
      <4> QED
          BY <1>6, <3>1, <4>1
    <3>2. CASE chosen[r] = s
      <4> DEFINE f == rooms[s]
                 g == rooms'[s]
                 was == IF key \in DOMAIN rooms[s] THEN rooms[s][key] ELSE 0
      <4>1. g = [k \in DOMAIN f \cup {key} |-> IF k # key THEN f[k] ELSE request[r].size + was]
          BY <1>11, <3>2 DEF EntersRoom, PlaceTypes
      <4>2. /\ IsFiniteSet(DOMAIN f) /\ \A x \in DOMAIN f : f[x] \in Nat
            /\ IsFiniteSet(DOMAIN g) /\ \A x \in DOMAIN g : g[x] \in Nat
          BY <1>5, RoomsAreNumbers
      <4> HIDE DEF f, g
      <4>3. DOMAIN g \ {key} = DOMAIN f \ {key} /\ \A x \in DOMAIN f \ {key} : g[x] = f[x]
          BY <4>1
      <4>4. Placement!Sum(g) + (IF key \in DOMAIN f THEN f[key] ELSE 0)
              = Placement!Sum(f) + (IF key \in DOMAIN g THEN g[key] ELSE 0)
          BY <4>2, <4>3, SumChanges
      <4>5. (IF key \in DOMAIN g THEN g[key] ELSE 0) = request[r].size + was
          BY <4>1
      <4>6. was = (IF key \in DOMAIN f THEN f[key] ELSE 0) /\ was \in Nat
          BY <4>2 DEF f
      <4>7. size(r) \in Nat
          BY <1>8, <2>1
      <4>8. there2 = Placement!Sum(g) /\ there = Placement!Sum(f)
          BY DEF f, g
      <4> HIDE DEF was, there, there2, size
      <4>9. request[r].size = size(r)
          BY DEF size
      <4> QED
          BY <1>6, <3>2, <4>4, <4>5, <4>6, <4>7, <4>8, <4>9
    <3> QED
        BY <3>1, <3>2
  <2>4. chosen[r] = s => size(r) \in Nat
      BY <1>8, <2>1
  <2> HIDE DEF expected, expected2, there, there2, cap
  <2> QED
      BY <1>1, <1>2, <1>3, <1>6, <2>1, <2>2, <2>3, <2>4
<1>12. ASSUME NEW r \in Requests, GivesUpSeat(r)
       PROVE  Placement!Load(s)' <= cap
  <2>1. /\ at[r] \in {"placed", "playing"} /\ at'[r] = "gone" /\ s \notin excused
        /\ request[r] \in Asked /\ chosen[r] \in Servers /\ size(r) \in Nat \ {0}
      BY <1>8, <1>12 DEF GivesUpSeat
  <2>2. expected \in Nat /\ expected2 \in Nat /\ expected2 <= expected
    <3>1. \A q \in Requests \ {r} : Same(q)
        BY <1>12 DEF GivesUpSeat
    <3> HIDE DEF expected, expected2
    <3> QED
        BY <1>7, <2>1, <3>1
  <2>3. there2 <= there
    <3>1. CASE at[r] = "placed" \/ chosen[r] # s
      <4>1. rooms'[s] = rooms[s]
          BY <1>12, <3>1 DEF GivesUpSeat, PlaceTypes
      <4> QED
          BY <1>6, <4>1
    <3>2. CASE at[r] = "playing" /\ chosen[r] = s
      <4> DEFINE f == rooms[s]
                 g == rooms'[s]
                 key == request[r].room
      <4>1. g = IF f[key] = request[r].size THEN [k \in DOMAIN f \ {key} |-> f[k]]
                ELSE [f EXCEPT ![key] = f[key] - request[r].size]
          BY <1>12, <3>2 DEF GivesUpSeat, PlaceTypes
      <4>2. /\ IsFiniteSet(DOMAIN f) /\ \A x \in DOMAIN f : f[x] \in Nat
            /\ IsFiniteSet(DOMAIN g) /\ \A x \in DOMAIN g : g[x] \in Nat
          BY <1>5, RoomsAreNumbers
      <4>3. key \in DOMAIN f
          BY <3>2 DEF RoomsAreCounted
      <4> HIDE DEF f, g, key
      <4>4. DOMAIN g \ {key} = DOMAIN f \ {key} /\ \A x \in DOMAIN f \ {key} : g[x] = f[x]
          BY <4>1
      <4>5. Placement!Sum(g) + (IF key \in DOMAIN f THEN f[key] ELSE 0)
              = Placement!Sum(f) + (IF key \in DOMAIN g THEN g[key] ELSE 0)
          BY <4>2, <4>4, SumChanges
      <4>6. (IF key \in DOMAIN g THEN g[key] ELSE 0) \in Nat
            /\ (IF key \in DOMAIN g THEN g[key] ELSE 0) <= f[key]
        <5>1. CASE f[key] = request[r].size
            BY <4>1, <4>2, <4>3, <5>1
        <5>2. CASE f[key] # request[r].size
            BY <2>1, <4>1, <4>2, <4>3, <5>2
        <5> QED
            BY <5>1, <5>2
      <4>7. there2 = Placement!Sum(g) /\ there = Placement!Sum(f)
          BY DEF f, g
      <4> HIDE DEF there, there2
      <4> QED
          BY <1>6, <4>2, <4>3, <4>5, <4>6, <4>7
    <3> QED
        BY <2>1, <3>1, <3>2
  <2> HIDE DEF expected, expected2, there, there2, cap
  <2> QED
      BY <1>1, <1>2, <1>3, <1>6, <2>1, <2>2, <2>3
<1> QED
    BY <1>9, <1>10, <1>11, <1>12, SeatSteps

\* The rooms' players.
LEMMA StepRoomsAreCounted ==
    ASSUME PlaceTypes, PlaceTypes', ReadTypes, RoomsAreCounted, [Next]_vars
    PROVE  RoomsAreCounted'
<1> DEFINE Played(s, key) == Placement!Sum(PlayingIn(at, chosen, request, s, key))
           Plays(s, key)  == Placement!Sum(PlayingIn(at', chosen', request', s, key))
           Open == \A r \in Requests : at'[r] = "playing" => request'[r].room \in DOMAIN rooms'[chosen'[r]]
           Counted == \A s \in Servers : \A key \in DOMAIN rooms'[s] : rooms'[s][key] = Plays(s, key)
<1>1. /\ \A r \in Requests : at[r] = "playing" => request[r].room \in DOMAIN rooms[chosen[r]]
      /\ \A s \in Servers : \A key \in DOMAIN rooms[s] : rooms[s][key] = Played(s, key)
    BY DEF RoomsAreCounted
<1>2. Open /\ Counted => RoomsAreCounted'
    BY DEF RoomsAreCounted
<1>3. \A q \in Requests : request[q] \in Asked => request[q].size \in Nat \ {0}
    BY DEF Asked
<1>4. CASE SeatsStay
  <2>1. rooms' = rooms /\ \A s, key : Plays(s, key) = Played(s, key)
      BY <1>4, SeatsStayCounted DEF SeatsStay
  <2> HIDE DEF Plays, Played
  <2>2. Counted
      BY <1>1, <2>1
  <2>3. Open
      BY <1>1, <1>4 DEF SeatsStay, Same
  <2> QED
      BY <1>2, <2>2, <2>3
<1>5. ASSUME NEW r \in Requests, TakesSeat(r) PROVE Open /\ Counted
  <2>1. /\ rooms' = rooms /\ at[r] = "choosing" /\ at'[r] = "placed"
        /\ \A q \in Requests \ {r} : Same(q)
      BY <1>5 DEF TakesSeat
  <2>2. \A s, key : Plays(s, key) = Played(s, key)
    <3> SUFFICES ASSUME NEW s, NEW key PROVE Plays(s, key) = Played(s, key)
        OBVIOUS
    <3>1. /\ Played(s, key) \in Nat /\ Plays(s, key) \in Nat
          /\ Plays(s, key) + (IF at[r] = "playing" /\ chosen[r] = s /\ request[r].room = key
                              THEN request[r].size ELSE 0)
               = Played(s, key) + (IF at'[r] = "playing" /\ chosen'[r] = s /\ request'[r].room = key
                                   THEN request'[r].size ELSE 0)
        BY <2>1, PlayingOfOne
    <3> HIDE DEF Played, Plays
    <3> QED
        BY <2>1, <3>1
  <2> HIDE DEF Plays, Played
  <2>3. Counted
      BY <1>1, <2>1, <2>2
  <2>4. Open
      BY <1>1, <2>1 DEF Same
  <2> QED
      BY <2>3, <2>4
<1>6. ASSUME NEW r \in Requests, NEW key, EntersRoom(r, key) PROVE Open /\ Counted
  <2> DEFINE s == chosen[r]
             was == IF key \in DOMAIN rooms[s] THEN rooms[s][key] ELSE 0
  <2>1. /\ at[r] = "placed" /\ at'[r] = "playing" /\ s \in Servers /\ chosen'[r] = s
        /\ request[r] \in Asked /\ request'[r] = [request[r] EXCEPT !.room = key]
        /\ \A q \in Requests \ {r} : Same(q)
      BY <1>6 DEF EntersRoom
  <2>2. request'[r].room = key /\ request'[r].size = request[r].size
      BY <2>1 DEF Asked
  <2>3. /\ rooms'[s] = [k \in DOMAIN rooms[s] \cup {key} |->
                          IF k # key THEN rooms[s][k] ELSE request[r].size + was]
        /\ \A t \in Servers \ {s} : rooms'[t] = rooms[t]
      BY <1>6 DEF EntersRoom, PlaceTypes
  <2>4. ASSUME NEW t, NEW k
        PROVE  /\ Played(t, k) \in Nat /\ Plays(t, k) \in Nat
               /\ Plays(t, k) = Played(t, k) + (IF s = t /\ key = k THEN request[r].size ELSE 0)
    <3>1. /\ Played(t, k) \in Nat /\ Plays(t, k) \in Nat
          /\ Plays(t, k) + (IF at[r] = "playing" /\ chosen[r] = t /\ request[r].room = k
                              THEN request[r].size ELSE 0)
               = Played(t, k) + (IF at'[r] = "playing" /\ chosen'[r] = t /\ request'[r].room = k
                                   THEN request'[r].size ELSE 0)
      <4>1. \A q \in Requests \ {r} : Same(q)
          BY <2>1
      <4> HIDE DEF s, was
      <4> QED
          BY <4>1, PlayingOfOne
    <3> HIDE DEF Played, Plays
    <3> QED
        BY <2>1, <2>2, <3>1
  <2>5. key \notin DOMAIN rooms[s] => Played(s, key) = 0
    <3> SUFFICES ASSUME key \notin DOMAIN rooms[s] PROVE Played(s, key) = 0
        OBVIOUS
    <3> DEFINE f == PlayingIn(at, chosen, request, s, key)
    <3>1. DOMAIN f = {}
        BY <1>1 DEF PlayingIn
    <3>2. IsFiniteSet(DOMAIN f) /\ \A x \in DOMAIN f : f[x] \in Nat
        BY <3>1, FS_EmptySet
    <3> HIDE DEF f
    <3>3. Placement!Sum(f) = 0
        BY <3>1, <3>2, SumIsNumber
    <3> QED
        BY <3>3 DEF f
  <2>6. Played(s, key) = was
      BY <1>1, <2>1, <2>5
  <2> HIDE DEF Plays, Played, was
  <2>7. Counted
    <3> SUFFICES ASSUME NEW t \in Servers, NEW k \in DOMAIN rooms'[t] PROVE rooms'[t][k] = Plays(t, k)
        OBVIOUS
    <3>1. CASE t = s /\ k = key
      <4>1. rooms'[t][k] = request[r].size + was
          BY <2>3, <3>1
      <4>2. Plays(t, k) = was + request[r].size /\ was \in Nat /\ request[r].size \in Nat
          BY <1>3, <2>1, <2>4, <2>6, <3>1
      <4> QED
          BY <4>1, <4>2
    <3>2. CASE ~(t = s /\ k = key)
      <4>1. k \in DOMAIN rooms[t] /\ rooms'[t][k] = rooms[t][k]
          BY <2>3, <3>2
      <4>2. Plays(t, k) = Played(t, k)
          BY <2>4, <3>2
      <4> QED
          BY <1>1, <4>1, <4>2
    <3> QED
        BY <3>1, <3>2
  <2>8. \A t \in Servers : DOMAIN rooms[t] \subseteq DOMAIN rooms'[t]
      BY <2>3
  <2>9. Open
    <3> SUFFICES ASSUME NEW q \in Requests, at'[q] = "playing"
                 PROVE  request'[q].room \in DOMAIN rooms'[chosen'[q]]
        OBVIOUS
    <3>1. CASE q = r
        BY <2>1, <2>2, <2>3, <3>1
    <3>2. CASE q # r
      <4>1. at[q] = "playing" /\ chosen'[q] = chosen[q] /\ request'[q] = request[q]
          BY <2>1, <3>2 DEF Same
      <4>2. chosen[q] \in Servers
          BY <4>1 DEF PlaceTypes
      <4> QED
          BY <1>1, <2>8, <4>1, <4>2
    <3> QED
        BY <3>1, <3>2
  <2> QED
      BY <2>7, <2>9
<1>7. ASSUME NEW r \in Requests, GivesUpSeat(r) PROVE Open /\ Counted
  <2> DEFINE s == chosen[r]
             key == request[r].room
             size == request[r].size
  <2>1. /\ at[r] \in {"placed", "playing"} /\ at'[r] = "gone" /\ s \in Servers
        /\ request[r] \in Asked /\ size \in Nat \ {0}
        /\ \A q \in Requests \ {r} : Same(q)
      BY <1>3, <1>7 DEF GivesUpSeat
  <2>2. ASSUME NEW t, NEW k
        PROVE  /\ Played(t, k) \in Nat /\ Plays(t, k) \in Nat
               /\ Plays(t, k) + (IF at[r] = "playing" /\ s = t /\ key = k THEN size ELSE 0) = Played(t, k)
    <3>1. /\ Played(t, k) \in Nat /\ Plays(t, k) \in Nat
          /\ Plays(t, k) + (IF at[r] = "playing" /\ chosen[r] = t /\ request[r].room = k
                              THEN request[r].size ELSE 0)
               = Played(t, k) + (IF at'[r] = "playing" /\ chosen'[r] = t /\ request'[r].room = k
                                   THEN request'[r].size ELSE 0)
      <4>1. \A q \in Requests \ {r} : Same(q)
          BY <2>1
      <4> HIDE DEF s, key, size
      <4> QED
          BY <4>1, PlayingOfOne
    <3> HIDE DEF Played, Plays
    <3> QED
        BY <2>1, <3>1
  <2>3. CASE at[r] = "placed"
    <3>1. rooms' = rooms
        BY <1>7, <2>3 DEF GivesUpSeat
    <3> HIDE DEF Played, Plays
    <3>2. \A t, k : Plays(t, k) = Played(t, k)
        BY <2>2, <2>3
    <3>3. Counted
        BY <1>1, <3>1, <3>2
    <3>4. Open
        BY <1>1, <2>1, <3>1 DEF Same
    <3> QED
        BY <3>3, <3>4
  <2>4. CASE at[r] = "playing"
    <3>1. /\ rooms'[s] = IF rooms[s][key] = size THEN [k \in DOMAIN rooms[s] \ {key} |-> rooms[s][k]]
                         ELSE [rooms[s] EXCEPT ![key] = rooms[s][key] - size]
          /\ \A t \in Servers \ {s} : rooms'[t] = rooms[t]
        BY <1>7, <2>4 DEF GivesUpSeat, PlaceTypes
    <3>2. key \in DOMAIN rooms[s] /\ rooms[s] = [k \in DOMAIN rooms[s] |-> rooms[s][k]]
        BY <1>1, <2>1, <2>4 DEF PlaceTypes
    <3>3. rooms[s][key] = Played(s, key) /\ Plays(s, key) + size = Played(s, key)
        BY <1>1, <2>1, <2>2, <2>4, <3>2
    <3>4. /\ DOMAIN rooms'[s] = IF rooms[s][key] = size THEN DOMAIN rooms[s] \ {key} ELSE DOMAIN rooms[s]
          /\ \A k \in DOMAIN rooms'[s] : rooms'[s][k] = IF k = key THEN rooms[s][key] - size ELSE rooms[s][k]
      <4>1. CASE rooms[s][key] = size
          BY <3>1, <4>1
      <4>2. CASE rooms[s][key] # size
          BY <3>1, <3>2, <4>2
      <4> QED
          BY <4>1, <4>2
    <3>5. Counted
      <4> HIDE DEF Played, Plays
      <4> SUFFICES ASSUME NEW t \in Servers, NEW k \in DOMAIN rooms'[t] PROVE rooms'[t][k] = Plays(t, k)
          OBVIOUS
      <4>1. CASE t = s /\ k = key
        <5>1. rooms'[t][k] = rooms[s][key] - size
            BY <3>4, <4>1
        <5>2. Plays(s, key) \in Nat /\ Played(s, key) \in Nat
            BY <2>2
        <5> HIDE DEF size
        <5> QED
            BY <2>1, <3>3, <4>1, <5>1, <5>2
      <4>2. CASE ~(t = s /\ k = key)
        <5>1. k \in DOMAIN rooms[t] /\ rooms'[t][k] = rooms[t][k]
          <6>1. CASE t = s
            <7>1. k # key /\ k \in DOMAIN rooms'[s]
                BY <4>2, <6>1
            <7> HIDE DEF s, key, size
            <7> QED
                BY <3>4, <6>1, <7>1
          <6>2. CASE t # s
              BY <3>1, <6>2
          <6> QED
              BY <6>1, <6>2
        <5>2. Plays(t, k) = Played(t, k)
            BY <2>2, <4>2
        <5> QED
            BY <1>1, <5>1, <5>2
      <4> QED
          BY <4>1, <4>2
    <3>6. ASSUME NEW q \in Requests, at'[q] = "playing"
          PROVE  request'[q].room \in DOMAIN rooms'[chosen'[q]]
      <4>1. q # r /\ at[q] = "playing" /\ chosen'[q] = chosen[q] /\ request'[q] = request[q]
          BY <2>1, <3>6 DEF Same
      <4>2. chosen[q] \in Servers /\ request[q].room \in DOMAIN rooms[chosen[q]] /\ request[q] \in Asked
          BY <1>1, <4>1 DEF PlaceTypes
      <4>3. CASE chosen[q] = s /\ request[q].room = key
        <5> DEFINE g == PlayingIn(at', chosen', request', s, key)
        <5>1. IsFiniteSet(DOMAIN g) /\ \A x \in DOMAIN g : g[x] \in Nat
          <6>1. \A p \in Requests : at'[p] \in {"placed", "playing"} => request'[p] \in Asked
              BY DEF PlaceTypes
          <6> QED
              BY <6>1, PlayingAreNumbers
        <5>2. q \in DOMAIN g /\ g[q] = request[q].size
            BY <3>6, <4>1, <4>3 DEF PlayingIn
        <5> HIDE DEF g
        <5>3. Placement!Sum(g) # 0
          <6> DEFINE others == Cardinality(Units(g, DOMAIN g \ {q}))
          <6>1. others \in Nat /\ Placement!Sum(g) = (IF q \in DOMAIN g THEN g[q] ELSE 0) + others
              BY <5>1, SumWithout
          <6>2. g[q] \in Nat \ {0}
              BY <1>3, <4>2, <5>2
          <6> HIDE DEF others
          <6> QED
              BY <5>2, <6>1, <6>2
        <5>4. Plays(s, key) # 0
            BY <5>3 DEF g
        <5>5. rooms[s][key] # size
          <6>1. Plays(s, key) \in Nat
              BY <2>2
          <6> HIDE DEF Played, Plays, size
          <6> QED
              BY <2>1, <3>3, <5>4, <6>1
        <5> QED
            BY <3>4, <4>1, <4>2, <4>3, <5>5
      <4>4. CASE chosen[q] = s /\ request[q].room # key
          BY <3>4, <4>1, <4>2, <4>4
      <4>5. CASE chosen[q] # s
          BY <3>1, <4>1, <4>2, <4>5
      <4> QED
          BY <4>3, <4>4, <4>5
    <3> QED
        BY <3>5, <3>6
  <2> QED
      BY <2>1, <2>3, <2>4
<1> QED
    BY <1>2, <1>4, <1>5, <1>6, <1>7, SeatSteps

\* The explicit rooms.
LEMMA StepRoomsStayTogether ==
    ASSUME PlaceTypes, ReadTypes, RoomsStayTogether, [Next]_vars
    PROVE  RoomsStayTogether'
<1> SUFFICES ASSUME NEW key \in Rooms, key \notin split', NEW s \in Servers, NEW t \in Servers,
                    Placement!Occupies(s, key)', Placement!Occupies(t, key)'
             PROVE  s = t
    BY DEF RoomsStayTogether, Placement!RoomsStayTogether
<1> DEFINE Had(x) == Placement!Occupies(x, key)
           Has(x) == Placement!Occupies(x, key)'
<1>1. \A x : Had(x) <=> \/ key \in DOMAIN rooms[x]
                        \/ \E r \in Requests : at[r] = "placed" /\ chosen[r] = x /\ request[r].room = key
    BY DEF Placement!Occupies
<1>2. \A x : Has(x) <=> \/ key \in DOMAIN rooms'[x]
                        \/ \E r \in Requests : at'[r] = "placed" /\ chosen'[r] = x /\ request'[r].room = key
    BY DEF Placement!Occupies
<1>3. key \notin split => \A x, y \in Servers : Had(x) /\ Had(y) => x = y
    BY DEF RoomsStayTogether, Placement!RoomsStayTogether
<1>4. Has(s) /\ Has(t)
    OBVIOUS
<1> HIDE DEF Had, Has
<1>5. CASE SeatsStay
  <2>1. key \notin split /\ \A x \in Servers : Has(x) => Had(x)
      BY <1>1, <1>2, <1>5 DEF SeatsStay, Same
  <2> QED
      BY <1>3, <1>4, <2>1
<1>6. ASSUME NEW r \in Requests, TakesSeat(r) PROVE s = t
  <2> DEFINE c == chosen'[r]
             room == request[r].room
  <2>1. /\ at[r] = "choosing" /\ at'[r] = "placed" /\ request'[r] = request[r]
        /\ \A q \in Requests \ {r} : Same(q)
        /\ rooms' = rooms /\ key \notin split /\ c \in Servers
      BY <1>6 DEF TakesSeat
  <2>2. \A x : Has(x) => Had(x) \/ (x = c /\ room = key)
      BY <1>1, <1>2, <2>1 DEF Same
  <2>3. room = key => \A x \in Servers \ {c} : Had(x) => Had(c)
      BY <1>6 DEF TakesSeat, Had
  <2> HIDE DEF c, room
  <2> QED
      BY <1>3, <1>4, <2>1, <2>2, <2>3
<1>7. ASSUME NEW r \in Requests, NEW k, EntersRoom(r, k) PROVE s = t
  <2>1. /\ at[r] = "placed" /\ at'[r] = "playing" /\ chosen[r] \in Servers
        /\ \A q \in Requests \ {r} : Same(q)
        /\ k \in Rooms => k = request[r].room \/ k \in DOMAIN rooms[chosen[r]]
        /\ key \notin split
      BY <1>7 DEF EntersRoom
  <2>2. /\ DOMAIN rooms'[chosen[r]] = DOMAIN rooms[chosen[r]] \cup {k}
        /\ \A x \in Servers \ {chosen[r]} : rooms'[x] = rooms[x]
      BY <1>7 DEF EntersRoom, PlaceTypes
  <2>3. ASSUME NEW x \in Servers, Has(x) PROVE Had(x)
    <3>1. CASE key \in DOMAIN rooms'[x]
        BY <1>1, <2>1, <2>2, <3>1
    <3>2. CASE \E q \in Requests : at'[q] = "placed" /\ chosen'[q] = x /\ request'[q].room = key
        BY <1>1, <2>1, <3>2 DEF Same
    <3> QED
        BY <1>2, <2>3, <3>1, <3>2
  <2> QED
      BY <1>3, <1>4, <2>1, <2>3
<1>8. ASSUME NEW r \in Requests, GivesUpSeat(r) PROVE s = t
  <2>1. /\ at[r] \in {"placed", "playing"} /\ at'[r] = "gone" /\ chosen[r] \in Servers
        /\ \A q \in Requests \ {r} : Same(q)
        /\ key \notin split
      BY <1>8 DEF GivesUpSeat
  <2>2. \A x \in Servers : DOMAIN rooms'[x] \subseteq DOMAIN rooms[x]
      BY <1>8 DEF GivesUpSeat, PlaceTypes
  <2>3. ASSUME NEW x \in Servers, Has(x) PROVE Had(x)
    <3>1. CASE key \in DOMAIN rooms'[x]
        BY <1>1, <2>2, <3>1
    <3>2. CASE \E q \in Requests : at'[q] = "placed" /\ chosen'[q] = x /\ request'[q].room = key
        BY <1>1, <2>1, <3>2 DEF Same
    <3> QED
        BY <1>2, <2>3, <3>1, <3>2
  <2> QED
      BY <1>3, <1>4, <2>1, <2>3
<1> QED
    BY <1>5, <1>6, <1>7, <1>8, SeatSteps

\* The types of what decides on seats and rooms.
LEMMA StepPlaceTypes ==
    ASSUME PlaceTypes, ReadTypes, RoomsAreCounted, [Next]_vars
    PROVE  PlaceTypes'
<1> DEFINE Stages == {"idle", "choosing", "refused", "placed", "playing", "gone"}
           Crowds == UNION {[keys -> Nat \ {0}] : keys \in SUBSET (Rooms \cup Requests)}
           Seated == \A r \in Requests :
                        /\ at[r] \in {"choosing", "placed", "playing"} => request[r] \in Asked
                        /\ at[r] \in {"placed", "playing"} => chosen[r] \in Servers
<1>1. /\ at \in [Requests -> Stages] /\ chosen \in [Requests -> Servers \cup {0}]
      /\ request \in [Requests -> {<<>>} \cup Asked] /\ rooms \in [Servers -> Crowds] /\ Seated
    BY DEF PlaceTypes
<1>2. CASE UNCHANGED placementVars
    BY <1>1, <1>2 DEF placementVars, PlaceTypes
<1>3. ASSUME NEW r \in Requests, Placement!Ask(r) PROVE PlaceTypes'
  <2>1. PICK wish \in Placement!Wishes : request' = [request EXCEPT ![r] = wish]
      BY <1>3 DEF Placement!Ask
  <2>2. wish \in Asked
      BY DEF Placement!Wishes, Asked
  <2>3. at' = [at EXCEPT ![r] = "choosing"] /\ chosen' = chosen /\ rooms' = rooms
      BY <1>3 DEF Placement!Ask, Placement!serverVars
  <2> HIDE DEF Crowds
  <2>4. /\ at' \in [Requests -> Stages] /\ chosen' \in [Requests -> Servers \cup {0}]
        /\ request' \in [Requests -> {<<>>} \cup Asked] /\ rooms' \in [Servers -> Crowds]
      BY <1>1, <2>1, <2>2, <2>3
  <2>5. Seated'
      BY <1>1, <1>3, <2>1, <2>2, <2>3 DEF Placement!Ask
  <2> QED
      BY <2>4, <2>5 DEF PlaceTypes, Crowds
<1>4. ASSUME NEW r \in Requests, NEW s \in Servers, Placement!ReadCapacity(r, s) PROVE PlaceTypes'
    BY <1>1, <1>4 DEF Placement!ReadCapacity, Placement!serverVars, PlaceTypes
<1>5. ASSUME NEW s \in Servers, Placement!LiveServer(s) PROVE PlaceTypes'
    BY <1>1, <1>5 DEF Placement!LiveServer, Placement!SetReady, Placement!PublishCapacity, Placement!ExpireCapacity,
       Placement!DrainOrUndrain, Placement!ServerEvent, Placement!requestVars, PlaceTypes
<1>6. ASSUME NEW r \in Requests, Placement!Choose(r), Placement!Configured \/ Placement!Live PROVE PlaceTypes'
  <2>1. /\ at[r] = "choosing" /\ rooms' = rooms
        /\ IF chosen'[r] = 0
           THEN /\ at' = [at EXCEPT ![r] = "refused"] /\ chosen' = [chosen EXCEPT ![r] = 0]
                /\ request' = [request EXCEPT ![r] = <<>>]
           ELSE /\ at' = [at EXCEPT ![r] = "placed"] /\ chosen' = [chosen EXCEPT ![r] = chosen'[r]]
                /\ request' = request /\ chosen'[r] \in Servers
      BY <1>6, ChooseMoves
  <2> HIDE DEF Crowds
  <2>2. /\ at' \in [Requests -> Stages] /\ chosen' \in [Requests -> Servers \cup {0}]
        /\ request' \in [Requests -> {<<>>} \cup Asked] /\ rooms' \in [Servers -> Crowds]
      BY <1>1, <2>1
  <2>3. Seated'
      BY <1>1, <2>1
  <2> QED
      BY <2>2, <2>3 DEF PlaceTypes, Crowds
<1>7. ASSUME NEW r \in Requests, Placement!Join(r) PROVE PlaceTypes'
  <2>1. PICK key : /\ EntersRoom(r, key)
                   /\ at' = [at EXCEPT ![r] = "playing"] /\ chosen' = chosen
                   /\ request' = [request EXCEPT ![r].room = key]
      BY <1>7, JoinMoves
  <2> DEFINE s == chosen[r]
             was == IF key \in DOMAIN rooms[s] THEN rooms[s][key] ELSE 0
             crowd == [k \in DOMAIN rooms[s] \cup {key} |->
                          IF k # key THEN rooms[s][k] ELSE request[r].size + was]
  <2>2. /\ s \in Servers /\ request[r] \in Asked /\ key \in Rooms \cup Requests /\ at[r] = "placed"
        /\ rooms' = [rooms EXCEPT ![s] = crowd]
      BY <2>1 DEF EntersRoom
  <2>3. DOMAIN rooms[s] \subseteq Rooms \cup Requests /\ \A k \in DOMAIN rooms[s] : rooms[s][k] \in Nat \ {0}
      BY <1>1, <2>2
  <2>4. request[r].size + was \in Nat \ {0}
    <3>1. request[r].size \in {1, 2} /\ was \in Nat
        BY <2>2, <2>3 DEF Asked
    <3> HIDE DEF was
    <3> QED
        BY <3>1
  <2>5. crowd \in Crowds
    <3> DEFINE keys == DOMAIN rooms[s] \cup {key}
    <3>1. keys \in SUBSET (Rooms \cup Requests)
        BY <2>2, <2>3
    <3> HIDE DEF was
    <3>2. crowd \in [keys -> Nat \ {0}]
        BY <2>3, <2>4
    <3> HIDE DEF keys, crowd
    <3> QED
        BY <3>1, <3>2
  <2>6. request'[r] = [request[r] EXCEPT !.room = key] /\ request'[r] \in Asked
      BY <1>1, <2>1, <2>2 DEF Asked
  <2>7. request' = [request EXCEPT ![r] = request'[r]]
      BY <1>1, <2>1
  <2> HIDE DEF Crowds, crowd
  <2>8. /\ at' \in [Requests -> Stages] /\ chosen' \in [Requests -> Servers \cup {0}]
        /\ request' \in [Requests -> {<<>>} \cup Asked] /\ rooms' \in [Servers -> Crowds]
      BY <1>1, <2>1, <2>2, <2>5, <2>6, <2>7
  <2>9. Seated'
      BY <1>1, <2>1, <2>2, <2>6, <2>7
  <2> QED
      BY <2>8, <2>9 DEF PlaceTypes, Crowds
<1>8. ASSUME NEW r \in Requests, Placement!Leave(r) PROVE PlaceTypes'
  <2>1. /\ GivesUpSeat(r)
        /\ at' = [at EXCEPT ![r] = "gone"] /\ chosen' = [chosen EXCEPT ![r] = 0]
        /\ request' = [request EXCEPT ![r] = <<>>]
      BY <1>8, LeaveMoves
  <2> DEFINE s == chosen[r]
             key == request[r].room
             crowd == IF rooms[s][key] = request[r].size
                      THEN [k \in DOMAIN rooms[s] \ {key} |-> rooms[s][k]]
                      ELSE [rooms[s] EXCEPT ![key] = rooms[s][key] - request[r].size]
  <2>2. /\ s \in Servers /\ request[r] \in Asked /\ at[r] \in {"placed", "playing"}
        /\ rooms' = IF at[r] = "placed" THEN rooms ELSE [rooms EXCEPT ![s] = crowd]
      BY <2>1 DEF GivesUpSeat
  <2>3. PICK keys \in SUBSET (Rooms \cup Requests) : rooms[s] \in [keys -> Nat \ {0}]
      BY <1>1, <2>2
  <2>4. at[r] = "playing" => crowd \in Crowds
    <3> SUFFICES ASSUME at[r] = "playing" PROVE crowd \in Crowds
        OBVIOUS
    <3>1. CASE rooms[s][key] = request[r].size
      <4> DEFINE left == keys \ {key}
      <4>1. left \in SUBSET (Rooms \cup Requests) /\ crowd \in [left -> Nat \ {0}]
          BY <2>3, <3>1
      <4> HIDE DEF left, crowd
      <4> QED
          BY <4>1
    <3>2. CASE rooms[s][key] # request[r].size
      <4> DEFINE f == PlayingIn(at, chosen, request, s, key)
                 others == Cardinality(Units(f, DOMAIN f \ {r}))
      <4>1. \A q \in Requests : at[q] \in {"placed", "playing"} => request[q] \in Asked
          BY <1>1
      <4>2. IsFiniteSet(DOMAIN f) /\ \A x \in DOMAIN f : f[x] \in Nat
          BY <4>1, PlayingAreNumbers
      <4>3. r \in DOMAIN f /\ f[r] = request[r].size
          BY DEF PlayingIn
      <4>4. key \in DOMAIN rooms[s] /\ rooms[s][key] = Placement!Sum(f)
          BY <2>2 DEF RoomsAreCounted
      <4> HIDE DEF f
      <4>5. others \in Nat /\ Placement!Sum(f) = (IF r \in DOMAIN f THEN f[r] ELSE 0) + others
          BY <4>2, SumWithout
      <4> HIDE DEF others
      <4>6. rooms[s][key] = request[r].size + others
          BY <4>3, <4>4, <4>5
      <4>7. request[r].size \in Nat
          BY <2>2 DEF Asked
      <4>8. rooms[s][key] - request[r].size \in Nat \ {0}
          BY <3>2, <4>5, <4>6, <4>7
      <4>9. crowd \in [keys -> Nat \ {0}]
          BY <2>3, <3>2, <4>8
      <4> HIDE DEF crowd
      <4> QED
          BY <4>9
    <3> QED
        BY <3>1, <3>2
  <2> HIDE DEF Crowds, crowd
  <2>5. /\ at' \in [Requests -> Stages] /\ chosen' \in [Requests -> Servers \cup {0}]
        /\ request' \in [Requests -> {<<>>} \cup Asked] /\ rooms' \in [Servers -> Crowds]
      BY <1>1, <2>1, <2>2, <2>4
  <2>6. Seated'
      BY <1>1, <2>1, <2>2
  <2> QED
      BY <2>5, <2>6 DEF PlaceTypes, Crowds
<1>9. CASE Placement!Next
    BY <1>3, <1>4, <1>5, <1>6, <1>7, <1>8, <1>9, Zenon DEF Placement!Next
<1> QED
    BY <1>2, <1>9 DEF Next, vars, placementVars

\* What the requests read.
LEMMA StepReadTypes ==
    ASSUME PlaceTypes, ReadTypes, [Next]_vars
    PROVE  ReadTypes'
<1>1. /\ Told(reports) /\ snapshot = [r \in Requests |-> snapshot[r]] /\ \A r \in Requests : Told(snapshot[r])
      /\ Placement!Configured => \A s \in DOMAIN reports : DOMAIN reports[s].rooms = {}
    BY DEF ReadTypes
<1>2. CASE UNCHANGED <<provider, snapshot, reports>>
    BY <1>2 DEF ReadTypes, Told, Placement!Configured
<1>3. ASSUME NEW r \in Requests, UNCHANGED <<provider, reports>>, NEW f, Told(f),
             snapshot' = [snapshot EXCEPT ![r] = f]
      PROVE  ReadTypes'
  <2>1. \A q \in Requests : snapshot'[q] = IF q = r THEN f ELSE snapshot[q]
      BY <1>1, <1>3
  <2>2. \A q \in Requests : Told(snapshot'[q])
      BY <1>1, <1>3, <2>1
  <2>3. snapshot' = [q \in Requests |-> snapshot'[q]]
      BY <1>1, <1>3
  <2> QED
      BY <1>1, <1>3, <2>2, <2>3 DEF ReadTypes, Told, Placement!Configured
<1>4. ASSUME UNCHANGED <<snapshot, provider>>, Placement!Live, Told(reports')
      PROVE  ReadTypes'
    BY <1>1, <1>4 DEF ReadTypes, Told, Placement!Configured, Placement!Live
<1>5. ASSUME NEW r \in Requests, Placement!Ask(r), UNCHANGED provider PROVE ReadTypes'
    BY <1>2, <1>5 DEF Placement!Ask, Placement!serverVars
<1>6. ASSUME NEW r \in Requests, NEW s \in Servers, Placement!ReadCapacity(r, s), UNCHANGED provider
      PROVE  ReadTypes'
  <2>1. reports' = reports
      BY <1>6 DEF Placement!ReadCapacity, Placement!serverVars
  <2>2. CASE s \notin DOMAIN reports
    <3>1. snapshot' = snapshot
        BY <1>6, <2>2 DEF Placement!ReadCapacity
    <3> QED
        BY <1>2, <1>6, <2>1, <3>1
  <2>3. CASE s \in DOMAIN reports
    <3> DEFINE old == snapshot[r]
               f == [t \in DOMAIN old \cup {s} |-> IF t = s THEN reports[s] ELSE old[t]]
    <3>1. snapshot' = [snapshot EXCEPT ![r] = f]
        BY <1>1, <1>6, <2>3 DEF Placement!ReadCapacity
    <3>2. Told(old) /\ reports[s].players \in Nat /\ reports[s].max_players = Capacity[s].max_players
        BY <1>1, <2>3 DEF Told
    <3>3. Told(f)
        BY <3>2 DEF Told
    <3> HIDE DEF f
    <3> QED
        BY <1>3, <1>6, <2>1, <3>1, <3>3
  <2> QED
      BY <2>2, <2>3
<1>7. ASSUME NEW r \in Requests, Placement!Choose(r), UNCHANGED provider PROVE ReadTypes'
  <2>1. snapshot' = [snapshot EXCEPT ![r] = <<>>] /\ reports' = reports
      BY <1>7 DEF Placement!Choose, Placement!serverVars
  <2>2. Told(<<>>)
      BY DEF Told
  <2> QED
      BY <1>3, <1>7, <2>1, <2>2
<1>8. ASSUME NEW r \in Requests, Placement!Join(r) \/ Placement!Leave(r), UNCHANGED provider PROVE ReadTypes'
    BY <1>2, <1>8 DEF Placement!Join, Placement!Leave
<1>9. ASSUME NEW s \in Servers, Placement!Live, Placement!LiveServer(s), UNCHANGED provider PROVE ReadTypes'
  <2>1. snapshot' = snapshot
      BY <1>9 DEF Placement!LiveServer, Placement!SetReady, Placement!PublishCapacity, Placement!ExpireCapacity,
         Placement!DrainOrUndrain, Placement!ServerEvent, Placement!requestVars
  <2>2. CASE reports' = reports
      BY <1>2, <1>9, <2>1, <2>2
  <2>3. CASE Placement!ExpireCapacity(s)
    <3>1. Told(reports')
        BY <1>1, <2>3 DEF Placement!ExpireCapacity, Told
    <3> QED
        BY <1>4, <1>9, <2>1, <3>1
  <2>4. CASE Placement!PublishCapacity(s)
    <3> DEFINE now == Placement!Current(s)
               f == [t \in DOMAIN reports \cup {s} |-> IF t = s THEN now ELSE reports[t]]
    <3>1. reports' = f
        BY <1>1, <2>4 DEF Placement!PublishCapacity
    <3>2. now.players = Placement!Sum(rooms[s]) /\ now.max_players = Capacity[s].max_players
        BY CurrentTells DEF Placement!Players
    <3>3. Placement!Sum(rooms[s]) \in Nat
        BY RoomsAreNumbers, SumIsNumber DEF PlaceTypes
    <3> HIDE DEF now
    <3>4. Told(f)
        BY <1>1, <3>2, <3>3 DEF Told
    <3> HIDE DEF f
    <3> QED
        BY <1>4, <1>9, <2>1, <3>1, <3>4
  <2> QED
      BY <1>9, <2>2, <2>3, <2>4 DEF Placement!LiveServer, Placement!SetReady, Placement!DrainOrUndrain
<1>10. CASE Placement!Next
    BY <1>5, <1>6, <1>7, <1>8, <1>9, <1>10, Zenon DEF Placement!Next
<1>11. CASE UNCHANGED placementVars /\ Sessions!Next
  <2>1. provider' = provider
      BY <1>11 DEF Sessions!Next
  <2> QED
      BY <1>2, <1>11, <2>1 DEF placementVars
<1>12. CASE UNCHANGED vars
    BY <1>2, <1>12 DEF vars, placementVars
<1> QED
    BY <1>10, <1>11, <1>12 DEF Next

\* What is inductive about placement: at every step a server's seats are booked, and
\* rooms stay together, whatever the order of reports, choices, arrivals and departures.
THEOREM RouterPlaceInv == Spec => []PlaceInv
<1>1. PlaceInv /\ [Next]_vars => PlaceInv'
  <2> SUFFICES ASSUME PlaceInv, [Next]_vars PROVE PlaceInv'
      OBVIOUS
  <2>1. PlaceTypes /\ ReadTypes /\ RoomsAreCounted /\ SeatsAreBooked /\ RoomsStayTogether
      BY DEF PlaceInv
  <2>2. PlaceTypes'
      BY <2>1, StepPlaceTypes
  <2>3. ReadTypes'
      BY <2>1, StepReadTypes
  <2>4. RoomsAreCounted'
      BY <2>1, <2>2, StepRoomsAreCounted
  <2>5. SeatsAreBooked'
      BY <2>1, <2>2, StepSeatsAreBooked
  <2>6. RoomsStayTogether'
      BY <2>1, StepRoomsStayTogether
  <2> QED
      BY <2>2, <2>3, <2>4, <2>5, <2>6 DEF PlaceInv
<1> QED
    BY PlaceInit, <1>1, PTL DEF Spec

\* A server is never given more players than it can carry, unless a request was decided
\* on an old report or for a whole roster (Choose, PublishCapacity, Join, Leave).
THEOREM RouterSeatsAreBooked == Spec => []SeatsAreBooked
<1>1. PlaceInv => SeatsAreBooked
    BY DEF PlaceInv
<1> QED
    BY RouterPlaceInv, <1>1, PTL

\* An explicit room is on two servers only if a request could not see or not use the one
\* that had it, or saw it where it was closed (ChooseExplicitRoom on what was read).
THEOREM RouterRoomsStayTogether == Spec => []RoomsStayTogether
<1>1. PlaceInv => RoomsStayTogether
    BY DEF PlaceInv
<1> QED
    BY RouterPlaceInv, <1>1, PTL
=============================================================================
