------------------------- MODULE LifecycleQueueProofs -------------------------
(***************************************************************************)
(* Proofs about the lifecycle work queue, for every number of jobs,        *)
(* workers, deliveries and faults and every size of the stream.            *)
(***************************************************************************)
EXTENDS LifecycleQueue, SequenceTheorems, TLAPS

\* A job is published once, so it is in the stream once.
StreamIsDistinct ==
    /\ \A i, k \in 1..Len(stream) : stream[i] = stream[k] => i = k
    /\ \A i \in 1..Len(stream) : stream[i] \in published

\* The consumer counts what it delivers, never beyond its limit, and workers hold
\* only what was counted.
DeliveriesAreCounted ==
    /\ \A j \in Jobs : delivered[j] <= limit
    /\ \A j \in Jobs : delivered[j] > 0 => j \in published
    /\ \A w \in Workers : \A i \in 1..Len(buffer[w]) :
         buffer[w][i].attempt <= delivered[buffer[w][i].job]

\* Outcomes are those of delivered jobs, and a job has one before it is acknowledged.
OutcomesAreEarned ==
    /\ \A w \in Workers : pc[w] = "ack" => outcomes[buffer[w][1].job] # {}
    /\ \A j \in Jobs : outcomes[j] # {} => delivered[j] > 0

QueueIndInv ==
    /\ TypeOK
    /\ StreamIsDistinct
    /\ DeliveriesAreCounted
    /\ OutcomesAreEarned
    /\ UnsettledIsKept

-----------------------------------------------------------------------------
(* Sequences.                                                              *)

\* What is left of a sequence when one position is removed.
LEMMA RemoveAtProperties ==
    ASSUME NEW S, NEW s \in Seq(S), NEW i \in 1..Len(s)
    PROVE  /\ RemoveAt(s, i) \in Seq(S)
           /\ Len(RemoveAt(s, i)) = Len(s) - 1
           /\ \A k \in 1..Len(s) - 1 : RemoveAt(s, i)[k] = IF k < i THEN s[k] ELSE s[k + 1]
<1> DEFINE front == SubSeq(s, 1, i - 1)
           back == SubSeq(s, i + 1, Len(s))
<1>1. Len(s) \in Nat /\ \A k \in 1..Len(s) : s[k] \in S
    OBVIOUS
<1>2. /\ front \in Seq(S)
      /\ Len(front) = i - 1
      /\ \A k \in 1..i - 1 : front[k] = s[k]
    BY <1>1
<1>3. /\ back \in Seq(S)
      /\ Len(back) = Len(s) - i
      /\ \A k \in 1..Len(s) - i : back[k] = s[k + i]
    BY <1>1
<1>4. RemoveAt(s, i) = front \o back
    BY DEF RemoveAt
<1> HIDE DEF front, back
<1>5. /\ front \o back \in Seq(S)
      /\ Len(front \o back) = Len(s) - 1
      /\ \A k \in 1..Len(s) - 1 :
           (front \o back)[k] = IF k <= i - 1 THEN front[k] ELSE back[k - (i - 1)]
  <2>1. /\ front \o back \in Seq(S)
        /\ Len(front \o back) = Len(front) + Len(back)
        /\ \A k \in 1..Len(front) + Len(back) :
             (front \o back)[k] = IF k <= Len(front) THEN front[k] ELSE back[k - Len(front)]
      BY <1>2, <1>3, ConcatProperties, Zenon
  <2>2. Len(front) + Len(back) = Len(s) - 1
      BY <1>1, <1>2, <1>3
  <2> QED
      BY <1>2, <2>1, <2>2
<1>6. ASSUME NEW k \in 1..Len(s) - 1 PROVE (front \o back)[k] = IF k < i THEN s[k] ELSE s[k + 1]
  <2>1. CASE k < i
      BY <1>1, <1>2, <1>5, <2>1
  <2>2. CASE ~(k < i)
    <3>1. k - (i - 1) \in 1..Len(s) - i /\ k - (i - 1) + i = k + 1
        BY <1>1, <2>2
    <3> QED
        BY <1>1, <1>3, <1>5, <2>2, <3>1
  <2> QED
      BY <2>1, <2>2
<1> QED
    BY <1>4, <1>5, <1>6

\* Removing a job takes it, and nothing else, out of the stream.
LEMMA RemoveJobProperties ==
    ASSUME NEW j \in Jobs, TypeOK, StreamIsDistinct, RemoveJob(j)
    PROVE  /\ stream' \in Seq(Jobs) /\ Len(stream') <= Len(stream)
           /\ \A i, k \in 1..Len(stream') : stream'[i] = stream'[k] => i = k
           /\ \A i \in 1..Len(stream') : stream'[i] \in InStream
           /\ InStream' = InStream \ {j}
<1>a. stream \in Seq(Jobs) /\ Len(stream) \in Nat /\ DOMAIN stream = 1..Len(stream)
    BY DEF TypeOK
<1>1. CASE j \notin InStream
    BY <1>a, <1>1 DEF RemoveJob, InStream, ToSet, StreamIsDistinct
<1>2. CASE j \in InStream
  <2> DEFINE p == CHOOSE i \in DOMAIN stream : stream[i] = j
  <2>1. p \in 1..Len(stream) /\ stream[p] = j
      BY <1>a, <1>2 DEF InStream, ToSet
  <2>2. stream' = RemoveAt(stream, p)
      BY <1>2 DEF RemoveJob
  <2> HIDE DEF p
  <2>3. /\ stream' \in Seq(Jobs)
        /\ Len(stream') = Len(stream) - 1
        /\ \A k \in 1..Len(stream) - 1 : stream'[k] = IF k < p THEN stream[k] ELSE stream[k + 1]
      BY <1>a, <2>1, <2>2, RemoveAtProperties
  <2>4. DOMAIN stream' = 1..Len(stream) - 1
      BY <2>3
  <2>5. \A i, k \in 1..Len(stream) : stream[i] = stream[k] => i = k
      BY DEF StreamIsDistinct
  <2>6. \A i, k \in 1..Len(stream') : stream'[i] = stream'[k] => i = k
    <3> SUFFICES ASSUME NEW i \in 1..Len(stream) - 1, NEW k \in 1..Len(stream) - 1,
                        stream'[i] = stream'[k]
                 PROVE  i = k
        BY <2>3
    <3>1. i \in 1..Len(stream) /\ i + 1 \in 1..Len(stream)
          /\ k \in 1..Len(stream) /\ k + 1 \in 1..Len(stream)
        BY <1>a
    <3>2. i < p /\ k < p => i = k
        BY <2>3, <2>5, <3>1
    <3>3. i < p /\ ~(k < p) => i = k + 1
        BY <2>3, <2>5, <3>1
    <3>4. ~(i < p) /\ k < p => i + 1 = k
        BY <2>3, <2>5, <3>1
    <3>5. ~(i < p) /\ ~(k < p) => i + 1 = k + 1
        BY <2>3, <2>5, <3>1
    <3> QED
        BY <1>a, <2>1, <3>2, <3>3, <3>4, <3>5
  <2>7. \A i \in 1..Len(stream') : stream'[i] \in InStream \ {j}
    <3> SUFFICES ASSUME NEW i \in 1..Len(stream) - 1 PROVE stream'[i] \in InStream \ {j}
        BY <2>3
    <3>1. i \in 1..Len(stream) /\ i + 1 \in 1..Len(stream)
        BY <1>a
    <3>2. CASE i < p
        BY <1>a, <2>1, <2>3, <2>5, <3>1, <3>2 DEF InStream, ToSet
    <3>3. CASE ~(i < p)
      <4>1. stream'[i] = stream[i + 1] /\ i + 1 # p
          BY <1>a, <2>1, <2>3, <3>3
      <4> QED
          BY <1>a, <2>1, <2>5, <3>1, <4>1 DEF InStream, ToSet
    <3> QED
        BY <3>2, <3>3
  <2>8. InStream \ {j} \subseteq InStream'
    <3> SUFFICES ASSUME NEW i \in 1..Len(stream), stream[i] # j
                 PROVE  \E k \in 1..Len(stream) - 1 : stream'[k] = stream[i]
        BY <1>a, <2>4 DEF InStream, ToSet
    <3>1. i # p
        BY <2>1
    <3>2. CASE i < p
      <4>1. i \in 1..Len(stream) - 1 /\ stream'[i] = stream[i]
          BY <1>a, <2>1, <2>3, <3>2
      <4> QED
          BY <4>1
    <3>3. CASE i > p
      <4>1. i - 1 \in 1..Len(stream) - 1 /\ ~(i - 1 < p) /\ i - 1 + 1 = i
          BY <1>a, <2>1, <3>3
      <4>2. stream'[i - 1] = stream[i]
          BY <2>3, <4>1
      <4> QED
          BY <4>1, <4>2
    <3> QED
        BY <1>a, <2>1, <3>1, <3>2, <3>3
  <2>9. InStream' \subseteq InStream \ {j}
      BY <2>3, <2>4, <2>7 DEF InStream, ToSet
  <2> QED
      BY <1>a, <2>3, <2>6, <2>7, <2>8, <2>9
<1> QED
    BY <1>1, <1>2

\* Publication makes room by discarding the oldest job.
LEMMA PublishProperties ==
    ASSUME NEW j \in Jobs, TypeOK, StreamIsDistinct, Publish(j)
    PROVE  /\ stream' \in Seq(Jobs) /\ Len(stream') <= MaxMessages
           /\ \A i, k \in 1..Len(stream') : stream'[i] = stream'[k] => i = k
           /\ \A i \in 1..Len(stream') : stream'[i] \in published'
           /\ InStream' \subseteq InStream \cup {j}
           /\ dropped' \subseteq published
           /\ dropped \subseteq dropped' /\ InStream \cup {j} \subseteq InStream' \cup dropped'
<1>a. /\ stream \in Seq(Jobs) /\ Len(stream) \in Nat /\ DOMAIN stream = 1..Len(stream)
      /\ Len(stream) <= MaxMessages /\ MaxMessages \in Nat \ {0}
      /\ published' = published \cup {j} /\ j \notin published
      /\ \A i, k \in 1..Len(stream) : stream[i] = stream[k] => i = k
      /\ \A i \in 1..Len(stream) : stream[i] \in published
  <2>1. stream \in Seq(Jobs) /\ Len(stream) <= MaxMessages /\ MaxMessages \in Nat \ {0}
      BY QueueAssumption DEF TypeOK
  <2>2. published' = published \cup {j} /\ j \notin published
      BY DEF Publish
  <2> QED
      BY <2>1, <2>2 DEF StreamIsDistinct
<1>1. CASE Len(stream) < MaxMessages
  <2>1. stream' = Append(stream, j) /\ dropped' = dropped
      BY <1>1 DEF Publish
  <2>2. /\ stream' \in Seq(Jobs) /\ Len(stream') = Len(stream) + 1
        /\ DOMAIN stream' = 1..Len(stream) + 1
        /\ stream'[Len(stream) + 1] = j
        /\ \A i \in 1..Len(stream) : stream'[i] = stream[i]
      BY <1>a, <2>1
  <2>3. \A i \in 1..Len(stream) + 1 : i \in 1..Len(stream) \/ i = Len(stream) + 1
      BY <1>a
  <2>4. \A i \in 1..Len(stream) : i \in 1..Len(stream) + 1
      BY <1>a
  <2>5. InStream' = InStream \cup {j}
      BY <1>a, <2>2, <2>3, <2>4 DEF InStream, ToSet
  <2> QED
      BY <1>a, <1>1, <2>1, <2>2, <2>3, <2>5 DEF TypeOK
<1>2. CASE ~(Len(stream) < MaxMessages)
  <2> DEFINE n == Len(stream)
  <2>1. n > 0 /\ stream # <<>>
      BY <1>a, <1>2
  <2>2. stream' = Append(Tail(stream), j) /\ dropped' = dropped \cup {Head(stream)}
      BY <1>2 DEF Publish
  <2>3. /\ Head(stream) = stream[1]
        /\ Tail(stream) \in Seq(Jobs)
        /\ Len(Tail(stream)) = n - 1
        /\ \A i \in 1..n - 1 : Tail(stream)[i] = stream[i + 1]
      BY <1>a, <2>1
  <2>4. /\ stream' \in Seq(Jobs) /\ Len(stream') = n
        /\ DOMAIN stream' = 1..n
        /\ stream'[n] = j
        /\ \A i \in 1..n - 1 : stream'[i] = stream[i + 1]
      BY <1>a, <2>1, <2>2, <2>3
  <2>n. n \in Nat /\ n > 0
      BY <1>a, <2>1
  <2> HIDE DEF n
  <2>5. \A i \in 1..n : i = n \/ (i \in 1..n - 1 /\ i + 1 \in 1..n)
      BY <2>n
  <2>6. \A i \in 1..n : i = 1 \/ (i - 1 \in 1..n - 1 /\ i - 1 \in 1..n /\ i - 1 + 1 = i)
      BY <2>n
  <2>7. 1 \in 1..n /\ n \in 1..n
      BY <2>n
  <2>8. \A i \in 1..n : stream'[i] = j \/ (stream'[i] = stream[i + 1] /\ i + 1 \in 1..n)
      BY <2>4, <2>5
  <2>9. InStream = {stream[i] : i \in 1..n} /\ InStream' = {stream'[i] : i \in 1..n}
      BY <1>a, <2>4 DEF InStream, ToSet, n
  <2>10. InStream' \subseteq InStream \cup {j}
      BY <2>8, <2>9
  <2>11. InStream \cup {j} \subseteq InStream' \cup dropped'
    <3>1. j \in InStream'
        BY <2>4, <2>7, <2>9
    <3>2. ASSUME NEW i \in 1..n PROVE stream[i] \in InStream' \cup dropped'
        BY <2>2, <2>3, <2>4, <2>6, <2>9
    <3> QED
        BY <2>9, <3>1, <3>2
  <2>12. \A i, k \in 1..n : stream'[i] = stream'[k] => i = k
    <3> SUFFICES ASSUME NEW i \in 1..n, NEW k \in 1..n, stream'[i] = stream'[k] PROVE i = k
        OBVIOUS
    <3>1. \A l \in 1..n : stream[l] # j
        BY <1>a DEF n
    <3>2. CASE i = n \/ k = n
        BY <2>4, <2>5, <3>1, <3>2
    <3>3. CASE i # n /\ k # n
      <4>1. i + 1 = k + 1
          BY <1>a, <2>4, <2>5, <3>3 DEF n
      <4> QED
          BY <4>1
    <3> QED
        BY <3>2, <3>3
  <2>13. stream[1] \in published /\ dropped \subseteq published
      BY <1>a, <2>7 DEF TypeOK, n
  <2>14. Len(stream') <= MaxMessages
      BY <1>a, <2>4 DEF n
  <2>15. dropped' \subseteq published /\ dropped \subseteq dropped'
      BY <2>2, <2>3, <2>13
  <2>16. \A i \in 1..n : stream'[i] \in published'
      BY <1>a, <2>8 DEF n
  <2> QED
      BY <2>4, <2>10, <2>11, <2>12, <2>14, <2>15, <2>16
<1> QED
    BY <1>1, <1>2

\* The first delivery a worker holds is one of its deliveries.
LEMMA HandledProperties ==
    ASSUME NEW w \in Workers, TypeOK, buffer[w] # <<>>
    PROVE  /\ Len(buffer[w]) \in Nat \ {0}
           /\ Handled(w) = buffer[w][1] /\ Handled(w) \in Deliveries
           /\ Tail(buffer[w]) \in Seq(Deliveries)
           /\ Len(Tail(buffer[w])) = Len(buffer[w]) - 1
           /\ \A i \in 1..Len(buffer[w]) - 1 : Tail(buffer[w])[i] = buffer[w][i + 1]
<1>1. buffer[w] \in Seq(Deliveries)
    BY DEF TypeOK
<1> QED
    BY <1>1 DEF Handled

\* The initial states satisfy the inductive invariant.
LEMMA InitInv == Init => QueueIndInv
<1> SUFFICES ASSUME Init PROVE QueueIndInv
    OBVIOUS
<1> USE DEF Init
<1>1. TypeOK
    BY QueueAssumption DEF TypeOK, Terminal
<1>2. StreamIsDistinct /\ DeliveriesAreCounted /\ OutcomesAreEarned /\ UnsettledIsKept
    BY DEF StreamIsDistinct, DeliveriesAreCounted, OutcomesAreEarned, UnsettledIsKept
<1> QED
    BY <1>1, <1>2 DEF QueueIndInv

\* Every step keeps the types.
LEMMA StepTypeOK == QueueIndInv /\ [Next]_vars => TypeOK'
<1> SUFFICES ASSUME QueueIndInv, [Next]_vars PROVE TypeOK'
    OBVIOUS
<1>a. TypeOK /\ StreamIsDistinct
    BY DEF QueueIndInv
<1>b. /\ MaxDeliver \in [Workers -> Nat \ {0}] /\ MaxMessages \in Nat \ {0} /\ MaxFaults \in Nat
    BY QueueAssumption
<1> USE DEF Step, Fault, streamVars, consumerVars, workVars
<1>1. ASSUME NEW j \in Jobs, Publish(j) PROVE TypeOK'
  <2>1. stream' \in Seq(Jobs) /\ Len(stream') <= MaxMessages /\ dropped' \subseteq published
      BY <1>a, <1>1, PublishProperties
  <2> QED
      BY <1>a, <1>1, <2>1 DEF Publish, TypeOK
<1>2. ASSUME NEW j \in Jobs, Age(j) PROVE TypeOK'
  <2>1. stream' \in Seq(Jobs) /\ Len(stream') <= Len(stream)
      BY <1>a, <1>2, RemoveJobProperties DEF Age
  <2>2. j \in published
      BY <1>a, <1>2 DEF Age, InStream, ToSet, StreamIsDistinct, TypeOK
  <2>3. ackPending' \subseteq ackPending /\ Len(stream') <= MaxMessages
    <3>1. Len(stream') \in Nat /\ Len(stream) \in Nat /\ Len(stream) <= MaxMessages
        BY <1>a, <2>1 DEF TypeOK
    <3> QED
        BY <1>2, <1>b, <2>1, <3>1 DEF Age, RemoveJob
  <2> QED
      BY <1>a, <1>b, <1>2, <2>1, <2>2, <2>3 DEF Age, TypeOK
<1>3. ASSUME NEW j \in Jobs, AckWaitElapses(j) PROVE TypeOK'
    BY <1>a, <1>3 DEF AckWaitElapses, TypeOK
<1>4. ASSUME NEW w \in Workers, StartWorker(w) PROVE TypeOK'
    BY <1>a, <1>b, <1>4 DEF StartWorker, TypeOK
<1>5. ASSUME NEW w \in Workers, NEW j \in Jobs, Deliver(w, j) PROVE TypeOK'
  <2>1. delivered[j] \in Nat /\ delivered' = [delivered EXCEPT ![j] = delivered[j] + 1]
        /\ delivered'[j] = delivered[j] + 1
      BY <1>a, <1>5 DEF Deliver, TypeOK
  <2>2. [job |-> j, attempt |-> delivered'[j]] \in Deliveries
      BY <2>1 DEF Deliveries
  <2>3. Append(buffer[w], [job |-> j, attempt |-> delivered'[j]]) \in Seq(Deliveries)
      BY <1>a, <2>2 DEF TypeOK
  <2>4. buffer' = [buffer EXCEPT ![w] = Append(buffer[w], [job |-> j, attempt |-> delivered'[j]])]
        /\ pc[w] # "down" /\ pc' = pc
      BY <1>5 DEF Deliver
  <2>5. /\ buffer' \in [Workers -> Seq(Deliveries)]
        /\ \A v \in Workers : /\ pc[v] = "down" => buffer'[v] = <<>>
                              /\ pc[v] \in {"work", "ack"} => buffer'[v] # <<>>
      BY <1>a, <2>3, <2>4 DEF TypeOK
  <2> QED
      BY <1>a, <1>5, <2>1, <2>5 DEF Deliver, TypeOK
<1>6. ASSUME NEW w \in Workers, Take(w) \/ TakeInvalid(w) \/ Succeed(w) \/ DeadLetter(w) PROVE TypeOK'
  <2>1. buffer[w] # <<>>
      BY <1>a, <1>6 DEF Take, TakeInvalid, Succeed, DeadLetter, TypeOK
  <2>2. Handled(w).job \in Jobs
      BY <1>a, <2>1, HandledProperties DEF Deliveries
  <2>3. UNCHANGED <<stream, published, dropped, limit, delivered, ackPending, buffer, faults>>
      BY <1>6 DEF Take, TakeInvalid, Succeed, DeadLetter
  <2>4. /\ pc' \in [Workers -> {"down", "next", "work", "ack"}]
        /\ \A v \in Workers : pc'[v] = "down" => pc[v] = "down"
        /\ \A v \in Workers : pc'[v] \in {"work", "ack"} => v = w \/ pc[v] \in {"work", "ack"}
      BY <1>a, <1>6 DEF Take, TakeInvalid, Succeed, DeadLetter, TypeOK
  <2>5. state' \in [Jobs -> {"queued", "processing", "retrying"} \cup Terminal]
      BY <1>a, <1>6, <2>2 DEF Take, TakeInvalid, Succeed, DeadLetter, Settle, Terminal, TypeOK
  <2>6. outcomes' \in [Jobs -> SUBSET Terminal]
      BY <1>a, <1>6, <2>2 DEF Take, TakeInvalid, Succeed, DeadLetter, Settle, Terminal, TypeOK
  <2> QED
      BY <1>a, <2>1, <2>3, <2>4, <2>5, <2>6 DEF TypeOK
<1>7. ASSUME NEW w \in Workers, Retry(w) \/ Ack(w) \/ AckLost(w) PROVE TypeOK'
  <2>1. buffer[w] # <<>> /\ pc' = [pc EXCEPT ![w] = "next"]
        /\ buffer' = [buffer EXCEPT ![w] = Tail(buffer[w])]
      BY <1>a, <1>7 DEF Retry, Ack, AckLost, RemoveHead, TypeOK
  <2>2. Handled(w).job \in Jobs /\ Tail(buffer[w]) \in Seq(Deliveries)
      BY <1>a, <2>1, HandledProperties DEF Deliveries
  <2>3. /\ pc' \in [Workers -> {"down", "next", "work", "ack"}]
        /\ buffer' \in [Workers -> Seq(Deliveries)]
        /\ \A v \in Workers : /\ pc'[v] = "down" => buffer'[v] = <<>>
                              /\ pc'[v] \in {"work", "ack"} => buffer'[v] # <<>>
      BY <1>a, <2>1, <2>2 DEF TypeOK
  <2>4. /\ state' \in [Jobs -> {"queued", "processing", "retrying"} \cup Terminal]
        /\ faults' \in 0..MaxFaults
        /\ UNCHANGED <<outcomes, published, dropped, limit, delivered>>
    <3>1. CASE Retry(w)
        BY <1>a, <2>2, <3>1 DEF Retry, TypeOK
    <3>2. CASE Ack(w)
        BY <1>a, <3>2 DEF Ack, TypeOK
    <3>3. CASE AckLost(w)
        BY <1>a, <1>b, <3>3 DEF AckLost, TypeOK
    <3> QED
        BY <1>7, <3>1, <3>2, <3>3
  <2>5. stream' \in Seq(Jobs) /\ Len(stream') <= MaxMessages /\ ackPending' \subseteq Jobs
    <3>1. CASE Retry(w) \/ AckLost(w)
        BY <1>a, <3>1 DEF Retry, AckLost, TypeOK
    <3>2. CASE Ack(w)
      <4>1. RemoveJob(Handled(w).job)
          BY <3>2 DEF Ack
      <4>2. stream' \in Seq(Jobs) /\ Len(stream') <= Len(stream)
          BY <1>a, <2>2, <4>1, RemoveJobProperties
      <4>3. Len(stream') \in Nat /\ Len(stream) \in Nat /\ Len(stream) <= MaxMessages
          BY <1>a, <4>2 DEF TypeOK
      <4>4. ackPending' \subseteq Jobs
          BY <1>a, <4>1 DEF RemoveJob, TypeOK
      <4> QED
          BY <1>b, <4>2, <4>3, <4>4
    <3> QED
        BY <1>7, <3>1, <3>2
  <2> QED
      BY <1>a, <2>3, <2>4, <2>5 DEF TypeOK
<1>8. ASSUME NEW w \in Workers, Stop(w) PROVE TypeOK'
    BY <1>a, <1>b, <1>8 DEF Stop, TypeOK
<1>9. CASE UNCHANGED vars
    BY <1>a, <1>9 DEF vars, TypeOK, Terminal
<1> QED
    BY <1>1, <1>2, <1>3, <1>4, <1>5, <1>6, <1>7, <1>8, <1>9 DEF Next, Handle

\* Every step keeps published jobs single in the stream.
LEMMA StepStreamIsDistinct == QueueIndInv /\ [Next]_vars => StreamIsDistinct'
<1> SUFFICES ASSUME QueueIndInv, [Next]_vars PROVE StreamIsDistinct'
    OBVIOUS
<1>a. TypeOK /\ StreamIsDistinct
    BY DEF QueueIndInv
<1>1. ASSUME NEW j \in Jobs, Publish(j) PROVE StreamIsDistinct'
    BY <1>a, <1>1, PublishProperties DEF StreamIsDistinct
<1>2. ASSUME NEW j \in Jobs, RemoveJob(j), UNCHANGED published PROVE StreamIsDistinct'
  <2>1. /\ \A i, k \in 1..Len(stream') : stream'[i] = stream'[k] => i = k
        /\ \A i \in 1..Len(stream') : stream'[i] \in InStream
      BY <1>a, <1>2, RemoveJobProperties
  <2>2. InStream \subseteq published
      BY <1>a DEF InStream, ToSet, StreamIsDistinct, TypeOK
  <2> QED
      BY <1>2, <2>1, <2>2 DEF StreamIsDistinct
<1>3. ASSUME NEW j \in Jobs, Age(j) PROVE StreamIsDistinct'
    BY <1>2, <1>3 DEF Age
<1>4. ASSUME NEW w \in Workers, Ack(w) PROVE StreamIsDistinct'
  <2>1. buffer[w] # <<>>
      BY <1>a, <1>4 DEF Ack, Step, TypeOK
  <2>2. Handled(w).job \in Jobs
      BY <1>a, <2>1, HandledProperties DEF Deliveries
  <2> QED
      BY <1>2, <1>4, <2>2 DEF Ack
<1>5. CASE UNCHANGED <<stream, published>>
    BY <1>a, <1>5 DEF StreamIsDistinct
<1> QED
    BY <1>1, <1>3, <1>4, <1>5 DEF Next, Handle, AckWaitElapses, StartWorker, Deliver, Take,
       TakeInvalid, Succeed, Retry, DeadLetter, AckLost, Stop, streamVars, vars

\* Every step keeps the deliveries counted.
LEMMA StepDeliveriesAreCounted == QueueIndInv /\ [Next]_vars => DeliveriesAreCounted'
<1> SUFFICES ASSUME QueueIndInv, [Next]_vars PROVE DeliveriesAreCounted'
    OBVIOUS
<1>a. TypeOK /\ StreamIsDistinct /\ DeliveriesAreCounted /\ MaxDeliver \in [Workers -> Nat \ {0}]
    BY QueueAssumption DEF QueueIndInv
<1> USE DEF streamVars, consumerVars, workVars
<1>1. CASE UNCHANGED <<limit, delivered, buffer>> /\ published \subseteq published'
    BY <1>a, <1>1 DEF DeliveriesAreCounted
<1>2. ASSUME NEW w \in Workers, StartWorker(w) PROVE DeliveriesAreCounted'
  <2>1. UNCHANGED <<published, delivered, buffer>> /\ limit <= limit'
      BY <1>a, <1>2 DEF StartWorker, TypeOK
  <2>2. \A j \in Jobs : delivered[j] <= limit'
      BY <1>a, <1>2 DEF StartWorker, TypeOK, DeliveriesAreCounted
  <2> QED
      BY <1>a, <2>1, <2>2 DEF DeliveriesAreCounted
<1>3. ASSUME NEW w \in Workers, NEW j \in Jobs, Deliver(w, j) PROVE DeliveriesAreCounted'
  <2> DEFINE d == [job |-> j, attempt |-> delivered[j] + 1]
  <2>1. /\ delivered' = [delivered EXCEPT ![j] = delivered[j] + 1]
        /\ buffer' = [buffer EXCEPT ![w] = Append(buffer[w], d)]
        /\ UNCHANGED <<limit, published>>
        /\ delivered[j] < limit /\ j \in InStream
      BY <1>a, <1>3 DEF Deliver, TypeOK
  <2>2. j \in published
      BY <1>a, <2>1 DEF InStream, ToSet, StreamIsDistinct, TypeOK
  <2>3. /\ \A k \in Jobs : delivered'[k] <= limit'
        /\ \A k \in Jobs : delivered'[k] > 0 => k \in published'
        /\ \A k \in Jobs : delivered'[k] \in Nat /\ delivered[k] \in Nat /\ delivered[k] <= delivered'[k]
      BY <1>a, <2>1, <2>2 DEF TypeOK, DeliveriesAreCounted
  <2>4. ASSUME NEW v \in Workers, NEW i \in 1..Len(buffer'[v])
        PROVE  buffer'[v][i].attempt <= delivered'[buffer'[v][i].job]
    <3>1. CASE v = w /\ i = Len(buffer[w]) + 1
      <4>1. buffer'[v][i] = d
          BY <1>a, <2>1, <3>1 DEF TypeOK
      <4>2. delivered'[j] = delivered[j] + 1 /\ delivered[j] \in Nat
          BY <1>a, <2>1 DEF TypeOK
      <4> QED
          BY <4>1, <4>2
    <3>2. CASE ~(v = w /\ i = Len(buffer[w]) + 1)
      <4>1. buffer'[v][i] = buffer[v][i] /\ i \in 1..Len(buffer[v])
        <5>1. buffer[w] \in Seq(Deliveries) /\ d \in Deliveries /\ Len(buffer[w]) \in Nat
          <6>1. delivered[j] + 1 \in Nat \ {0}
              BY <1>a DEF TypeOK
          <6>2. d \in Deliveries
              BY <6>1 DEF Deliveries
          <6> QED
              BY <1>a, <6>2 DEF TypeOK
        <5>2. CASE v = w
          <6>1. buffer'[v] = Append(buffer[w], d)
              BY <1>a, <2>1, <5>2 DEF TypeOK
          <6>2. i \in 1..Len(buffer[w])
              BY <3>2, <5>1, <5>2, <6>1
          <6> QED
              BY <5>1, <5>2, <6>1, <6>2
        <5>3. CASE v # w
          <6>1. buffer'[v] = buffer[v]
              BY <1>a, <2>1, <5>3 DEF TypeOK
          <6> QED
              BY <6>1
        <5> QED
            BY <5>2, <5>3
      <4>2. buffer[v][i].job \in Jobs /\ buffer[v][i].attempt \in Nat
        <5>1. buffer[v] \in Seq(Deliveries)
            BY <1>a DEF TypeOK
        <5>2. buffer[v][i] \in Deliveries
            BY <4>1, <5>1
        <5> QED
            BY <5>2 DEF Deliveries
      <4> QED
          BY SMTT(60), <1>a, <2>3, <4>1, <4>2 DEF DeliveriesAreCounted
    <3> QED
        BY <3>1, <3>2
  <2> QED
      BY <2>3, <2>4 DEF DeliveriesAreCounted
<1>4. ASSUME NEW w \in Workers, Retry(w) \/ Ack(w) \/ AckLost(w) PROVE DeliveriesAreCounted'
  <2>1. buffer[w] # <<>> /\ buffer' = [buffer EXCEPT ![w] = Tail(buffer[w])]
        /\ UNCHANGED <<limit, delivered, published>>
      BY <1>a, <1>4 DEF Retry, Ack, AckLost, RemoveHead, Step, TypeOK
  <2>2. ASSUME NEW v \in Workers, NEW i \in 1..Len(buffer'[v])
        PROVE  \E k \in 1..Len(buffer[v]) : buffer'[v][i] = buffer[v][k]
    <3>1. CASE v = w
      <4>1. buffer'[v] = Tail(buffer[w])
          BY <1>a, <2>1, <3>1 DEF TypeOK
      <4>2. i \in 1..Len(buffer[w]) - 1 /\ Tail(buffer[w])[i] = buffer[w][i + 1] /\ Len(buffer[w]) \in Nat
          BY <1>a, <2>1, <4>1, HandledProperties
      <4>3. i + 1 \in 1..Len(buffer[w])
          BY <4>2
      <4> QED
          BY <3>1, <4>1, <4>2, <4>3
    <3>2. CASE v # w
      <4>1. buffer'[v] = buffer[v]
          BY <1>a, <2>1, <3>2 DEF TypeOK
      <4> QED
          BY <4>1
    <3> QED
        BY <3>1, <3>2
  <2>3. \A v \in Workers : \A i \in 1..Len(buffer'[v]) :
          buffer'[v][i].attempt <= delivered'[buffer'[v][i].job]
      BY <1>a, <2>1, <2>2 DEF DeliveriesAreCounted
  <2> QED
      BY <1>a, <2>1, <2>3 DEF DeliveriesAreCounted
<1>5. ASSUME NEW w \in Workers, Stop(w) PROVE DeliveriesAreCounted'
  <2>1. buffer' = [buffer EXCEPT ![w] = <<>>] /\ UNCHANGED <<limit, delivered, published>>
      BY <1>5 DEF Stop
  <2>2. \A v \in Workers : \A i \in 1..Len(buffer'[v]) :
          buffer'[v][i] = buffer[v][i] /\ i \in 1..Len(buffer[v])
      BY <1>a, <2>1 DEF TypeOK
  <2> QED
      BY <1>a, <2>1, <2>2 DEF DeliveriesAreCounted
<1> QED
    BY <1>1, <1>2, <1>3, <1>4, <1>5 DEF Next, Handle, Publish, Age, AckWaitElapses, Take,
       TakeInvalid, Succeed, DeadLetter, vars

\* What a worker handles has been delivered.
LEMMA HandledIsDelivered ==
    ASSUME NEW w \in Workers, TypeOK, DeliveriesAreCounted, buffer[w] # <<>>
    PROVE  /\ Handled(w).job \in Jobs /\ Handled(w).attempt \in Nat \ {0}
           /\ Handled(w).attempt <= delivered[Handled(w).job]
           /\ delivered[Handled(w).job] > 0
<1>1. Handled(w) = buffer[w][1] /\ Handled(w) \in Deliveries /\ 1 \in 1..Len(buffer[w])
    BY HandledProperties
<1>2. Handled(w).job \in Jobs /\ Handled(w).attempt \in Nat \ {0}
    BY <1>1 DEF Deliveries
<1>3. Handled(w).attempt <= delivered[Handled(w).job] /\ delivered[Handled(w).job] \in Nat
    BY <1>1, <1>2 DEF DeliveriesAreCounted, TypeOK
<1> QED
    BY <1>2, <1>3

\* Every step keeps outcomes earned.
LEMMA StepOutcomesAreEarned == QueueIndInv /\ [Next]_vars => OutcomesAreEarned'
<1> SUFFICES ASSUME QueueIndInv, [Next]_vars PROVE OutcomesAreEarned'
    OBVIOUS
<1>a. TypeOK /\ DeliveriesAreCounted /\ OutcomesAreEarned
    BY DEF QueueIndInv
<1> USE DEF Step, streamVars, consumerVars, workVars
<1>1. CASE UNCHANGED <<pc, buffer, delivered, outcomes>>
    BY <1>a, <1>1 DEF OutcomesAreEarned
<1>2. ASSUME NEW w \in Workers, StartWorker(w) \/ Take(w) PROVE OutcomesAreEarned'
    BY <1>a, <1>2 DEF StartWorker, Take, OutcomesAreEarned, TypeOK
<1>3. ASSUME NEW w \in Workers, NEW j \in Jobs, Deliver(w, j) PROVE OutcomesAreEarned'
  <2>1. delivered' = [delivered EXCEPT ![j] = delivered[j] + 1] /\ UNCHANGED <<pc, outcomes>>
        /\ buffer' = [buffer EXCEPT ![w] = Append(buffer[w], [job |-> j, attempt |-> delivered'[j]])]
      BY <1>3 DEF Deliver
  <2>2. \A k \in Jobs : delivered[k] > 0 => delivered'[k] > 0
      BY <1>a, <2>1 DEF TypeOK
  <2>3. ASSUME NEW v \in Workers, pc[v] = "ack" PROVE buffer'[v][1] = buffer[v][1]
    <3>1. buffer[v] # <<>> /\ Len(buffer[v]) \in Nat \ {0}
        BY <1>a, <2>3, HandledProperties DEF TypeOK
    <3>2. CASE v = w
      <4>1. buffer'[v] = Append(buffer[w], [job |-> j, attempt |-> delivered'[j]])
          BY <1>a, <2>1, <3>2 DEF TypeOK
      <4>2. buffer[w] \in Seq(Deliveries) /\ 1 \in 1..Len(buffer[w])
          BY <1>a, <3>1, <3>2 DEF TypeOK
      <4> QED
          BY <3>2, <4>1, <4>2
    <3>3. CASE v # w
        BY <1>a, <2>1, <3>3 DEF TypeOK
    <3> QED
        BY <3>2, <3>3
  <2> QED
      BY <1>a, <2>1, <2>2, <2>3 DEF OutcomesAreEarned
<1>4. ASSUME NEW w \in Workers, TakeInvalid(w) \/ Succeed(w) \/ DeadLetter(w) PROVE OutcomesAreEarned'
  <2>1. buffer[w] # <<>> /\ UNCHANGED <<buffer, delivered>>
        /\ pc' = [pc EXCEPT ![w] = "ack"]
      BY <1>a, <1>4 DEF TakeInvalid, Succeed, DeadLetter, TypeOK
  <2>2. /\ Handled(w).job \in Jobs /\ delivered[Handled(w).job] > 0
        /\ Handled(w) = buffer[w][1]
      BY <1>a, <2>1, HandledIsDelivered, HandledProperties
  <2>3. PICK o \in Terminal :
           outcomes' = [outcomes EXCEPT ![Handled(w).job] = outcomes[Handled(w).job] \cup {o}]
      BY <1>4 DEF TakeInvalid, Succeed, DeadLetter, Settle, Terminal
  <2>a. outcomes \in [Jobs -> SUBSET Terminal]
      BY <1>a DEF TypeOK
  <2>4. \A k \in Jobs : outcomes[k] # {} => outcomes'[k] # {}
      BY <2>a, <2>3
  <2>5. outcomes'[Handled(w).job] # {}
      BY <2>a, <2>2, <2>3
  <2>6. \A k \in Jobs : k # Handled(w).job => outcomes'[k] = outcomes[k]
      BY <2>a, <2>3
  <2>7. ASSUME NEW v \in Workers, pc'[v] = "ack" PROVE outcomes'[buffer'[v][1].job] # {}
    <3>1. CASE v = w
        BY <2>1, <2>2, <2>5, <3>1
    <3>2. CASE v # w
      <4>1. pc[v] = "ack" /\ buffer[v] # <<>>
          BY <1>a, <2>1, <2>7, <3>2 DEF TypeOK
      <4>2. buffer[v][1].job \in Jobs
          BY <1>a, <4>1, HandledProperties DEF Deliveries
      <4> QED
          BY <1>a, <2>1, <2>4, <4>1, <4>2 DEF OutcomesAreEarned
    <3> QED
        BY <3>1, <3>2
  <2> QED
      BY <1>a, <2>1, <2>2, <2>6, <2>7 DEF OutcomesAreEarned
<1>5. ASSUME NEW w \in Workers, Retry(w) \/ Ack(w) \/ AckLost(w) \/ Stop(w) PROVE OutcomesAreEarned'
  <2>1. /\ UNCHANGED <<delivered, outcomes>>
        /\ pc' \in {[pc EXCEPT ![w] = "next"], [pc EXCEPT ![w] = "down"]}
        /\ buffer' \in {[buffer EXCEPT ![w] = Tail(buffer[w])], [buffer EXCEPT ![w] = <<>>]}
      BY <1>5 DEF Retry, Ack, AckLost, Stop, RemoveHead
  <2>2. \A v \in Workers : pc'[v] = "ack" => v # w /\ pc[v] = "ack" /\ buffer'[v] = buffer[v]
      BY <1>a, <2>1 DEF TypeOK
  <2> QED
      BY <1>a, <2>1, <2>2 DEF OutcomesAreEarned
<1> QED
    BY <1>1, <1>2, <1>3, <1>4, <1>5 DEF Next, Handle, Publish, Age, AckWaitElapses, vars

\* Every step keeps unsettled jobs in the stream: an acknowledgement follows an
\* outcome.
LEMMA StepUnsettledIsKept == QueueIndInv /\ [Next]_vars => UnsettledIsKept'
<1> SUFFICES ASSUME QueueIndInv, [Next]_vars PROVE UnsettledIsKept'
    OBVIOUS
<1>a. TypeOK /\ StreamIsDistinct /\ OutcomesAreEarned /\ UnsettledIsKept
    BY DEF QueueIndInv
<1> USE DEF streamVars, consumerVars, workVars
<1>1. ASSUME NEW j \in Jobs, Publish(j) PROVE UnsettledIsKept'
  <2>1. InStream \cup {j} \subseteq InStream' \cup dropped' /\ dropped \subseteq dropped'
      BY <1>a, <1>1, PublishProperties
  <2>2. published' = published \cup {j} /\ outcomes' = outcomes
      BY <1>1 DEF Publish
  <2> QED
      BY <1>a, <2>1, <2>2 DEF UnsettledIsKept
<1>2. ASSUME NEW j \in Jobs, Age(j) PROVE UnsettledIsKept'
  <2>1. InStream' = InStream \ {j}
      BY <1>a, <1>2, RemoveJobProperties DEF Age
  <2> QED
      BY <1>a, <1>2, <2>1 DEF Age, UnsettledIsKept
<1>3. ASSUME NEW w \in Workers, Ack(w) PROVE UnsettledIsKept'
  <2>1. buffer[w] # <<>> /\ pc[w] = "ack"
      BY <1>a, <1>3 DEF Ack, Step, TypeOK
  <2>2. Handled(w).job \in Jobs /\ outcomes[Handled(w).job] # {}
      BY <1>a, <2>1, HandledProperties DEF Deliveries, OutcomesAreEarned
  <2>3. InStream' = InStream \ {Handled(w).job}
      BY <1>a, <1>3, <2>2, RemoveJobProperties DEF Ack
  <2> QED
      BY <1>a, <1>3, <2>2, <2>3 DEF Ack, UnsettledIsKept
<1>4. ASSUME UNCHANGED <<stream, published, dropped>>,
             \A j \in Jobs : outcomes[j] # {} => outcomes'[j] # {}
      PROVE  UnsettledIsKept'
    BY <1>a, <1>4 DEF UnsettledIsKept, InStream, TypeOK
<1>5. ASSUME NEW w \in Workers, TakeInvalid(w) \/ Succeed(w) \/ DeadLetter(w) PROVE UnsettledIsKept'
  <2>1. UNCHANGED <<stream, published, dropped>>
      BY <1>5 DEF TakeInvalid, Succeed, DeadLetter
  <2>2. \A j \in Jobs : outcomes[j] # {} => outcomes'[j] # {}
      BY SMTT(60), <1>a, <1>5 DEF TakeInvalid, Succeed, DeadLetter, Settle, TypeOK
  <2> QED
      BY <1>4, <2>1, <2>2
<1>6. CASE UNCHANGED <<stream, published, dropped, outcomes>>
    BY <1>4, <1>6
<1> QED
    BY <1>1, <1>2, <1>3, <1>5, <1>6 DEF Next, Handle, AckWaitElapses, StartWorker, Deliver,
       Take, Retry, AckLost, Stop, vars

\* The inductive invariant of the queue: publishers, workers and the NATS server
\* preserve it with every step.
THEOREM LifecycleQueueIndInv == Spec => []QueueIndInv
<1>1. QueueIndInv /\ [Next]_vars => QueueIndInv'
    BY StepTypeOK, StepStreamIsDistinct, StepDeliveriesAreCounted, StepOutcomesAreEarned,
       StepUnsettledIsKept DEF QueueIndInv
<1> QED
    BY InitInv, <1>1, PTL DEF Spec

\* The variables keep their types; a stopped worker holds no delivery.
THEOREM QueueTypeOK == Spec => []TypeOK
BY LifecycleQueueIndInv, PTL DEF QueueIndInv

\* Whatever workers stop, messages get lost and ack waits elapse, a cleanup job that
\* publish_lifecycle_work put into the stream stays there until it is settled or
\* discarded.
THEOREM QueueUnsettledIsKept == Spec => []UnsettledIsKept
BY LifecycleQueueIndInv, PTL DEF QueueIndInv

-----------------------------------------------------------------------------
(* What holds when every process is configured with the same max_deliver:  *)
(* then it is the durable consumer's too.                                  *)

EqualLimits == \A v, w \in Workers : MaxDeliver[v] = MaxDeliver[w]

\* The consumer has the limit of the workers from the first worker on, and nothing
\* has an outcome before.
LimitIsShared ==
    /\ limit > 0 => \A w \in Workers : MaxDeliver[w] = limit
    /\ \A w \in Workers : pc[w] # "down" => limit > 0

LimitIndInv == QueueIndInv /\ LimitIsShared /\ DeadLetterIsFinal /\ NoJobIsStranded

LEMMA InitLimitInv == Init => LimitIndInv
<1> SUFFICES ASSUME Init PROVE LimitIndInv
    OBVIOUS
<1>1. QueueIndInv
    BY InitInv
<1>2. LimitIsShared /\ DeadLetterIsFinal
    BY DEF Init, LimitIsShared, DeadLetterIsFinal
<1>3. InStream = {}
    BY DEF Init, InStream, ToSet
<1> QED
    BY <1>1, <1>2, <1>3 DEF LimitIndInv, NoJobIsStranded, Exhausted

\* Every step keeps the limit shared.
LEMMA StepLimitIsShared ==
    ASSUME EqualLimits, LimitIndInv, [Next]_vars
    PROVE  LimitIsShared'
<1>a. TypeOK /\ LimitIsShared /\ MaxDeliver \in [Workers -> Nat \ {0}]
    BY QueueAssumption DEF LimitIndInv, QueueIndInv
<1> USE DEF Step, streamVars, consumerVars, workVars
<1>1. ASSUME NEW w \in Workers, StartWorker(w) PROVE LimitIsShared'
  <2>1. limit' = IF limit = 0 THEN MaxDeliver[w] ELSE limit
      BY <1>1 DEF StartWorker
  <2>2. limit' > 0 /\ \A v \in Workers : MaxDeliver[v] = limit'
      BY <1>a, <2>1 DEF LimitIsShared, EqualLimits, TypeOK
  <2> QED
      BY <2>2 DEF LimitIsShared
<1>2. CASE limit' = limit /\ \A w \in Workers : pc'[w] # "down" => pc[w] # "down"
    BY <1>a, <1>2 DEF LimitIsShared
<1>3. ASSUME NEW w \in Workers, Handle(w) \/ AckLost(w) \/ Stop(w)
      PROVE  limit' = limit /\ \A v \in Workers : pc'[v] # "down" => pc[v] # "down"
    BY <1>a, <1>3 DEF Handle, Take, TakeInvalid, Succeed, Retry, DeadLetter, Ack, AckLost,
       Stop, TypeOK
<1> QED
    BY <1>1, <1>2, <1>3 DEF Next, Publish, Age, AckWaitElapses, Deliver, vars

\* How a step may change the stream: only by jobs that have just been published.
LEMMA StreamGrowsByPublishing ==
    ASSUME QueueIndInv, [Next]_vars
    PROVE  InStream' \subseteq InStream \cup (Jobs \ published)
<1>a. TypeOK /\ StreamIsDistinct
    BY DEF QueueIndInv
<1> USE DEF streamVars, consumerVars, workVars
<1>1. ASSUME NEW j \in Jobs, Publish(j) PROVE InStream' \subseteq InStream \cup (Jobs \ published)
  <2>1. InStream' \subseteq InStream \cup {j}
      BY <1>a, <1>1, PublishProperties
  <2> QED
      BY <1>1, <2>1 DEF Publish
<1>2. ASSUME NEW j \in Jobs, Age(j) PROVE InStream' \subseteq InStream
    BY <1>a, <1>2, RemoveJobProperties DEF Age
<1>3. ASSUME NEW w \in Workers, Ack(w) PROVE InStream' \subseteq InStream
  <2>1. Handled(w).job \in Jobs
      BY <1>a, <1>3, HandledProperties DEF Deliveries, Ack, Step, TypeOK
  <2> QED
      BY <1>a, <1>3, <2>1, RemoveJobProperties DEF Ack
<1>4. CASE UNCHANGED stream
    BY <1>4 DEF InStream
<1> QED
    BY <1>1, <1>2, <1>3, <1>4 DEF Next, Handle, AckWaitElapses, StartWorker, Deliver,
       Take, TakeInvalid, Succeed, Retry, DeadLetter, AckLost, Stop, vars

\* Every step keeps dead-lettered jobs undeliverable: a worker dead-letters a delivery
\* only when the consumer has counted as many as it allows.
LEMMA StepDeadLetterIsFinal ==
    ASSUME EqualLimits, LimitIndInv, [Next]_vars
    PROVE  DeadLetterIsFinal'
<1>a. /\ QueueIndInv /\ TypeOK /\ DeliveriesAreCounted /\ OutcomesAreEarned
      /\ LimitIsShared /\ DeadLetterIsFinal
    BY DEF LimitIndInv, QueueIndInv
<1>b. InStream' \subseteq InStream \cup (Jobs \ published)
    BY <1>a, StreamGrowsByPublishing
<1> USE DEF Step, streamVars, consumerVars, workVars
<1> SUFFICES ASSUME NEW j \in Jobs, "dead_lettered" \in outcomes'[j], j \in InStream'
             PROVE  delivered'[j] >= limit'
    BY DEF DeadLetterIsFinal
<1>1. ASSUME NEW w \in Workers, DeadLetter(w) PROVE delivered'[j] >= limit'
  <2>1. buffer[w] # <<>> /\ limit > 0
      BY <1>a, <1>1 DEF DeadLetter, LimitIsShared, TypeOK
  <2>2. /\ UNCHANGED <<limit, delivered>> /\ Handled(w).attempt >= limit
        /\ outcomes' = [outcomes EXCEPT ![Handled(w).job] = outcomes[Handled(w).job] \cup {"dead_lettered"}]
      BY <1>a, <1>1, <2>1 DEF DeadLetter, Settle, LimitIsShared
  <2>3. CASE j = Handled(w).job
    <3>1. /\ Handled(w).attempt <= delivered[j] /\ Handled(w).attempt \in Nat
          /\ delivered[j] \in Nat /\ limit \in Nat
        BY <1>a, <2>1, <2>3, HandledIsDelivered DEF TypeOK
    <3> QED
        BY <2>2, <3>1
  <2>4. CASE j # Handled(w).job
    <3>1. "dead_lettered" \in outcomes[j]
        BY <1>a, <2>2, <2>4 DEF TypeOK
    <3>2. delivered[j] > 0 /\ j \in published
        BY <1>a, <3>1 DEF OutcomesAreEarned, DeliveriesAreCounted
    <3> QED
        BY <1>a, <1>b, <2>2, <3>1, <3>2 DEF DeadLetterIsFinal
  <2> QED
      BY <2>3, <2>4
<1>2. CASE /\ "dead_lettered" \in outcomes[j]
           /\ limit' = limit \/ limit = 0
           /\ delivered'[j] >= delivered[j]
  <2>1. delivered[j] > 0 /\ j \in published
      BY <1>a, <1>2 DEF OutcomesAreEarned, DeliveriesAreCounted
  <2>2. delivered[j] <= limit /\ delivered[j] \in Nat /\ limit \in Nat
      BY <1>a DEF DeliveriesAreCounted, TypeOK
  <2>3. limit' = limit
      BY <1>2, <2>1, <2>2
  <2>4. delivered[j] >= limit
      BY <1>a, <1>b, <1>2, <2>1 DEF DeadLetterIsFinal
  <2>5. delivered[j] = limit
      BY <2>2, <2>4
  <2> QED
      BY <1>2, <2>3, <2>5
<1>3. ASSUME NEW w \in Workers, TakeInvalid(w) \/ Succeed(w)
      PROVE  "dead_lettered" \in outcomes[j] /\ UNCHANGED <<limit, delivered>>
  <2>1. \E o \in {"dropped", "succeeded"} : \E k :
          outcomes' = [outcomes EXCEPT ![k] = outcomes[k] \cup {o}]
      BY <1>3 DEF TakeInvalid, Succeed, Settle
  <2>2. "dead_lettered" \in outcomes[j]
      BY <1>a, <2>1 DEF TypeOK
  <2> QED
      BY <1>3, <2>2 DEF TakeInvalid, Succeed
<1>4. ASSUME NEW w \in Workers, NEW k \in Jobs, Deliver(w, k)
      PROVE  "dead_lettered" \in outcomes[j] /\ limit' = limit /\ delivered'[j] >= delivered[j]
    BY <1>a, <1>4 DEF Deliver, TypeOK
<1>5. ASSUME NEW w \in Workers, StartWorker(w)
      PROVE  "dead_lettered" \in outcomes[j] /\ UNCHANGED delivered /\ (limit' = limit \/ limit = 0)
    BY <1>5 DEF StartWorker
<1>6. delivered[j] >= delivered[j]
    BY <1>a DEF TypeOK
<1>7. CASE UNCHANGED <<outcomes, limit, delivered>>
    BY <1>2, <1>6, <1>7
<1> QED
    BY <1>1, <1>2, <1>3, <1>4, <1>5, <1>6, <1>7 DEF Next, Handle, Publish, Age, AckWaitElapses,
       Take, Retry, Ack, AckLost, Stop, vars

\* Every step without a fault keeps last deliveries in some worker's hands until the
\* job is acknowledged: the worker does not wait for a delivery that will not come.
LEMMA StepNoJobIsStranded ==
    ASSUME EqualLimits, LimitIndInv, [Next]_vars
    PROVE  NoJobIsStranded'
<1>a. /\ QueueIndInv /\ TypeOK /\ StreamIsDistinct /\ DeliveriesAreCounted
      /\ LimitIsShared /\ NoJobIsStranded
    BY DEF LimitIndInv, QueueIndInv
<1>b. /\ InStream' \subseteq InStream \cup (Jobs \ published)
      /\ MaxDeliver \in [Workers -> Nat \ {0}] /\ MaxFaults \in Nat
    BY <1>a, StreamGrowsByPublishing, QueueAssumption
<1>c. faults \in Nat /\ limit \in Nat /\ delivered \in [Jobs -> Nat]
      /\ buffer \in [Workers -> Seq(Deliveries)]
    BY <1>a DEF TypeOK
<1> USE DEF Step, Fault, streamVars, consumerVars, workVars
<1> SUFFICES ASSUME NEW j \in Jobs, faults' = 0, j \in InStream', limit' > 0, delivered'[j] = limit'
             PROVE  \E w \in Workers : \E i \in DOMAIN buffer'[w] :
                      buffer'[w][i] = [job |-> j, attempt |-> limit']
    BY DEF NoJobIsStranded, Exhausted, OnItsWay
<1> DEFINE Held == \E w \in Workers : \E i \in DOMAIN buffer'[w] :
                      buffer'[w][i] = [job |-> j, attempt |-> limit']
\* The job had its last delivery before, and a worker holds it.
<1>d. ASSUME faults = 0, limit' = limit, delivered'[j] = delivered[j]
      PROVE  \E w \in Workers : \E i \in 1..Len(buffer[w]) :
               buffer[w][i] = [job |-> j, attempt |-> limit]
  <2>1. delivered[j] = limit /\ limit > 0 /\ j \in published
      BY <1>a, <1>d DEF DeliveriesAreCounted
  <2>2. j \in InStream
      BY <1>b, <2>1
  <2>3. OnItsWay(j)
      BY <1>a, <1>d, <2>1, <2>2 DEF NoJobIsStranded, Exhausted
  <2>4. \A w \in Workers : DOMAIN buffer[w] = 1..Len(buffer[w])
      BY <1>c
  <2> QED
      BY <2>3, <2>4 DEF OnItsWay
<1>e. ASSUME NEW w \in Workers, NEW i \in 1..Len(buffer'[w]), buffer'[w] \in Seq(Deliveries),
             limit' = limit, buffer'[w][i] = [job |-> j, attempt |-> limit]
      PROVE  Held
  <2>1. i \in DOMAIN buffer'[w] /\ buffer'[w][i] = [job |-> j, attempt |-> limit']
      BY <1>e
  <2> QED
      BY <2>1
<1>1. CASE UNCHANGED <<limit, delivered, buffer>> /\ faults = 0
  <2>1. PICK w \in Workers, i \in Nat : i \in 1..Len(buffer[w]) /\ buffer[w][i] = [job |-> j, attempt |-> limit]
      BY <1>d, <1>1
  <2> QED
      BY <1>c, <1>e, <1>1, <2>1
<1>2. ASSUME NEW w \in Workers, StartWorker(w) PROVE Held
  <2>1. UNCHANGED <<delivered, buffer, faults>> /\ limit' = IF limit = 0 THEN MaxDeliver[w] ELSE limit
      BY <1>2 DEF StartWorker
  <2>2. limit # 0
      BY <1>a, <1>b, <1>c, <2>1 DEF DeliveriesAreCounted
  <2> QED
      BY <1>1, <2>1, <2>2
<1>3. ASSUME NEW w \in Workers, NEW k \in Jobs, Deliver(w, k) PROVE Held
  <2> DEFINE d == [job |-> k, attempt |-> delivered'[k]]
  <2>1. /\ delivered' = [delivered EXCEPT ![k] = delivered[k] + 1]
        /\ buffer' = [buffer EXCEPT ![w] = Append(buffer[w], d)]
        /\ UNCHANGED <<limit, faults>>
      BY <1>3 DEF Deliver
  <2>2. delivered'[k] = delivered[k] + 1 /\ d \in Deliveries
      BY <1>c, <2>1 DEF Deliveries
  <2>3. buffer'[w] = Append(buffer[w], d) /\ buffer[w] \in Seq(Deliveries)
      BY <1>c, <2>1
  <2> HIDE DEF d
  <2>4. /\ buffer'[w] \in Seq(Deliveries) /\ Len(buffer'[w]) = Len(buffer[w]) + 1
        /\ Len(buffer[w]) \in Nat
        /\ buffer'[w][Len(buffer[w]) + 1] = d
        /\ \A i \in 1..Len(buffer[w]) : buffer'[w][i] = buffer[w][i] /\ i \in 1..Len(buffer'[w])
      BY <2>2, <2>3
  <2>5. CASE k = j
    <3>1. d = [job |-> j, attempt |-> limit]
        BY <2>1, <2>5 DEF d
    <3>2. Len(buffer[w]) + 1 \in 1..Len(buffer'[w])
        BY <2>4
    <3> QED
        BY <1>e, <2>1, <2>4, <3>1, <3>2
  <2>6. CASE k # j
    <3>1. delivered'[j] = delivered[j]
        BY <1>c, <2>1, <2>6
    <3>2. PICK v \in Workers, i \in Nat : i \in 1..Len(buffer[v]) /\ buffer[v][i] = [job |-> j, attempt |-> limit]
        BY <1>d, <2>1, <3>1
    <3>3. CASE v = w
        BY <1>e, <2>1, <2>4, <3>2, <3>3
    <3>4. CASE v # w
      <4>1. buffer'[v] = buffer[v]
          BY <1>c, <2>1, <3>4
      <4> QED
          BY <1>c, <1>e, <2>1, <3>2, <4>1
    <3> QED
        BY <3>3, <3>4
  <2> QED
      BY <2>5, <2>6
<1>4. ASSUME NEW w \in Workers, Retry(w) \/ Ack(w) PROVE Held
  <2>1. /\ buffer[w] # <<>> /\ pc[w] # "down"
        /\ buffer' = [buffer EXCEPT ![w] = Tail(buffer[w])]
        /\ UNCHANGED <<limit, delivered, faults>>
      BY <1>a, <1>4 DEF Retry, Ack, RemoveHead, TypeOK
  <2>2. PICK v \in Workers, i \in Nat : i \in 1..Len(buffer[v]) /\ buffer[v][i] = [job |-> j, attempt |-> limit]
      BY <1>d, <2>1
  <2>3. CASE v # w
    <3>1. buffer'[v] = buffer[v]
        BY <1>c, <2>1, <2>3
    <3> QED
        BY <1>c, <1>e, <2>1, <2>2, <3>1
  <2>4. CASE v = w
    <3>1. /\ Len(buffer[w]) \in Nat \ {0} /\ Handled(w) = buffer[w][1]
          /\ Tail(buffer[w]) \in Seq(Deliveries)
          /\ Len(Tail(buffer[w])) = Len(buffer[w]) - 1
          /\ \A n \in 1..Len(buffer[w]) - 1 : Tail(buffer[w])[n] = buffer[w][n + 1]
        BY <1>a, <2>1, HandledProperties
    <3>2. i # 1
      <4>1. CASE Retry(w)
        <5>1. Handled(w).attempt < limit
            BY <1>a, <2>1, <4>1 DEF Retry, LimitIsShared
        <5> QED
            BY <1>c, <2>2, <2>4, <3>1, <5>1
      <4>2. CASE Ack(w)
        <5>1. Handled(w).job \in Jobs
            BY <1>a, <2>1, HandledIsDelivered
        <5>2. Handled(w).job \notin InStream'
            BY <1>a, <4>2, <5>1, RemoveJobProperties DEF Ack
        <5> QED
            BY <2>2, <2>4, <3>1, <5>2
      <4> QED
          BY <1>4, <4>1, <4>2
    <3>3. buffer'[w] = Tail(buffer[w])
        BY <1>c, <2>1
    <3>4. i - 1 \in 1..Len(buffer'[w]) /\ i - 1 \in 1..Len(buffer[w]) - 1 /\ i - 1 + 1 = i
        BY <2>2, <2>4, <3>1, <3>2, <3>3
    <3>5. buffer'[w][i - 1] = [job |-> j, attempt |-> limit]
        BY <2>2, <2>4, <3>1, <3>3, <3>4
    <3> QED
        BY <1>e, <2>1, <3>1, <3>3, <3>4, <3>5
  <2> QED
      BY <2>3, <2>4
<1>5. ASSUME NEW w \in Workers, Take(w) \/ TakeInvalid(w) \/ Succeed(w) \/ DeadLetter(w)
      PROVE  UNCHANGED <<limit, delivered, buffer, faults>>
    BY <1>5 DEF Take, TakeInvalid, Succeed, DeadLetter
<1>6. ASSUME NEW w \in Workers, AckLost(w) \/ Stop(w) PROVE FALSE
    BY <1>c, <1>6 DEF AckLost, Stop
<1>7. ASSUME NEW k \in Jobs, Age(k) PROVE FALSE
    BY <1>c, <1>7 DEF Age
<1>8. ASSUME NEW k \in Jobs, Publish(k) \/ AckWaitElapses(k)
      PROVE  UNCHANGED <<limit, delivered, buffer, faults>>
    BY <1>8 DEF Publish, AckWaitElapses
<1>9. CASE UNCHANGED vars
    BY <1>1, <1>9 DEF vars
<1> QED
    BY <1>1, <1>2, <1>3, <1>4, <1>5, <1>6, <1>7, <1>8, <1>9 DEF Next, Handle

\* The inductive invariant under one limit for all.
THEOREM QueueLimitIndInv == ASSUME EqualLimits PROVE Spec => []LimitIndInv
<1>1. LimitIndInv /\ [Next]_vars => LimitIndInv'
  <2>1. LimitIndInv /\ [Next]_vars => QueueIndInv'
      BY StepTypeOK, StepStreamIsDistinct, StepDeliveriesAreCounted, StepOutcomesAreEarned,
         StepUnsettledIsKept DEF QueueIndInv, LimitIndInv
  <2> QED
      BY <2>1, StepLimitIsShared, StepDeadLetterIsFinal, StepNoJobIsStranded DEF LimitIndInv
<1> QED
    BY InitLimitInv, <1>1, PTL DEF Spec

\* A job that run_lifecycle_worker dead-lettered stops cycling, even when its
\* acknowledgement is lost: the consumer has no delivery left for it.
THEOREM QueueDeadLetterIsFinal == ASSUME EqualLimits PROVE Spec => []DeadLetterIsFinal
BY QueueLimitIndInv, PTL DEF LimitIndInv

\* As long as no worker stops and no message is lost, no job in the stream runs out
\* of deliveries unsettled.
THEOREM QueueNoJobIsStranded == ASSUME EqualLimits PROVE Spec => []NoJobIsStranded
BY QueueLimitIndInv, PTL DEF LimitIndInv
=============================================================================
