---------------------------- MODULE LifecycleQueue ----------------------------
(***************************************************************************)
(* The lifecycle work queue: cleanup jobs wait in a WorkQueue stream, one   *)
(* durable consumer hands them out and counts deliveries, and every        *)
(* matchmaker process runs a worker that handles them one at a time.       *)
(* Several deliveries wait in a worker's message stream, and the ack wait  *)
(* of each runs from its delivery; what has not been acknowledged when it  *)
(* elapses is delivered again, up to the consumer's max_deliver.           *)
(*                                                                         *)
(* Deliver, AckWaitElapses and Age are the NATS server's, as far as the    *)
(* code configures them; an acknowledgement that arrives removes the job.  *)
(***************************************************************************)
EXTENDS Naturals, Sequences, SequencesExt

CONSTANTS
    Jobs,         \* cleanup jobs
    Invalid,      \* those whose payload does not parse
    Workers,      \* matchmaker processes
    MaxDeliver,   \* lifecycle_job_max_deliver of each process
    MaxMessages,  \* the stream's max_messages
    Prefetch,     \* bound: deliveries a worker holds
    MaxFaults     \* bound: stops, lost acknowledgements, expiries

ASSUME QueueAssumption ==
    /\ Invalid \subseteq Jobs
    /\ MaxDeliver \in [Workers -> Nat \ {0}]
    /\ {MaxMessages, Prefetch} \subseteq Nat \ {0}
    /\ MaxFaults \in Nat

VARIABLES
    stream,      \* the jobs in the stream, oldest first
    published,   \* jobs ever accepted by the stream
    dropped,     \* jobs the stream discarded for space or age
    limit,       \* max_deliver of the durable consumer, 0 before it exists
    delivered,   \* deliveries of each job the consumer has counted
    ackPending,  \* jobs whose ack wait is running
    pc,          \* where each worker is
    buffer,      \* deliveries each worker holds, the one it handles first
    state,       \* LifecycleWorkState each job was last logged in
    outcomes,    \* history: the terminal states each job has reached
    faults

streamVars == <<stream, published, dropped>>
consumerVars == <<limit, delivered, ackPending>>
workVars == <<state, outcomes>>
vars == <<streamVars, consumerVars, pc, buffer, workVars, faults>>

InStream == ToSet(stream)

Terminal == {"succeeded", "dead_lettered", "dropped"}

Init ==
    /\ stream = <<>>
    /\ published = {}
    /\ dropped = {}
    /\ limit = 0
    /\ delivered = [j \in Jobs |-> 0]
    /\ ackPending = {}
    /\ pc = [w \in Workers |-> "down"]
    /\ buffer = [w \in Workers |-> <<>>]
    /\ state = [j \in Jobs |-> "queued"]
    /\ outcomes = [j \in Jobs |-> {}]
    /\ faults = 0

Fault == faults < MaxFaults /\ faults' = faults + 1

Step(w, from, to) ==
    /\ pc[w] = from
    /\ pc' = [pc EXCEPT ![w] = to]

Handled(w) == Head(buffer[w])

RemoveHead(w) == buffer' = [buffer EXCEPT ![w] = Tail(@)]

Settle(j, outcome) ==
    /\ state' = [state EXCEPT ![j] = outcome]
    /\ outcomes' = [outcomes EXCEPT ![j] = @ \cup {outcome}]

\* publish_lifecycle_work.  A full stream makes room by discarding its oldest job.
Publish(j) ==
    /\ j \notin published
    /\ published' = published \cup {j}
    /\ IF Len(stream) < MaxMessages
         THEN stream' = Append(stream, j) /\ UNCHANGED <<dropped, ackPending>>
         ELSE /\ stream' = Append(Tail(stream), j)
              /\ dropped' = dropped \cup {Head(stream)}
              /\ ackPending' = ackPending \ {Head(stream)}
    /\ UNCHANGED <<limit, delivered, pc, buffer, workVars, faults>>

\* An acknowledgement removes the job, wherever it is in the stream.
RemoveJob(j) ==
    /\ stream' = IF j \in InStream
                    THEN RemoveAt(stream, CHOOSE i \in DOMAIN stream : stream[i] = j)
                    ELSE stream
    /\ ackPending' = ackPending \ {j}

\* A job reaches the stream's max_age, lifecycle_work_secs.
Age(j) ==
    /\ j \in InStream
    /\ Fault
    /\ RemoveJob(j)
    /\ dropped' = dropped \cup {j}
    /\ UNCHANGED <<published, limit, delivered, pc, buffer, workVars>>

StartWorker(w) ==   \* get_or_create_consumer leaves an existing consumer as it is
    /\ Step(w, "down", "next")
    /\ limit' = IF limit = 0 THEN MaxDeliver[w] ELSE limit
    /\ UNCHANGED <<streamVars, delivered, ackPending, buffer, workVars, faults>>

Deliver(w, j) ==
    /\ pc[w] # "down"
    /\ Len(buffer[w]) < Prefetch
    /\ j \in InStream \ ackPending
    /\ delivered[j] < limit
    /\ delivered' = [delivered EXCEPT ![j] = @ + 1]
    /\ ackPending' = ackPending \cup {j}
    /\ buffer' = [buffer EXCEPT ![w] = Append(@, [job |-> j, attempt |-> delivered'[j]])]
    /\ UNCHANGED <<streamVars, limit, pc, workVars, faults>>

\* The ack wait of 30 s covers the time in the buffer and the handling.
AckWaitElapses(j) ==
    /\ j \in ackPending
    /\ ackPending' = ackPending \ {j}
    /\ UNCHANGED <<streamVars, limit, delivered, pc, buffer, workVars, faults>>

TakeAcksFirst(w) ==   \* deviation: the job is acknowledged before it is handled
    /\ Step(w, "next", "work")
    /\ buffer[w] # <<>>
    /\ RemoveJob(Handled(w).job)
    /\ state' = [state EXCEPT ![Handled(w).job] = "processing"]
    /\ UNCHANGED <<published, dropped, limit, delivered, buffer, outcomes, faults>>

Take(w) ==
    /\ buffer[w] # <<>>
    /\ Handled(w).job \notin Invalid
    /\ Step(w, "next", "work")
    /\ state' = [state EXCEPT ![Handled(w).job] = "processing"]
    /\ UNCHANGED <<streamVars, consumerVars, buffer, outcomes, faults>>

\* A payload that does not parse is acknowledged without being handled.
TakeInvalid(w) ==
    /\ buffer[w] # <<>>
    /\ Handled(w).job \in Invalid
    /\ Step(w, "next", "ack")
    /\ Settle(Handled(w).job, "dropped")
    /\ UNCHANGED <<streamVars, consumerVars, buffer, faults>>

\* process_lifecycle_work: the provider releases, or the records are deleted.
Succeed(w) ==
    /\ Step(w, "work", "ack")
    /\ Settle(Handled(w).job, "succeeded")
    /\ UNCHANGED <<streamVars, consumerVars, buffer, faults>>

RetryAtOnce(w) ==   \* deviation: the worker repeats a failed job itself
    /\ Step(w, "work", "next")
    /\ Handled(w).attempt < MaxDeliver[w]
    /\ state' = [state EXCEPT ![Handled(w).job] = "retrying"]
    /\ UNCHANGED <<streamVars, consumerVars, buffer, outcomes, faults>>

RetryTheLast(w) ==   \* deviation: > instead of >= when the attempts are compared
    /\ Step(w, "work", "next")
    /\ Handled(w).attempt <= MaxDeliver[w]
    /\ RemoveHead(w)
    /\ state' = [state EXCEPT ![Handled(w).job] = "retrying"]
    /\ UNCHANGED <<streamVars, consumerVars, outcomes, faults>>

\* The handling fails on a delivery that is not the last: wait for the next one.
Retry(w) ==
    /\ Step(w, "work", "next")
    /\ Handled(w).attempt < MaxDeliver[w]
    /\ RemoveHead(w)
    /\ state' = [state EXCEPT ![Handled(w).job] = "retrying"]
    /\ UNCHANGED <<streamVars, consumerVars, outcomes, faults>>

DeadLetterEarly(w) ==   \* deviation: an off-by-one, deliveries counted from 0
    /\ Step(w, "work", "ack")
    /\ Handled(w).attempt + 1 >= MaxDeliver[w]
    /\ Settle(Handled(w).job, "dead_lettered")
    /\ UNCHANGED <<streamVars, consumerVars, buffer, faults>>

DeadLetter(w) ==
    /\ Step(w, "work", "ack")
    /\ Handled(w).attempt >= MaxDeliver[w]
    /\ Settle(Handled(w).job, "dead_lettered")
    /\ UNCHANGED <<streamVars, consumerVars, buffer, faults>>

Ack(w) ==
    /\ Step(w, "ack", "next")
    /\ RemoveHead(w)
    /\ RemoveJob(Handled(w).job)
    /\ UNCHANGED <<published, dropped, limit, delivered, workVars, faults>>

\* ack() waits for no answer: the worker goes on when it is lost.
AckLost(w) ==
    /\ Fault
    /\ Step(w, "ack", "next")
    /\ RemoveHead(w)
    /\ UNCHANGED <<streamVars, consumerVars, workVars>>

\* The connection breaks, sending an acknowledgement fails, or the process ends:
\* the message stream is dropped with what it holds.
Stop(w) ==
    /\ pc[w] # "down"
    /\ Fault
    /\ pc' = [pc EXCEPT ![w] = "down"]
    /\ buffer' = [buffer EXCEPT ![w] = <<>>]
    /\ UNCHANGED <<streamVars, consumerVars, workVars>>

Handle(w) == Take(w) \/ TakeInvalid(w) \/ Succeed(w) \/ Retry(w) \/ DeadLetter(w) \/ Ack(w)

Next ==
    \/ \E j \in Jobs : Publish(j) \/ Age(j) \/ AckWaitElapses(j)
    \/ \E w \in Workers : \/ StartWorker(w) \/ Handle(w) \/ AckLost(w) \/ Stop(w)
                          \/ \E j \in Jobs : Deliver(w, j)

Spec == Init /\ [][Next]_vars

\* Workers restart after a second and handle what they hold, and the NATS server
\* times out and redelivers.
Fairness ==
    /\ \A w \in Workers : WF_vars(StartWorker(w)) /\ WF_vars(Handle(w))
    /\ \A j \in Jobs : WF_vars(AckWaitElapses(j)) /\ SF_vars(\E w \in Workers : Deliver(w, j))

FairSpec == Spec /\ Fairness

-----------------------------------------------------------------------------
(* Properties.                                                             *)

Deliveries == [job : Jobs, attempt : Nat \ {0}]

\* Type correctness; a stopped worker holds no delivery, and a busy one some.
TypeOK ==
    /\ stream \in Seq(Jobs) /\ Len(stream) <= MaxMessages
    /\ published \subseteq Jobs /\ dropped \subseteq published
    /\ limit \in Nat
    /\ delivered \in [Jobs -> Nat]
    /\ ackPending \subseteq Jobs
    /\ pc \in [Workers -> {"down", "next", "work", "ack"}]
    /\ buffer \in [Workers -> Seq(Deliveries)]
    /\ \A w \in Workers : /\ pc[w] = "down" => buffer[w] = <<>>
                          /\ pc[w] \in {"work", "ack"} => buffer[w] # <<>>
    /\ state \in [Jobs -> {"queued", "processing", "retrying"} \cup Terminal]
    /\ outcomes \in [Jobs -> SUBSET Terminal]
    /\ faults \in 0..MaxFaults

\* Cleanup survives stops and lost messages: a job that has been accepted stays in
\* the stream until a worker has settled it, or the stream has discarded it.
UnsettledIsKept ==
    \A j \in published \ dropped : j \in InStream \/ outcomes[j] # {}

\* A dead-lettered job stops cycling: the consumer will not deliver it again, even
\* when the acknowledgement is lost.
DeadLetterIsFinal ==
    \A j \in Jobs : "dead_lettered" \in outcomes[j] =>
        j \notin InStream \/ delivered[j] >= limit

\* The last delivery of a job in the stream is on its way to be settled.
OnItsWay(j) ==
    \E w \in Workers : \E i \in DOMAIN buffer[w] :
        buffer[w][i] = [job |-> j, attempt |-> limit]

Exhausted(j) == j \in InStream /\ limit > 0 /\ delivered[j] = limit /\ ~OnItsWay(j)

\* Without stops and lost messages no job runs out of deliveries unsettled: the
\* worker dead-letters exactly the delivery that is the consumer's last.
NoJobIsStranded == faults = 0 => \A j \in Jobs : ~Exhausted(j)

\* Every job leaves the stream, or has lost its last delivery to a fault.
JobsEnd ==
    \A j \in Jobs : j \in published ~> (j \notin InStream \/ (Exhausted(j) /\ faults > 0))
=============================================================================
