--------------------------- MODULE EventDelivery ---------------------------
(***************************************************************************)
(* The outbox deliveries of one consumer and the workers that deliver them. *)
(* A business transaction inserts pending rows (eventbus.Publish); worker   *)
(* processes poll, claim rows and run the consumer's handler, directly from *)
(* the table ("db", runConsumerLoop) or through a broker queue ("mq",       *)
(* runMQConsumerLoop).  Only one worker is meant to poll at a time, under a *)
(* Redis lock that has a TTL and that an unreachable Redis turns off.       *)
(* One action is one database statement or transaction, one broker call or  *)
(* one run of the handler.                                                  *)
(***************************************************************************)
EXTENDS Integers, FiniteSets

CONSTANTS Deliveries,   \* delivery ids of the consumer
          Workers,      \* replicas of the worker service
          Mode,         \* "db" or "mq": cfg.MQ.Enabled
          MaxAttempts,  \* max_attempts of a row; Publish writes 20
          BatchSize,    \* rows or messages taken per poll; 20 by default
          Unsupported,  \* deliveries whose event type the handler refuses
          Faults,       \* the kinds of faults that may happen
          MaxFaults,    \* and how many of them (a bound of the model)
          NoWorker

FaultKinds == {"crash", "db", "lost", "lock"}

ASSUME DeliveryAssumption ==
    /\ Deliveries \subseteq Nat
    /\ Mode \in {"db", "mq"}
    /\ MaxAttempts \in Nat \ {0}
    /\ BatchSize \in Nat \ {0}
    /\ Unsupported \subseteq Deliveries
    /\ Faults \subseteq FaultKinds
    /\ MaxFaults \in Nat
    /\ NoWorker \notin Workers

VARIABLES row,      \* table domain_event_delivery
          broker,   \* the consumer's queue: how many messages for each delivery
          worker,   \* what each worker process holds in memory
          lock,     \* the Redis key worker-lock:<consumer>:<stage>
          handled,  \* history: runs of the handler for each delivery
          faults    \* faults that happened so far

vars == <<row, broker, worker, lock, handled, faults>>

Statuses == {"none", "pending", "processing", "queued",
             "succeeded", "failed", "dead_letter"}
Steps == {"idle", "select", "claim", "next", "handle", "markok", "markfail",
          "markqueued", "consume", "release"}

\* due: available_at has been reached.
Row == [status: Statuses, attempts: Nat, due: BOOLEAN]

\* own: rows it set to processing and has not settled; stage: whether it goes
\* through the rows it claimed or the messages it consumed.
Worker == [pc: Steps, stage: {"rows", "messages"}, candidates: SUBSET Deliveries,
           own: SUBSET Deliveries, inbox: [Deliveries -> Nat]]

NoMessages == [d \in Deliveries |-> 0]
Resting == [pc |-> "idle", stage |-> "rows", candidates |-> {}, own |-> {},
            inbox |-> NoMessages]

Init ==
    /\ row = [d \in Deliveries |-> [status |-> "none", attempts |-> 0, due |-> FALSE]]
    /\ broker = NoMessages
    /\ worker = [w \in Workers |-> Resting]
    /\ lock = NoWorker
    /\ handled = [d \in Deliveries |-> 0]
    /\ faults = 0

Fault(kind) ==
    /\ kind \in Faults
    /\ faults < MaxFaults
    /\ faults' = faults + 1

Terminal == {"succeeded", "dead_letter"}

\* The WHERE clause of claimPendingDeliveries.
Claimable(d) ==
    /\ row[d].status \in {"pending", "failed"}
    /\ row[d].due
    /\ row[d].attempts < MaxAttempts

SetStatus(d, status) == row' = [row EXCEPT ![d].status = status]

\* The delivery a worker is busy with: batches are gone through by id.
Current(w) == CHOOSE d \in worker[w].own : \A e \in worker[w].own : d <= e

\* The worker is done with its current delivery, whatever came of it.
Settle(w) ==
    worker' = [worker EXCEPT ![w].pc = "next", ![w].own = @ \ {Current(w)}]

\* Mutant of Exhausted: one attempt more is hoped for.
ExhaustedLate(d) == row[d].attempts > MaxAttempts

\* nextStatus of MarkFailed: no attempt is left.
Exhausted(d) == row[d].attempts >= MaxAttempts

\* Mutant of Taken: a claim is not counted as an attempt.
TakenUncounted(r) == [r EXCEPT !.status = "processing"]

\* What claiming does to a row.
Taken(r) == [r EXCEPT !.status = "processing", !.attempts = @ + 1]

\* Mutant of Won: the candidates are updated without looking again.
WonUnchecked(w) == worker[w].candidates

\* The candidates whose conditional UPDATE affects a row.
Won(w) == {d \in worker[w].candidates : Claimable(d)}

\* Mutant of Acquirable: any message is handled.
AcquirableAlways(d) == TRUE

\* The WHERE clause of BeginQueuedDelivery.
Acquirable(d) == row[d].status = "queued"

-----------------------------------------------------------------------------
\* eventbus.Publish inside a committed business transaction.  A second Publish
\* with the same idempotency key finds the event and inserts nothing.
Publish(d) ==
    /\ row[d].status = "none"
    /\ row' = [row EXCEPT ![d] = [status |-> "pending", attempts |-> 0, due |-> TRUE]]
    /\ UNCHANGED <<broker, worker, lock, handled, faults>>

\* The backoff delay of a failed row passes.
BackoffPasses(d) ==
    /\ row[d].status = "failed"
    /\ ~row[d].due
    /\ row' = [row EXCEPT ![d].due = TRUE]
    /\ UNCHANGED <<broker, worker, lock, handled, faults>>

\* runWithConsumerLock: SET NX.  A worker that finds the lock taken skips this
\* poll; one that gets an error from Redis polls without the lock.
BeginPoll(w) ==
    /\ worker[w].pc = "idle"
    /\ \/ lock = NoWorker /\ lock' = w /\ UNCHANGED faults
       \/ Fault("lock") /\ UNCHANGED lock
    /\ worker' = [worker EXCEPT ![w].pc = "select"]
    /\ UNCHANGED <<row, broker, handled>>

\* The SELECT of claimPendingDeliveries: the first BatchSize claimable rows.
SelectCandidates(w) ==
    /\ worker[w].pc = "select"
    /\ LET claimable == {d \in Deliveries : Claimable(d)}
       IN  \E S \in SUBSET claimable :
              /\ \/ Cardinality(S) = BatchSize
                 \/ S = claimable /\ Cardinality(S) < BatchSize
              /\ worker' = [worker EXCEPT ![w].pc = "claim", ![w].candidates = S]
    /\ UNCHANGED <<row, broker, lock, handled, faults>>

\* Its conditional UPDATEs: only the candidates still claimable are taken.
ClaimCandidates(w) ==
    /\ worker[w].pc = "claim"
    /\ row' = [d \in Deliveries |-> IF d \in Won(w) THEN Taken(row[d]) ELSE row[d]]
    /\ worker' = [worker EXCEPT ![w].pc = "next", ![w].stage = "rows",
                                ![w].candidates = {}, ![w].own = Won(w)]
    /\ UNCHANGED <<broker, lock, handled, faults>>

\* The claiming transaction fails: this poll is over.
ClaimFails(w) ==
    /\ worker[w].pc = "claim"
    /\ Fault("db")
    /\ worker' = [worker EXCEPT ![w].pc = "release", ![w].candidates = {}]
    /\ UNCHANGED <<row, broker, lock, handled>>

\* Run the handler on a claimed row ("db") or on an acquired message ("mq").
Handle(w) ==
    /\ \/ worker[w].pc = "next" /\ Mode = "db" /\ worker[w].own # {}
       \/ worker[w].pc = "handle"
    /\ LET d == Current(w)
       IN  /\ handled' = [handled EXCEPT ![d] = @ + 1]
           /\ worker' = [worker EXCEPT ![w].pc =
                            IF d \in Unsupported THEN "markfail" ELSE "markok"]
    /\ UNCHANGED <<row, broker, lock, faults>>

\* MarkDelivered: an UPDATE on the id alone.
MarkDelivered(w) ==
    /\ worker[w].pc = "markok"
    /\ SetStatus(Current(w), "succeeded")
    /\ Settle(w)
    /\ UNCHANGED <<broker, lock, handled, faults>>

\* MarkFailed: back to failed until the backoff has passed, or dead letter when
\* the attempts are used up.
MarkFailed(w) ==
    /\ worker[w].pc = "markfail"
    /\ LET d == Current(w)
       IN  row' = [row EXCEPT
              ![d].status = IF Exhausted(d) THEN "dead_letter" ELSE "failed",
              ![d].due = Exhausted(d)]
    /\ Settle(w)
    /\ UNCHANGED <<broker, lock, handled, faults>>

\* MarkQueued: an UPDATE on the id alone, after the message was handed over.
MarkQueued(w) ==
    /\ worker[w].pc = "markqueued"
    /\ SetStatus(Current(w), "queued")
    /\ Settle(w)
    /\ UNCHANGED <<broker, lock, handled, faults>>

\* Any of the three marks fails in the database: the error is logged and the
\* loop continues with the next delivery, the row stays as it is.
MarkFails(w) ==
    /\ worker[w].pc \in {"markok", "markfail", "markqueued"}
    /\ Fault("db")
    /\ Settle(w)
    /\ UNCHANGED <<row, broker, lock, handled>>

\* transport.Publish.  It may fail before or after the broker got the message,
\* and without publisher confirms a message may be lost after a success.
PublishMessage(w) ==
    /\ worker[w].pc = "next" /\ worker[w].stage = "rows" /\ Mode = "mq"
    /\ worker[w].own # {}
    /\ LET sent == [broker EXCEPT ![Current(w)] = @ + 1]
       IN  \/ /\ broker' \in {sent, broker}
              /\ worker' = [worker EXCEPT ![w].pc = "markfail"]
              /\ UNCHANGED faults
           \/ /\ worker' = [worker EXCEPT ![w].pc = "markqueued"]
              /\ \/ broker' = sent /\ UNCHANGED faults
                 \/ Fault("lost") /\ UNCHANGED broker
    /\ UNCHANGED <<row, lock, handled>>

\* The rows of this poll are all settled.
RowsDone(w) ==
    /\ worker[w].pc = "next" /\ worker[w].stage = "rows" /\ worker[w].own = {}
    /\ worker' = [worker EXCEPT ![w].pc = IF Mode = "mq" THEN "consume" ELSE "release"]
    /\ UNCHANGED <<row, broker, lock, handled, faults>>

Size(messages, S) == \* messages for the deliveries of S, S being small
    LET count[T \in SUBSET S] ==
          IF T = {} THEN 0
          ELSE LET d == CHOOSE x \in T : TRUE IN messages[d] + count[T \ {d}]
    IN  count[S]

\* transport.Consume: up to BatchSize messages leave the queue, acknowledged as
\* they are read; after an error the ones read so far are gone.
Consume(w) ==
    /\ worker[w].pc = "consume"
    /\ \E taken \in [Deliveries -> 0 .. MaxAttempts] :
          /\ \A d \in Deliveries : taken[d] <= broker[d]
          /\ broker' = [d \in Deliveries |-> broker[d] - taken[d]]
          /\ \/ /\ \/ Size(taken, Deliveries) = BatchSize
                   \/ taken = broker /\ Size(taken, Deliveries) < BatchSize
                /\ worker' = [worker EXCEPT ![w].pc = "next", ![w].stage = "messages",
                                            ![w].inbox = taken]
                /\ UNCHANGED faults
             \/ /\ Size(taken, Deliveries) < BatchSize
                /\ Fault("lost")
                /\ worker' = [worker EXCEPT ![w].pc = "release"]
    /\ UNCHANGED <<row, lock, handled>>

\* Mutant of Drop: the message is taken out twice.
DropTwice(w, d) == [worker EXCEPT ![w].inbox[d] = @ - 2]

Drop(w, d) == [worker EXCEPT ![w].inbox[d] = @ - 1]

\* BeginQueuedDelivery: UPDATE ... WHERE status = queued decides whether this
\* message is the one to handle; otherwise it is a duplicate and is dropped.
BeginQueued(w, d) ==
    /\ worker[w].pc = "next" /\ worker[w].stage = "messages"
    /\ worker[w].inbox[d] > 0
    /\ \/ /\ Acquirable(d)
          /\ SetStatus(d, "processing")
          /\ worker' = [Drop(w, d) EXCEPT ![w].pc = "handle", ![w].own = {d}]
          /\ UNCHANGED faults
       \/ /\ ~Acquirable(d)
          /\ worker' = Drop(w, d)
          /\ UNCHANGED <<row, faults>>
       \/ /\ Fault("db")
          /\ worker' = Drop(w, d)
          /\ UNCHANGED row
    /\ UNCHANGED <<broker, lock, handled>>

MessagesDone(w) ==
    /\ worker[w].pc = "next" /\ worker[w].stage = "messages"
    /\ worker[w].inbox = NoMessages
    /\ worker' = [worker EXCEPT ![w].pc = "release", ![w].stage = "rows"]
    /\ UNCHANGED <<row, broker, lock, handled, faults>>

\* ReleaseLock: compare-and-delete on the worker's own token; when Redis cannot
\* be reached the key stays until its TTL.
EndPoll(w) ==
    /\ worker[w].pc = "release"
    /\ \/ lock' = (IF lock = w THEN NoWorker ELSE lock) /\ UNCHANGED faults
       \/ Fault("lock") /\ UNCHANGED lock
    /\ worker' = [worker EXCEPT ![w].pc = "idle"]
    /\ UNCHANGED <<row, broker, handled>>

\* The TTL of the lock ends: after its worker is gone or, the lock not being
\* renewed, while a slow poll still runs.
LockExpires ==
    /\ lock # NoWorker
    /\ \/ worker[lock].pc = "idle" /\ UNCHANGED faults
       \/ worker[lock].pc # "idle" /\ Fault("lock")
    /\ lock' = NoWorker
    /\ UNCHANGED <<row, broker, worker, handled>>

\* The process dies and is restarted: what it held in memory is gone.
Crash(w) ==
    /\ worker[w].pc # "idle"
    /\ Fault("crash")
    /\ worker' = [worker EXCEPT ![w] = Resting]
    /\ UNCHANGED <<row, broker, lock, handled>>

WorkerStep(w) ==
    \/ BeginPoll(w)
    \/ SelectCandidates(w)
    \/ ClaimCandidates(w)
    \/ ClaimFails(w)
    \/ Handle(w)
    \/ MarkDelivered(w)
    \/ MarkFailed(w)
    \/ MarkQueued(w)
    \/ MarkFails(w)
    \/ PublishMessage(w)
    \/ RowsDone(w)
    \/ Consume(w)
    \/ \E d \in Deliveries : BeginQueued(w, d)
    \/ MessagesDone(w)
    \/ EndPoll(w)

Next ==
    \/ \E d \in Deliveries : Publish(d) \/ BackoffPasses(d)
    \/ \E w \in Workers : WorkerStep(w) \/ Crash(w)
    \/ LockExpires

Spec == Init /\ [][Next]_vars

\* The ticker wakes every running worker again and again, time passes, and
\* Redis drops an expired key.  Nothing makes a fault or a Publish happen.
Fairness ==
    /\ \A w \in Workers : WF_vars(WorkerStep(w))
    /\ \A d \in Deliveries : WF_vars(BackoffPasses(d))
    /\ WF_vars(LockExpires)

FairSpec == Spec /\ Fairness

-----------------------------------------------------------------------------
TypeOK ==
    /\ row \in [Deliveries -> Row]
    /\ broker \in [Deliveries -> Nat]
    /\ worker \in [Workers -> Worker]
    /\ lock \in Workers \cup {NoWorker}
    /\ handled \in [Deliveries -> Nat]
    /\ faults \in Nat

\* A row is in the hands of at most one worker, even when the Redis lock expired
\* or was never taken, and a row in a worker's hands is marked processing.  The
\* unconditional UPDATEs of MarkDelivered, MarkQueued and MarkFailed are safe
\* only because of this.  (eventbus/service.go:162-180, 277-291)
OneOwner ==
    \A w \in Workers : \A d \in worker[w].own :
        /\ row[d].status = "processing"
        /\ \A v \in Workers \ {w} : d \notin worker[v].own

\* The handler runs at most once per attempt and no row has more attempts than
\* max_attempts; a dead letter has used all of them.
\* (eventbus/service.go:151-172, 327-333)
AttemptBudget ==
    \A d \in Deliveries :
        /\ handled[d] <= row[d].attempts
        /\ row[d].attempts <= MaxAttempts
        /\ row[d].status = "dead_letter" => row[d].attempts = MaxAttempts

\* A delivery that succeeded or was dead-lettered is never touched again: no
\* late mark, retry or duplicate message reopens it.
\* (eventbus/service.go:224-268, 284-291)
SettledForGood ==
    [][\A d \in Deliveries : row[d].status \in Terminal => row'[d] = row[d]]_vars

\* The handler never runs again for a delivery that was settled.
\* (worker/runtime.go:371-381)
NoHandlingAfterSettled ==
    [][\A d \in Deliveries : row[d].status \in Terminal => handled'[d] = handled[d]]_vars

\* Every published event is in the end handled or dead-lettered.
\* (eventbus/service.go:308-333, worker/runtime.go:169-263)
EventuallySettled ==
    \A d \in Deliveries :
        row[d].status = "pending" ~> row[d].status \in Terminal
=============================================================================
