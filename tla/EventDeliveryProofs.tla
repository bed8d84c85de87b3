------------------------ MODULE EventDeliveryProofs ------------------------
(***************************************************************************)
(* Proofs about EventDelivery for any number of workers and deliveries, any *)
(* attempt limit and batch size, in both modes, and with any faults.        *)
(***************************************************************************)
EXTENDS EventDelivery, WellFoundedInduction, TLAPS

\* The order of the ids.
Less == {ss \in Nat \X Nat : ss[1] < ss[2]}

\* Batches are gone through by id: there is a smallest one.
LEMMA LeastExists ==
    ASSUME NEW T, T \subseteq Nat, T # {}
    PROVE  \E d \in T : \A e \in T : d <= e
  <1>1. IsWellFoundedOn(Less, Nat)
    BY NatLessThanWellFounded DEF OpToRel, Less
  <1>2. PICK d \in T : \A e \in T : <<e, d>> \notin Less
    BY <1>1, WFMin
  <1>3. \A e \in T : <<e, d>> \in Nat \X Nat /\ <<e, d>>[1] = e /\ <<e, d>>[2] = d
    BY <1>2
  <1>4. \A e \in T : ~ (e < d)
    BY <1>2, <1>3 DEF Less
  <1>5. QED
    BY <1>2, <1>4

\* A worker that holds rows is busy with one of them.  (worker/runtime.go:205-212)
LEMMA CurrentOwned ==
    ASSUME TypeOK, NEW w \in Workers, worker[w].own # {}
    PROVE  Current(w) \in worker[w].own /\ Current(w) \in Deliveries
  <1>1. worker[w].own \subseteq Deliveries
    BY DEF TypeOK, Worker
  <1>2. worker[w].own \subseteq Nat
    BY <1>1, DeliveryAssumption
  <1>3. \E d \in worker[w].own : \A e \in worker[w].own : d <= e
    BY <1>2, LeastExists
  <1>4. QED
    BY <1>1, <1>3 DEF Current

-----------------------------------------------------------------------------
\* A worker between the handler or the broker and the mark has a row to mark.
Busy ==
    \A w \in Workers :
        worker[w].pc \in {"handle", "markok", "markfail", "markqueued"}
        => worker[w].own # {}

\* The rows of a worker that it may still run the handler on.
Untried(w) ==
    IF worker[w].pc \in {"markok", "markfail"} THEN worker[w].own \ {Current(w)}
                                               ELSE worker[w].own

\* Neither OneOwner nor AttemptBudget is inductive alone: a run of the handler
\* stays within the attempts because the claim counted it before, also while the
\* delivery waits in the broker.
RunIsOwed ==
    /\ \A d \in Deliveries : row[d].status = "none" => row[d].attempts = 0
    /\ \A d \in Deliveries : row[d].status = "queued" => handled[d] < row[d].attempts
    /\ \A w \in Workers : \A d \in Untried(w) : handled[d] < row[d].attempts

IInv == TypeOK /\ Busy /\ OneOwner /\ AttemptBudget /\ RunIsOwed

\* Before anything is published nobody has a row and nothing has been tried.
LEMMA InitIInv == Init => IInv
  <1>1. SUFFICES ASSUME Init PROVE IInv
    OBVIOUS
  <1>2. TypeOK
    BY <1>1 DEF Init, TypeOK, Row, Worker, Statuses, Steps, Resting, NoMessages
  <1>3. \A w \in Workers : worker[w].own = {} /\ worker[w].pc = "idle"
    BY <1>1 DEF Init, Resting
  <1>4. Busy /\ OneOwner
    BY <1>3 DEF Busy, OneOwner
  <1>5. AttemptBudget /\ RunIsOwed
    BY <1>1, <1>3, DeliveryAssumption DEF Init, AttemptBudget, RunIsOwed, Untried
  <1>6. QED
    BY <1>2, <1>4, <1>5 DEF IInv

-----------------------------------------------------------------------------
\* The steps that mark a row, run a handler or send a message concern a row of
\* the worker's own.
LEMMA MarkedRow ==
    ASSUME IInv, NEW w \in Workers,
           \/ worker[w].own # {}
           \/ worker[w].pc \in {"handle", "markok", "markfail", "markqueued"}
    PROVE  Current(w) \in worker[w].own /\ Current(w) \in Deliveries
  <1>1. worker[w].own # {}
    BY DEF IInv, Busy
  <1>2. QED
    BY <1>1, CurrentOwned DEF IInv

\* What a worker holds keeps its type.
LEMMA WorkersTyped ==
    ASSUME TypeOK, NEW w \in Workers, WorkerStep(w) \/ Crash(w)
    PROVE  worker' \in [Workers -> Worker]
  <1>0. worker \in [Workers -> Worker]
    BY DEF TypeOK
  <1>1. CASE BeginPoll(w)
    BY <1>0, <1>1 DEF BeginPoll, Worker, Steps
  <1>2. CASE SelectCandidates(w)
    <2>1. PICK S \in SUBSET Deliveries :
             worker' = [worker EXCEPT ![w].pc = "claim", ![w].candidates = S]
      BY <1>2 DEF SelectCandidates
    <2>2. QED
      BY <1>0, <2>1 DEF Worker, Steps
  <1>3. CASE ClaimCandidates(w)
    <2>1. Won(w) \subseteq Deliveries
      BY <1>0, <1>3 DEF Won, Worker
    <2>2. PICK S \in SUBSET Deliveries :
             worker' = [worker EXCEPT ![w].pc = "next", ![w].stage = "rows",
                                      ![w].candidates = {}, ![w].own = S]
      BY <1>3, <2>1 DEF ClaimCandidates
    <2>3. worker'[w] \in Worker
      BY <1>0, <2>2 DEF Worker, Steps
    <2>4. QED
      BY <1>0, <2>2, <2>3
  <1>4. CASE ClaimFails(w)
    BY <1>0, <1>4 DEF ClaimFails, Worker, Steps
  <1>5. CASE Handle(w)
    BY <1>0, <1>5 DEF Handle, Worker, Steps
  <1>6. CASE MarkDelivered(w)
    BY <1>0, <1>6 DEF MarkDelivered, Settle, Worker, Steps
  <1>7. CASE MarkFailed(w)
    BY <1>0, <1>7 DEF MarkFailed, Settle, Worker, Steps
  <1>8. CASE MarkQueued(w)
    BY <1>0, <1>8 DEF MarkQueued, Settle, Worker, Steps
  <1>9. CASE MarkFails(w)
    BY <1>0, <1>9 DEF MarkFails, Settle, Worker, Steps
  <1>10. CASE PublishMessage(w)
    <2>1. PICK pc \in {"markfail", "markqueued"} :
             worker' = [worker EXCEPT ![w].pc = pc]
      BY <1>10 DEF PublishMessage
    <2>2. QED
      BY <1>0, <2>1 DEF Worker, Steps
  <1>11. CASE RowsDone(w)
    BY <1>0, <1>11 DEF RowsDone, Worker, Steps
  <1>12. CASE Consume(w)
    <2>1. PICK taken \in [Deliveries -> 0 .. MaxAttempts] :
             \/ worker' = [worker EXCEPT ![w].pc = "next", ![w].stage = "messages",
                                         ![w].inbox = taken]
             \/ worker' = [worker EXCEPT ![w].pc = "release"]
      BY <1>12 DEF Consume
    <2>2. taken \in [Deliveries -> Nat]
      BY DeliveryAssumption
    <2>3. CASE worker' = [worker EXCEPT ![w].pc = "next", ![w].stage = "messages",
                                        ![w].inbox = taken]
      <3>1. worker'[w] \in Worker
        BY <1>0, <2>2, <2>3 DEF Worker, Steps
      <3>2. QED
        BY <1>0, <2>3, <3>1
    <2>4. CASE worker' = [worker EXCEPT ![w].pc = "release"]
      BY <1>0, <2>4 DEF Worker, Steps
    <2>5. QED
      BY <2>1, <2>3, <2>4
  <1>13. ASSUME NEW d \in Deliveries, BeginQueued(w, d) PROVE worker' \in [Workers -> Worker]
    <2>1. worker[w].inbox \in [Deliveries -> Nat] /\ worker[w].inbox[d] > 0
      BY <1>0, <1>13 DEF BeginQueued, Worker
    <2>2. [worker[w].inbox EXCEPT ![d] = @ - 1] \in [Deliveries -> Nat]
      BY <2>1, <1>13
    <2>3. Drop(w, d) \in [Workers -> Worker]
      BY <1>0, <2>2 DEF Drop, Worker
    <2>4. \/ worker' = [Drop(w, d) EXCEPT ![w].pc = "handle", ![w].own = {d}]
          \/ worker' = Drop(w, d)
      BY <1>13 DEF BeginQueued
    <2>5. CASE worker' = [Drop(w, d) EXCEPT ![w].pc = "handle", ![w].own = {d}]
      BY <2>3, <2>5, <1>13 DEF Worker, Steps
    <2>6. QED
      BY <2>3, <2>4, <2>5
  <1>14. CASE MessagesDone(w)
    BY <1>0, <1>14 DEF MessagesDone, Worker, Steps
  <1>15. CASE EndPoll(w)
    BY <1>0, <1>15 DEF EndPoll, Worker, Steps
  <1>16. CASE Crash(w)
    <2>1. Resting \in Worker
      BY DEF Resting, NoMessages, Worker, Steps
    <2>2. QED
      BY <1>0, <1>16, <2>1 DEF Crash
  <1>17. QED
    BY <1>1, <1>2, <1>3, <1>4, <1>5, <1>6, <1>7, <1>8, <1>9,
       <1>10, <1>11, <1>12, <1>13, <1>14, <1>15, <1>16 DEF WorkerStep

\* So does the table.
LEMMA RowsTyped ==
    ASSUME TypeOK, NEW w \in Workers, WorkerStep(w) \/ Crash(w)
    PROVE  row' \in [Deliveries -> Row]
  <1>0. row \in [Deliveries -> Row]
    BY DEF TypeOK
  <1>1. CASE BeginPoll(w)
    BY <1>0, <1>1 DEF BeginPoll
  <1>2. CASE SelectCandidates(w)
    BY <1>0, <1>2 DEF SelectCandidates
  <1>3. CASE ClaimCandidates(w)
    <2>1. ASSUME NEW r \in Row PROVE Taken(r) \in Row
      <3>1. r.attempts + 1 \in Nat
        BY DEF Row
      <3>2. QED
        BY <3>1 DEF Taken, Row, Statuses
    <2>2. QED
      BY <1>0, <1>3, <2>1 DEF ClaimCandidates
  <1>4. CASE ClaimFails(w)
    BY <1>0, <1>4 DEF ClaimFails
  <1>5. CASE Handle(w)
    BY <1>0, <1>5 DEF Handle
  <1>6. CASE MarkDelivered(w)
    BY <1>0, <1>6 DEF MarkDelivered, SetStatus, Row, Statuses
  <1>7. CASE MarkFailed(w)
    <2>1. Exhausted(Current(w)) \in BOOLEAN
      BY DEF Exhausted
    <2>2. QED
      BY <1>0, <1>7, <2>1 DEF MarkFailed, Row, Statuses
  <1>8. CASE MarkQueued(w)
    BY <1>0, <1>8 DEF MarkQueued, SetStatus, Row, Statuses
  <1>9. CASE MarkFails(w)
    BY <1>0, <1>9 DEF MarkFails
  <1>10. CASE PublishMessage(w)
    BY <1>0, <1>10 DEF PublishMessage
  <1>11. CASE RowsDone(w)
    BY <1>0, <1>11 DEF RowsDone
  <1>12. CASE Consume(w)
    BY <1>0, <1>12 DEF Consume
  <1>13. ASSUME NEW d \in Deliveries, BeginQueued(w, d) PROVE row' \in [Deliveries -> Row]
    BY <1>0, <1>13 DEF BeginQueued, SetStatus, Row, Statuses
  <1>14. CASE MessagesDone(w)
    BY <1>0, <1>14 DEF MessagesDone
  <1>15. CASE EndPoll(w)
    BY <1>0, <1>15 DEF EndPoll
  <1>16. CASE Crash(w)
    BY <1>0, <1>16 DEF Crash
  <1>17. QED
    BY <1>1, <1>2, <1>3, <1>4, <1>5, <1>6, <1>7, <1>8, <1>9,
       <1>10, <1>11, <1>12, <1>13, <1>14, <1>15, <1>16 DEF WorkerStep

\* And so do the broker's counts, the lock, the runs of the handler and the faults.
LEMMA OthersTyped ==
    ASSUME IInv, NEW w \in Workers, WorkerStep(w) \/ Crash(w)
    PROVE  /\ broker' \in [Deliveries -> Nat]
           /\ lock' \in Workers \cup {NoWorker}
           /\ handled' \in [Deliveries -> Nat]
           /\ faults' \in Nat
  <1> DEFINE Typed == /\ broker \in [Deliveries -> Nat]
                     /\ lock \in Workers \cup {NoWorker}
                     /\ handled \in [Deliveries -> Nat]
                     /\ faults \in Nat
  <1>0. Typed
    BY DEF IInv, TypeOK
  <1>1. CASE BeginPoll(w)
    BY <1>0, <1>1 DEF BeginPoll, Fault
  <1>2. CASE SelectCandidates(w)
    BY <1>0, <1>2 DEF SelectCandidates, Fault
  <1>3. CASE ClaimCandidates(w)
    BY <1>0, <1>3 DEF ClaimCandidates, Fault
  <1>4. CASE ClaimFails(w)
    BY <1>0, <1>4 DEF ClaimFails, Fault
  <1>5. CASE Handle(w)
    <2>1. Current(w) \in Deliveries
      BY <1>5, MarkedRow DEF Handle
    <2>2. QED
      BY <1>0, <1>5, <2>1 DEF Handle
  <1>6. CASE MarkDelivered(w)
    BY <1>0, <1>6 DEF MarkDelivered, Fault
  <1>7. CASE MarkFailed(w)
    BY <1>0, <1>7 DEF MarkFailed, Fault
  <1>8. CASE MarkQueued(w)
    BY <1>0, <1>8 DEF MarkQueued, Fault
  <1>9. CASE MarkFails(w)
    BY <1>0, <1>9 DEF MarkFails, Fault
  <1>10. CASE PublishMessage(w)
    <2>1. Current(w) \in Deliveries
      BY <1>10, MarkedRow DEF PublishMessage
    <2>2. QED
      BY <1>0, <1>10, <2>1 DEF PublishMessage, Fault
  <1>11. CASE RowsDone(w)
    BY <1>0, <1>11 DEF RowsDone, Fault
  <1>12. CASE Consume(w)
    <2>1. PICK taken \in [Deliveries -> 0 .. MaxAttempts] :
             /\ \A d \in Deliveries : taken[d] <= broker[d]
             /\ broker' = [d \in Deliveries |-> broker[d] - taken[d]]
      BY <1>12 DEF Consume
    <2>2. taken \in [Deliveries -> Nat]
      BY DeliveryAssumption
    <2>3. broker' \in [Deliveries -> Nat]
      BY <1>0, <2>1, <2>2
    <2>4. QED
      BY <1>0, <1>12, <2>3 DEF Consume, Fault
  <1>13. ASSUME NEW d \in Deliveries, BeginQueued(w, d) PROVE Typed'
    BY <1>0, <1>13 DEF BeginQueued, Fault
  <1>14. CASE MessagesDone(w)
    BY <1>0, <1>14 DEF MessagesDone, Fault
  <1>15. CASE EndPoll(w)
    BY <1>0, <1>15 DEF EndPoll, Fault
  <1>16. CASE Crash(w)
    BY <1>0, <1>16 DEF Crash, Fault
  <1>17. QED
    BY <1>1, <1>2, <1>3, <1>4, <1>5, <1>6, <1>7, <1>8, <1>9,
       <1>10, <1>11, <1>12, <1>13, <1>14, <1>15, <1>16 DEF WorkerStep

\* Together: no step of the system breaks the types.
LEMMA NextTypeOK == IInv /\ [Next]_vars => TypeOK'
  <1>0. SUFFICES ASSUME IInv, [Next]_vars PROVE TypeOK'
    OBVIOUS
  <1>1. TypeOK
    BY <1>0 DEF IInv
  <1>2. ASSUME NEW d \in Deliveries, Publish(d) PROVE TypeOK'
    BY <1>1, <1>2 DEF Publish, TypeOK, Row, Statuses
  <1>3. ASSUME NEW d \in Deliveries, BackoffPasses(d) PROVE TypeOK'
    BY <1>1, <1>3 DEF BackoffPasses, TypeOK, Row
  <1>4. CASE LockExpires
    BY <1>1, <1>4 DEF LockExpires, Fault, TypeOK
  <1>5. ASSUME NEW w \in Workers, WorkerStep(w) \/ Crash(w) PROVE TypeOK'
    BY <1>0, <1>1, <1>5, WorkersTyped, RowsTyped, OthersTyped DEF TypeOK
  <1>6. CASE UNCHANGED vars
    BY <1>1, <1>6 DEF vars, TypeOK
  <1>7. QED
    BY <1>0, <1>2, <1>3, <1>4, <1>5, <1>6 DEF Next

-----------------------------------------------------------------------------
\* Steps that leave rows and runs alone and after which a worker has at most the
\* rows it could still run the handler on.
LEMMA LettingGo ==
    ASSUME IInv, TypeOK', row' = row, handled' = handled,
           NEW w \in Workers,
           \A v \in Workers \ {w} : worker'[v] = worker[v],
           worker'[w].own \subseteq Untried(w),
           worker'[w].pc \in {"handle", "markok", "markfail", "markqueued"}
              => worker'[w].own # {}
    PROVE  IInv'
  <1>1. \A v \in Workers : worker'[v].own \subseteq worker[v].own
    BY DEF Untried
  <1>2. \A v \in Workers : Untried(v)' \subseteq Untried(v)
    <2>1. \A v \in Workers \ {w} : Untried(v)' = Untried(v)
      BY DEF Untried, Current
    <2>2. Untried(w)' \subseteq Untried(w)
      BY DEF Untried
    <2>3. QED
      BY <2>1, <2>2
  <1>3. Busy'
    BY DEF IInv, Busy
  <1>4. OneOwner'
    BY <1>1 DEF IInv, OneOwner
  <1>5. AttemptBudget'
    BY DEF IInv, AttemptBudget
  <1>6. RunIsOwed'
    BY <1>2 DEF IInv, RunIsOwed
  <1>7. QED
    BY <1>3, <1>4, <1>5, <1>6 DEF IInv

\* Steps that mark the current row of a worker and let go of it.  That they look
\* at nothing but its id is safe because nobody else has it.
\* (eventbus/service.go:224-268, 308-351)
LEMMA Marking ==
    ASSUME IInv, TypeOK', handled' = handled,
           NEW w \in Workers, NEW d \in worker[w].own, d = Current(w), d \in Deliveries,
           row'[d].attempts = row[d].attempts,
           row'[d].status # "none",
           row'[d].status = "queued" => handled[d] < row[d].attempts,
           row'[d].status = "dead_letter" => row[d].attempts = MaxAttempts,
           \A e \in Deliveries \ {d} : row'[e] = row[e],
           \A v \in Workers \ {w} : worker'[v] = worker[v],
           worker'[w].own = worker[w].own \ {d},
           worker'[w].pc = "next"
    PROVE  IInv'
  <1>1. \A v \in Workers : worker[v].own \subseteq Deliveries
    BY DEF IInv, TypeOK, Worker
  <1>2. \A v \in Workers : /\ worker'[v].own \subseteq worker[v].own
                           /\ d \notin worker'[v].own
    BY DEF IInv, OneOwner
  <1>3. \A v \in Workers : Untried(v)' \subseteq Untried(v) \ {d}
    <2>1. \A v \in Workers \ {w} : Untried(v)' = Untried(v)
      BY DEF Untried, Current
    <2>2. Untried(w)' \subseteq Untried(w)
      BY DEF Untried
    <2>3. \A v \in Workers : d \notin Untried(v)'
      BY <1>2 DEF Untried
    <2>4. QED
      BY <2>1, <2>2, <2>3
  <1>4. Busy'
    BY DEF IInv, Busy
  <1>5. OneOwner'
    BY <1>1, <1>2 DEF IInv, OneOwner
  <1>6. AttemptBudget'
    BY DEF IInv, AttemptBudget
  <1>7. RunIsOwed'
    <2>1. \A v \in Workers : Untried(v) \subseteq Deliveries
      BY <1>1 DEF Untried
    <2>2. QED
      BY <1>3, <2>1 DEF IInv, RunIsOwed
  <1>8. QED
    BY <1>4, <1>5, <1>6, <1>7 DEF IInv

\* A claim takes rows nobody has and pays for one run of the handler on each.
\* (eventbus/service.go:160-180)
LEMMA Claiming ==
    ASSUME IInv, TypeOK', NEW w \in Workers, ClaimCandidates(w)
    PROVE  IInv'
  <1> DEFINE S == Won(w)
  <1>1. /\ row' = [d \in Deliveries |-> IF d \in S THEN Taken(row[d]) ELSE row[d]]
        /\ worker'[w].own = S /\ worker'[w].pc = "next"
        /\ \A v \in Workers \ {w} : worker'[v] = worker[v]
        /\ handled' = handled
    BY DEF ClaimCandidates, IInv, TypeOK, Worker
  <1>2. \A v \in Workers : worker[v].own \subseteq Deliveries
    BY DEF IInv, TypeOK, Worker
  <1>3. S \subseteq Deliveries /\ \A d \in S : Claimable(d)
    BY DEF Won, IInv, TypeOK, Worker
  <1>4. \A d \in Deliveries : row[d] \in Row /\ handled[d] \in Nat
    BY DEF IInv, TypeOK
  <1>5. \A d \in S : /\ row[d].status \notin {"processing", "queued", "dead_letter"}
                     /\ row[d].attempts < MaxAttempts
                     /\ row'[d].status = "processing"
                     /\ row'[d].attempts = row[d].attempts + 1
    BY <1>1, <1>3, <1>4 DEF Claimable, Taken, Row
  <1>6. \A d \in Deliveries \ S : row'[d] = row[d]
    BY <1>1
  <1>7. \A v \in Workers : \A d \in worker[v].own : d \notin S
    BY <1>5 DEF IInv, OneOwner
  <1>8. Busy'
    BY <1>1 DEF IInv, Busy
  <1>9. OneOwner'
    BY <1>1, <1>2, <1>3, <1>5, <1>6, <1>7 DEF IInv, OneOwner
  <1>10. AttemptBudget'
    <2>1. ASSUME NEW d \in S
          PROVE  /\ handled'[d] <= row'[d].attempts
                 /\ row'[d].attempts <= MaxAttempts
                 /\ row'[d].status # "dead_letter"
      BY <1>1, <1>3, <1>4, <1>5, DeliveryAssumption DEF IInv, AttemptBudget, Row
    <2>2. QED
      BY <1>1, <1>6, <2>1 DEF IInv, AttemptBudget
  <1>11. RunIsOwed'
    <2>1. ASSUME NEW d \in S PROVE handled'[d] < row'[d].attempts
      BY <1>1, <1>3, <1>4, <1>5 DEF IInv, AttemptBudget, Row
    <2>2. \A d \in Deliveries \ S : row'[d].status = "queued" => handled'[d] < row'[d].attempts
      BY <1>1, <1>6 DEF IInv, RunIsOwed
    <2>3. Untried(w)' \subseteq S
      BY <1>1 DEF Untried
    <2>4. ASSUME NEW v \in Workers \ {w}, NEW d \in Untried(v)'
          PROVE  handled'[d] < row'[d].attempts
      <3>1. Untried(v)' = Untried(v)
        BY <1>1 DEF Untried, Current
      <3>2. d \in Untried(v) /\ d \in Deliveries \ S
        BY <1>2, <1>7, <2>4, <3>1 DEF Untried
      <3>3. QED
        BY <1>1, <1>6, <3>2 DEF IInv, RunIsOwed
    <2>5. QED
      BY <1>5, <1>6, <2>1, <2>2, <2>3, <2>4 DEF RunIsOwed, IInv
  <1>12. QED
    BY <1>8, <1>9, <1>10, <1>11 DEF IInv

\* A run of the handler uses up what the claim paid for.
LEMMA Handling ==
    ASSUME IInv, TypeOK', NEW w \in Workers, Handle(w)
    PROVE  IInv'
  <1> DEFINE d == Current(w)
  <1>1. d \in worker[w].own /\ d \in Deliveries
    BY MarkedRow DEF Handle
  <1>2. /\ handled' = [handled EXCEPT ![d] = @ + 1] /\ row' = row
        /\ \A v \in Workers \ {w} : worker'[v] = worker[v]
        /\ worker'[w].own = worker[w].own
        /\ worker'[w].pc \in {"markok", "markfail"}
        /\ worker[w].pc \in {"next", "handle"}
    BY DEF Handle, IInv, TypeOK, Worker
  <1>3. \A v \in Workers : worker'[v].own = worker[v].own
    BY <1>2
  <1>4. handled'[d] = handled[d] + 1 /\ \A e \in Deliveries \ {d} : handled'[e] = handled[e]
    BY <1>1, <1>2 DEF IInv, TypeOK
  <1>5. d \in Untried(w) /\ handled[d] < row[d].attempts /\ row[d].status = "processing"
    BY <1>1, <1>2 DEF Untried, IInv, RunIsOwed, OneOwner
  <1>6. handled[d] \in Nat /\ row[d].attempts \in Nat
    BY <1>1 DEF IInv, TypeOK, Row
  <1>7. handled'[d] <= row[d].attempts
    BY <1>4, <1>5, <1>6
  <1>8. Untried(w)' = worker[w].own \ {d}
    BY <1>2 DEF Untried, Current
  <1>9. \A v \in Workers \ {w} : Untried(v)' = Untried(v) /\ d \notin worker[v].own
    <2>1. \A v \in Workers \ {w} : Untried(v)' = Untried(v)
      BY <1>2 DEF Untried, Current
    <2>2. QED
      BY <1>1, <2>1 DEF IInv, OneOwner
  <1>10. \A v \in Workers : Untried(v)' \subseteq Untried(v) \ {d}
    BY <1>2, <1>8, <1>9 DEF Untried
  <1>11. \A v \in Workers : Untried(v) \subseteq Deliveries
    BY DEF Untried, IInv, TypeOK, Worker
  <1>12. Busy'
    BY <1>1, <1>2, <1>3 DEF IInv, Busy
  <1>13. OneOwner'
    BY <1>2, <1>3 DEF IInv, OneOwner
  <1>14. AttemptBudget'
    BY <1>2, <1>4, <1>7 DEF IInv, AttemptBudget
  <1>15. RunIsOwed'
    BY <1>2, <1>4, <1>5, <1>10, <1>11 DEF IInv, RunIsOwed
  <1>16. QED
    BY <1>12, <1>13, <1>14, <1>15 DEF IInv

\* A message is either let go of or turned into the one right to run the handler
\* that its claim has paid for.  (eventbus/service.go:270-292)
LEMMA Acquiring ==
    ASSUME IInv, TypeOK', NEW w \in Workers, NEW d \in Deliveries, BeginQueued(w, d)
    PROVE  IInv'
  <1>2. /\ worker[w].pc = "next"
        /\ \A v \in Workers \ {w} : worker'[v] = worker[v]
        /\ handled' = handled
    BY DEF BeginQueued, Drop, IInv, TypeOK
  <1>3. Untried(w) = worker[w].own
    BY <1>2 DEF Untried
  <1>4. CASE worker' = Drop(w, d) /\ row' = row
    <2>1. worker'[w].own = worker[w].own /\ worker'[w].pc = worker[w].pc
      BY <1>4 DEF Drop, IInv, TypeOK, Worker
    <2>2. QED
      BY <1>2, <1>3, <1>4, <2>1, LettingGo
  <1>5. CASE /\ row[d].status = "queued"
             /\ row' = [row EXCEPT ![d].status = "processing"]
             /\ worker' = [Drop(w, d) EXCEPT ![w].pc = "handle", ![w].own = {d}]
    <2>1. worker'[w].own = {d} /\ worker'[w].pc = "handle"
      BY <1>5 DEF Drop, IInv, TypeOK, Worker
    <2>2. /\ row'[d].status = "processing" /\ row'[d].attempts = row[d].attempts
          /\ \A e \in Deliveries \ {d} : row'[e] = row[e]
      BY <1>5 DEF IInv, TypeOK, Row
    <2>3. \A v \in Workers : worker[v].own \subseteq Deliveries /\ d \notin worker[v].own
      BY <1>5 DEF IInv, OneOwner, TypeOK, Worker
    <2>4. handled[d] < row[d].attempts
      BY <1>5 DEF IInv, RunIsOwed
    <2>5. Busy'
      BY <1>2, <2>1 DEF IInv, Busy
    <2>6. OneOwner'
      BY <1>2, <2>1, <2>2, <2>3 DEF IInv, OneOwner
    <2>7. AttemptBudget'
      BY <1>2, <2>2 DEF IInv, AttemptBudget
    <2>8. RunIsOwed'
      <3>1. Untried(w)' = {d}
        BY <2>1 DEF Untried
      <3>2. \A v \in Workers \ {w} : Untried(v)' = Untried(v) /\ Untried(v) \subseteq Deliveries \ {d}
        BY <1>2, <2>3 DEF Untried, Current
      <3>3. QED
        BY <1>2, <2>2, <2>4, <3>1, <3>2 DEF IInv, RunIsOwed
    <2>9. QED
      BY <2>5, <2>6, <2>7, <2>8 DEF IInv
  <1>6. QED
    BY <1>4, <1>5 DEF BeginQueued, Acquirable, SetStatus

\* Publishing a delivery and letting its backoff pass touch only rows that no
\* worker has.
LEMMA Waking ==
    ASSUME IInv, TypeOK', NEW d \in Deliveries, Publish(d) \/ BackoffPasses(d)
    PROVE  IInv'
  <1>1. /\ worker' = worker /\ handled' = handled
        /\ \A e \in Deliveries \ {d} : row'[e] = row[e]
        /\ row[d].status \in {"none", "failed"}
        /\ row'[d].status \in {"pending", "failed"}
    BY DEF Publish, BackoffPasses, IInv, TypeOK, Row
  <1>2. row'[d].attempts = row[d].attempts
    BY DEF Publish, BackoffPasses, IInv, TypeOK, Row, RunIsOwed
  <1>3. \A v \in Workers : worker[v].own \subseteq Deliveries \ {d}
    BY <1>1 DEF IInv, OneOwner, TypeOK, Worker
  <1>4. \A v \in Workers : Untried(v)' = Untried(v) /\ Untried(v) \subseteq Deliveries \ {d}
    BY <1>1, <1>3 DEF Untried, Current
  <1>5. Busy' /\ OneOwner'
    BY <1>1, <1>3 DEF IInv, Busy, OneOwner
  <1>6. AttemptBudget'
    BY <1>1, <1>2 DEF IInv, AttemptBudget
  <1>7. RunIsOwed'
    BY <1>1, <1>4 DEF IInv, RunIsOwed
  <1>8. QED
    BY <1>5, <1>6, <1>7 DEF IInv

-----------------------------------------------------------------------------
\* Every step of publishers, workers, lock and faults keeps the invariant.
LEMMA NextIInv == IInv /\ [Next]_vars => IInv'
  <1>0. SUFFICES ASSUME IInv, [Next]_vars PROVE IInv'
    OBVIOUS
  <1>1. TypeOK'
    BY <1>0, NextTypeOK
  <1>2. ASSUME NEW d \in Deliveries, Publish(d) \/ BackoffPasses(d) PROVE IInv'
    BY <1>0, <1>1, <1>2, Waking
  <1>3. CASE row' = row /\ worker' = worker /\ handled' = handled
    <2>1. \A v \in Workers : Untried(v)' = Untried(v)
      BY <1>3 DEF Untried, Current
    <2>2. QED
      BY <1>0, <1>1, <1>3, <2>1 DEF IInv, Busy, OneOwner, AttemptBudget, RunIsOwed
  <1>4. ASSUME NEW w \in Workers, WorkerStep(w) \/ Crash(w) PROVE IInv'
    <2> DEFINE Quietly ==
          /\ row' = row /\ handled' = handled
          /\ \A v \in Workers \ {w} : worker'[v] = worker[v]
          /\ worker'[w].own \subseteq Untried(w)
          /\ worker'[w].pc \in {"handle", "markok", "markfail", "markqueued"}
                => worker'[w].own # {}
    <2>0. worker \in [Workers -> Worker] /\ row \in [Deliveries -> Row]
      BY <1>0 DEF IInv, TypeOK
    <2>1. ASSUME Quietly PROVE IInv'
      BY <1>0, <1>1, <2>1, LettingGo
    <2>2. CASE BeginPoll(w)
      BY <2>0, <2>1, <2>2 DEF BeginPoll, Untried, Worker
    <2>3. CASE SelectCandidates(w)
      BY <2>0, <2>1, <2>3 DEF SelectCandidates, Untried, Worker
    <2>4. CASE ClaimCandidates(w)
      BY <1>0, <1>1, <2>4, Claiming
    <2>5. CASE ClaimFails(w)
      BY <2>0, <2>1, <2>5 DEF ClaimFails, Untried, Worker
    <2>6. CASE Handle(w)
      BY <1>0, <1>1, <2>6, Handling
    <2>7. CASE MarkDelivered(w)
      <3>1. Current(w) \in worker[w].own /\ Current(w) \in Deliveries
        BY <1>0, <2>7, MarkedRow DEF MarkDelivered
      <3>2. /\ handled' = handled
            /\ row'[Current(w)].attempts = row[Current(w)].attempts
            /\ \A e \in Deliveries \ {Current(w)} : row'[e] = row[e]
            /\ \A v \in Workers \ {w} : worker'[v] = worker[v]
            /\ worker'[w].own = worker[w].own \ {Current(w)}
            /\ worker'[w].pc = "next"
        BY <2>0, <2>7, <3>1 DEF MarkDelivered, SetStatus, Settle, Row, Worker
      <3>3. row'[Current(w)].status = "succeeded"
        BY <2>0, <2>7, <3>1 DEF MarkDelivered, SetStatus, Row
      <3>4. QED
        BY <1>0, <1>1, <3>1, <3>2, <3>3, Marking
    <2>8. CASE MarkFailed(w)
      <3>1. Current(w) \in worker[w].own /\ Current(w) \in Deliveries
        BY <1>0, <2>8, MarkedRow DEF MarkFailed
      <3>2. /\ handled' = handled
            /\ row'[Current(w)].attempts = row[Current(w)].attempts
            /\ \A e \in Deliveries \ {Current(w)} : row'[e] = row[e]
            /\ \A v \in Workers \ {w} : worker'[v] = worker[v]
            /\ worker'[w].own = worker[w].own \ {Current(w)}
            /\ worker'[w].pc = "next"
        BY <2>0, <2>8, <3>1 DEF MarkFailed, Settle, Row, Worker
      <3>3. \/ row'[Current(w)].status = "failed"
            \/ row'[Current(w)].status = "dead_letter" /\ Exhausted(Current(w))
        BY <2>0, <2>8, <3>1 DEF MarkFailed, Row
      <3>4. row[Current(w)].attempts \in Nat /\ row[Current(w)].attempts <= MaxAttempts
        BY <1>0, <2>0, <3>1 DEF IInv, AttemptBudget, Row
      <3>5. Exhausted(Current(w)) => row[Current(w)].attempts = MaxAttempts
        BY <3>4, DeliveryAssumption DEF Exhausted
      <3>6. QED
        BY <1>0, <1>1, <3>1, <3>2, <3>3, <3>5, Marking
    <2>9. CASE MarkQueued(w)
      <3>1. Current(w) \in worker[w].own /\ Current(w) \in Deliveries
        BY <1>0, <2>9, MarkedRow DEF MarkQueued
      <3>2. /\ handled' = handled
            /\ row'[Current(w)].attempts = row[Current(w)].attempts
            /\ \A e \in Deliveries \ {Current(w)} : row'[e] = row[e]
            /\ \A v \in Workers \ {w} : worker'[v] = worker[v]
            /\ worker'[w].own = worker[w].own \ {Current(w)}
            /\ worker'[w].pc = "next"
        BY <2>0, <2>9, <3>1 DEF MarkQueued, SetStatus, Settle, Row, Worker
      <3>3. row'[Current(w)].status = "queued"
        BY <2>0, <2>9, <3>1 DEF MarkQueued, SetStatus, Row
      <3>4. handled[Current(w)] < row[Current(w)].attempts
        BY <1>0, <2>9, <3>1 DEF MarkQueued, IInv, RunIsOwed, Untried
      <3>5. QED
        BY <1>0, <1>1, <3>1, <3>2, <3>3, <3>4, Marking
    <2>10. CASE MarkFails(w)
      BY <2>0, <2>1, <2>10 DEF MarkFails, Settle, Untried, Worker
    <2>11. CASE PublishMessage(w)
      BY <2>0, <2>1, <2>11 DEF PublishMessage, Untried, Worker
    <2>12. CASE RowsDone(w)
      BY <2>0, <2>1, <2>12 DEF RowsDone, Untried, Worker
    <2>13. CASE Consume(w)
      BY <2>0, <2>1, <2>13 DEF Consume, Untried, Worker
    <2>14. ASSUME NEW d \in Deliveries, BeginQueued(w, d) PROVE IInv'
      BY <1>0, <1>1, <2>14, Acquiring
    <2>15. CASE MessagesDone(w)
      BY <2>0, <2>1, <2>15 DEF MessagesDone, Untried, Worker
    <2>16. CASE EndPoll(w)
      BY <2>0, <2>1, <2>16 DEF EndPoll, Untried, Worker
    <2>17. CASE Crash(w)
      BY <2>0, <2>1, <2>17 DEF Crash, Resting, Untried, Worker
    <2>18. QED
      BY <1>4, <2>2, <2>3, <2>4, <2>5, <2>6, <2>7, <2>8, <2>9, <2>10, <2>11, <2>12,
         <2>13, <2>14, <2>15, <2>16, <2>17 DEF WorkerStep
  <1>5. CASE LockExpires
    BY <1>3, <1>5 DEF LockExpires
  <1>6. CASE UNCHANGED vars
    BY <1>3, <1>6 DEF vars
  <1>7. QED
    BY <1>0, <1>2, <1>4, <1>5, <1>6 DEF Next

\* The strengthened invariant holds in every reachable state.
THEOREM Invariance == Spec => []IInv
  BY InitIInv, NextIInv, PTL DEF Spec

\* Every row, message, worker and lock keeps its type.
THEOREM TypeCorrect == Spec => []TypeOK
  BY Invariance, PTL DEF IInv

\* However many workers poll, whatever crashes and whether or not the Redis lock
\* holds, a claimed row is in the hands of one of them and is marked processing.
\* (eventbus/service.go:162-180, 277-291)
THEOREM RowsHaveOneOwner == Spec => []OneOwner
  BY Invariance, PTL DEF IInv

\* The handler runs at most once per attempt, attempts never exceed max_attempts,
\* and a row is a dead letter only when all are used.
\* (eventbus/service.go:151-172, 327-333)
THEOREM AttemptsAreBudgeted == Spec => []AttemptBudget
  BY Invariance, PTL DEF IInv

\* No step of any worker changes a settled row or handles it again.
LEMMA SettledStep ==
    IInv /\ [Next]_vars =>
        \A d \in Deliveries : row[d].status \in Terminal
                              => row'[d] = row[d] /\ handled'[d] = handled[d]
  <1>0. SUFFICES ASSUME IInv, [Next]_vars,
                        NEW d \in Deliveries, row[d].status \in Terminal
                 PROVE  row'[d] = row[d] /\ handled'[d] = handled[d]
    OBVIOUS
  <1>1. /\ row \in [Deliveries -> Row] /\ handled \in [Deliveries -> Nat]
        /\ \A w \in Workers : d \notin worker[w].own
    BY <1>0 DEF IInv, TypeOK, OneOwner, Terminal
  <1>2. ASSUME NEW e \in Deliveries, Publish(e) \/ BackoffPasses(e)
        PROVE  row'[d] = row[d] /\ handled'[d] = handled[d]
    BY <1>0, <1>1, <1>2 DEF Publish, BackoffPasses, Terminal
  <1>3. ASSUME NEW w \in Workers, WorkerStep(w) \/ Crash(w)
        PROVE  row'[d] = row[d] /\ handled'[d] = handled[d]
    <2>1. CASE row' = row /\ handled' = handled
      BY <2>1
    <2>2. CASE ClaimCandidates(w)
      <3>1. d \notin Won(w)
        BY <1>0 DEF Won, Claimable, Terminal
      <3>2. QED
        BY <1>0, <2>2, <3>1 DEF ClaimCandidates
    <2>3. CASE Handle(w)
      <3>1. Current(w) \in worker[w].own
        BY <1>0, <2>3, MarkedRow DEF Handle
      <3>2. QED
        BY <1>1, <2>3, <3>1 DEF Handle
    <2>4. CASE MarkDelivered(w) \/ MarkFailed(w) \/ MarkQueued(w)
      <3>1. Current(w) \in worker[w].own
        BY <1>0, <2>4, MarkedRow DEF MarkDelivered, MarkFailed, MarkQueued
      <3>2. QED
        BY <1>1, <2>4, <3>1 DEF MarkDelivered, MarkFailed, MarkQueued, SetStatus
    <2>5. ASSUME NEW e \in Deliveries, BeginQueued(w, e)
          PROVE  row'[d] = row[d] /\ handled'[d] = handled[d]
      BY <1>0, <1>1, <2>5 DEF BeginQueued, Acquirable, SetStatus, Terminal
    <2>6. QED
      BY <1>3, <2>1, <2>2, <2>3, <2>4, <2>5
         DEF WorkerStep, BeginPoll, SelectCandidates, ClaimFails, MarkFails,
             PublishMessage, RowsDone, Consume, MessagesDone, EndPoll, Crash
  <1>4. CASE LockExpires \/ UNCHANGED vars
    BY <1>4 DEF LockExpires, vars
  <1>5. QED
    BY <1>0, <1>2, <1>3, <1>4 DEF Next

\* A delivery that succeeded or was given up stays as it is: no late mark, lost
\* lock, retry or duplicate message reopens it.  (eventbus/service.go:224-291)
THEOREM SettledStaysSettled == Spec => SettledForGood
  <1>1. IInv /\ [Next]_vars =>
            [\A d \in Deliveries : row[d].status \in Terminal => row'[d] = row[d]]_vars
    BY SettledStep
  <1>2. QED
    BY <1>1, Invariance, PTL DEF Spec, SettledForGood

\* And its handler does not run again.  (worker/runtime.go:371-381)
THEOREM SettledIsNotHandled == Spec => NoHandlingAfterSettled
  <1>1. IInv /\ [Next]_vars =>
            [\A d \in Deliveries : row[d].status \in Terminal
                                   => handled'[d] = handled[d]]_vars
    BY SettledStep
  <1>2. QED
    BY <1>1, Invariance, PTL DEF Spec, NoHandlingAfterSettled
=============================================================================
