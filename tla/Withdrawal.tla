----------------------------- MODULE Withdrawal -----------------------------
(***************************************************************************)
(* Withdrawal requests: creation freezes the amount, a review approves or   *)
(* rejects, a payout succeeds, fails or returns.  Each handler calls the    *)
(* account service (and, for a successful payout, the risk service) before  *)
(* it commits its own row and event, and undoes what it did by compensating *)
(* calls when something fails.  It decides on the row it read at the start  *)
(* and overwrites the row at the end without another look.                  *)
(***************************************************************************)
EXTENDS RiskCase, Sequences

CONSTANTS Requests,   \* idempotency keys of withdrawal requests
          Submits,    \* what may be asked for: [agent, amount]
          Resubmits   \* may a client submit a key again?

LedgerSteps == {"withdrawal-freeze", "withdrawal-reject", "withdrawal-fail",
                "withdrawal-return", "withdrawal-complete-unfreeze", "withdrawal-complete"}
LedgerUndos == {"withdrawal-compensate-create", "withdrawal-compensate-reject",
                "withdrawal-compensate-fail", "withdrawal-compensate-return",
                "withdrawal-compensate-complete-unfreeze",
                "withdrawal-compensate-complete-reverse"}
RequestKeys == (LedgerSteps \cup LedgerUndos) \X Requests

ASSUME RequestAssumption ==
    /\ RequestKeys \subseteq Keys
    /\ Submits \subseteq [agent: Agents, amount: Nat \ {0}]
    /\ Resubmits \in BOOLEAN
    /\ \A o \in Openings : o.key \notin RequestKeys

VARIABLES request,   \* table withdrawal_request: a function on the keys that exist
          handlers   \* withdrawal handlers in progress: a function on their callers

vars == <<account, journal, faults, riskCase, reviews, events, request, handlers>>

RequestStatuses == {"pending", "approved", "rejected", "paid", "failed", "returned"}
Ops == {"create", "approve", "reject", "success", "fail", "return"}

\* undo: the compensations to run, the latest first; cases: what was released.
Handler == [op: Ops, key: Requests, agent: Agents, amount: Nat,
            pc: {"insert", "unfreeze", "deduct", "release", "releasing", "save",
                 "undo", "restoring"},
            undo: Seq(LedgerUndos \cup {"restore"}), cases: SUBSET Cases]

Init ==
    /\ CaseInit
    /\ request = [k \in {} |-> NoCase]
    /\ handlers = [x \in {} |-> NoCase]

\* The status an operation ends in.
Outcome == [approve |-> "approved", reject |-> "rejected", success |-> "paid",
            fail |-> "failed", return |-> "returned"]

\* Mutant of UnfreezeStep: the prefix is forgotten.
UnfreezeStepShort == [reject |-> "reject", fail |-> "fail", return |-> "return",
                      success |-> "complete-unfreeze"]

\* The ledger entry with which an operation lets go of the frozen amount, and
\* its compensation.
UnfreezeStep == [reject |-> "withdrawal-reject", fail |-> "withdrawal-fail",
                 return |-> "withdrawal-return",
                 success |-> "withdrawal-complete-unfreeze"]
UnfreezeUndo == [reject |-> "withdrawal-compensate-reject",
                 fail |-> "withdrawal-compensate-fail",
                 return |-> "withdrawal-compensate-return",
                 success |-> "withdrawal-compensate-complete-unfreeze"]

StepEntry(o, type) ==
    [agent |-> o.agent, type |-> type, amount |-> o.amount, ref |-> "withdrawal_request"]

\* Mutant of DeductEntry: a reference that does not move the balance.
DeductEntryVoid(h) ==
    [agent |-> h.agent, type |-> "reverse", amount |-> h.amount,
     ref |-> "withdrawal_request_compensation"]

DeductEntry(h) == StepEntry(h, "reverse")

UndoEntry(h, undo) ==
    [agent |-> h.agent,
     type |-> CASE undo = "withdrawal-compensate-create" -> "unfreeze"
                [] undo = "withdrawal-compensate-complete-reverse" -> "income"
                [] OTHER -> "freeze",
     amount |-> h.amount, ref |-> "withdrawal_request_compensation"]

Idle(x) == x \notin DOMAIN handlers /\ Free(x)
At(x, pc) == x \in DOMAIN handlers /\ handlers[x].pc = pc
Goto(x, h) == handlers' = Put(handlers, x, h)
End(x) == handlers' = [y \in DOMAIN handlers \ {x} |-> handlers[y]]
Compensate(x) == Goto(x, [handlers[x] EXCEPT !.pc = "undo"])
Pushed(h, undo, pc) == [h EXCEPT !.undo = <<undo>> \o @, !.pc = pc]

\* Mutant of FirstMove: nothing is unfrozen when a request is rejected.
FirstMoveSaves(op) == IF op \in {"approve", "reject"} THEN "save" ELSE "unfreeze"

FirstMove(op) == IF op = "approve" THEN "save" ELSE "unfreeze"

\* The status a request must have for an operation.
Decidable(k, op) ==
    request[k].status = IF op \in {"approve", "reject"} THEN "pending" ELSE "approved"

\* Mutant of Unfrozen: the compensation is noted before the outcome is known.
UnfrozenBlind(h, ok) ==
    Pushed(h, UnfreezeUndo[h.op],
           IF ~ok THEN "undo" ELSE IF h.op = "success" THEN "deduct" ELSE "save")

\* A handler after its unfreeze.
Unfrozen(h, ok) ==
    IF ok THEN Pushed(h, UnfreezeUndo[h.op], IF h.op = "success" THEN "deduct" ELSE "save")
          ELSE [h EXCEPT !.pc = "undo"]

-----------------------------------------------------------------------------
\* create: the freeze is the first thing that happens.
Submit(x, k, o) ==
    /\ Idle(x)
    /\ ~Resubmits => <<"withdrawal-freeze", k>> \notin DOMAIN journal
    /\ \E ok \in BOOLEAN :
          /\ LedgerCall(<<"withdrawal-freeze", k>>, StepEntry(o, "freeze"), ok)
          /\ IF ok
             THEN Goto(x, [op |-> "create", key |-> k, agent |-> o.agent,
                           amount |-> o.amount, pc |-> "insert",
                           undo |-> <<"withdrawal-compensate-create">>, cases |-> {}])
             ELSE UNCHANGED handlers
    /\ UNCHANGED <<riskCase, reviews, events, request>>

\* Its transaction: the row, unique by key, and the event.
InsertRequest(x) ==
    /\ At(x, "insert")
    /\ LET h == handlers[x]
       IN  \/ /\ h.key \notin DOMAIN request
              /\ request' = Put(request, h.key, [agent |-> h.agent, amount |-> h.amount,
                                                 status |-> "pending"])
              /\ events' = events \cup {<<"withdrawal.created", h.key>>}
              /\ End(x)
              /\ UNCHANGED faults
           \/ /\ h.key \in DOMAIN request
              /\ Compensate(x)
              /\ UNCHANGED <<request, events, faults>>
           \/ /\ Fault
              /\ Compensate(x)
              /\ UNCHANGED <<request, events>>
    /\ UNCHANGED <<account, journal, riskCase, reviews>>

\* review and payout read the request and decide on its status.
BeginHandling(x, k, op) ==
    /\ Idle(x)
    /\ k \in DOMAIN request
    /\ Decidable(k, op)
    /\ Goto(x, [op |-> op, key |-> k, agent |-> request[k].agent,
                amount |-> request[k].amount,
                pc |-> FirstMove(op),
                undo |-> <<>>, cases |-> {}])
    /\ UNCHANGED <<account, journal, faults, riskCase, reviews, events, request>>

UnfreezeAmount(x) ==
    /\ At(x, "unfreeze")
    /\ LET h == handlers[x]
       IN  \E ok \in BOOLEAN :
              /\ LedgerCall(<<UnfreezeStep[h.op], h.key>>, StepEntry(h, "unfreeze"), ok)
              /\ Goto(x, Unfrozen(h, ok))
    /\ UNCHANGED <<riskCase, reviews, events, request>>

DeductAmount(x) ==
    /\ At(x, "deduct")
    /\ LET h == handlers[x]
       IN  \E ok \in BOOLEAN :
              /\ LedgerCall(<<"withdrawal-complete", h.key>>, DeductEntry(h), ok)
              /\ IF ok
                 THEN Goto(x, Pushed(h, "withdrawal-compensate-complete-reverse", "release"))
                 ELSE Compensate(x)
    /\ UNCHANGED <<riskCase, reviews, events, request>>

\* A successful payout has all pending cases of the agent released.
CallRelease(x) ==
    /\ At(x, "release")
    /\ \/ /\ BeginRelease(x, handlers[x].agent)
          /\ Goto(x, [handlers[x] EXCEPT !.pc = "releasing"])
       \/ /\ Fault
          /\ Compensate(x)
          /\ UNCHANGED <<account, journal, riskCase, reviews, events>>
    /\ UNCHANGED request

\* Its answer; with an error the cases released so far are not looked at.
TakeReleased(x) ==
    /\ At(x, "releasing")
    /\ x \in DOMAIN reviews /\ reviews[x].pc = "done"
    /\ LET h == handlers[x]
           r == reviews[x]
       IN  IF ~r.ok THEN Compensate(x)
           ELSE Goto(x, IF r.done = {} THEN [h EXCEPT !.pc = "save"]
                        ELSE [Pushed(h, "restore", "save") EXCEPT !.cases = r.done])
    /\ Finish(x)
    /\ UNCHANGED <<account, journal, faults, riskCase, events, request>>

Waiting(x) == At(x, "releasing") \/ At(x, "restoring")

\* A call of the risk service times out; the risk service carries on.
Abandon(x) ==
    /\ Transport = "http"
    /\ Waiting(x)
    /\ Fault
    /\ IF At(x, "releasing") THEN Compensate(x) ELSE End(x)
    /\ UNCHANGED <<account, journal, riskCase, reviews, events, request>>

\* The transaction of the handler: the row as read, with the new status, and
\* the event.
SaveRequest(x) ==
    /\ At(x, "save")
    /\ LET h == handlers[x]
       IN  \/ /\ request' = [request EXCEPT ![h.key].status = Outcome[h.op]]
              /\ events' = events \cup {<<"withdrawal", h.key, Outcome[h.op]>>}
              /\ End(x)
              /\ UNCHANGED faults
           \/ /\ Fault
              /\ Compensate(x)
              /\ UNCHANGED <<request, events>>
    /\ UNCHANGED <<account, journal, riskCase, reviews>>

\* runCompensations, the latest first, giving up at the first that fails.
UndoLedger(x) ==
    /\ At(x, "undo")
    /\ handlers[x].undo # <<>>
    /\ LET h == handlers[x]
           undo == Head(h.undo)
       IN  /\ undo # "restore"
           /\ \E ok \in BOOLEAN :
                 /\ LedgerCall(<<undo, h.key>>, UndoEntry(h, undo), ok)
                 /\ IF ok THEN Goto(x, [h EXCEPT !.undo = Tail(@)]) ELSE End(x)
    /\ UNCHANGED <<riskCase, reviews, events, request>>

CallRestore(x) ==
    /\ At(x, "undo")
    /\ LET h == handlers[x]
       IN  /\ h.undo # <<>> /\ Head(h.undo) = "restore"
           /\ BeginRestore(x, h.cases)
           /\ Goto(x, [h EXCEPT !.undo = Tail(@), !.pc = "restoring"])
    /\ UNCHANGED request

TakeRestored(x) ==
    /\ At(x, "restoring")
    /\ x \in DOMAIN reviews /\ reviews[x].pc = "done"
    /\ Finish(x)
    /\ IF reviews[x].ok THEN Compensate(x) ELSE End(x)
    /\ UNCHANGED <<account, journal, faults, riskCase, events, request>>

UndoDone(x) ==
    /\ At(x, "undo") /\ handlers[x].undo = <<>>
    /\ End(x)
    /\ UNCHANGED <<account, journal, faults, riskCase, reviews, events, request>>

\* The withdrawal process dies between two steps, and the risk module with it
\* when it is in the same process.
CrashHandler(x) ==
    /\ Crashes
    /\ x \in DOMAIN handlers
    /\ Fault
    /\ End(x)
    /\ IF Transport = "local" /\ ~Free(x) THEN Finish(x) ELSE UNCHANGED reviews
    /\ UNCHANGED <<account, journal, riskCase, events, request>>

Handling(x) ==
    \/ InsertRequest(x)
    \/ UnfreezeAmount(x)
    \/ DeductAmount(x)
    \/ CallRelease(x)
    \/ TakeReleased(x)
    \/ Abandon(x)
    \/ SaveRequest(x)
    \/ UndoLedger(x)
    \/ CallRestore(x)
    \/ TakeRestored(x)
    \/ UndoDone(x)
    \/ CrashHandler(x)

\* Steps of the risk service, called by a payout or by an operator of its own.
RiskStep(x) ==
    /\ \/ ReviewStep(x)
       \/ ~Waiting(x) /\ (Return(x) \/ CrashReview(x))
       \/ x \notin DOMAIN handlers /\ CaseRequest(x)
    /\ UNCHANGED <<request, handlers>>

Next ==
    \E x \in Callers :
        \/ \E k \in Requests, o \in Submits : Submit(x, k, o)
        \/ \E k \in Requests, op \in Ops \ {"create"} : BeginHandling(x, k, op)
        \/ Handling(x)
        \/ RiskStep(x)

Spec == Init /\ [][Next]_vars

-----------------------------------------------------------------------------
TypeOK ==
    /\ CaseTypeOK
    /\ DOMAIN request \subseteq Requests
    /\ \A k \in DOMAIN request :
          request[k] \in [agent: Agents, amount: Nat, status: RequestStatuses]
    /\ DOMAIN handlers \subseteq Callers
    /\ \A x \in DOMAIN handlers : handlers[x] \in Handler

Quiet == DOMAIN handlers = {} /\ DOMAIN reviews = {}

\* The amounts of the rows S of a table.
AmountsOf(table, S) == SumFunctionOnSet([k \in DOMAIN table |-> table[k].amount], S)

\* The requests of an agent in one of these states, and the frozen cases.
RequestsOf(a, statuses) ==
    {k \in DOMAIN request : request[k].agent = a /\ request[k].status \in statuses}
HeldCases(a) ==
    {c \in DOMAIN riskCase : /\ riskCase[c].agent = a
                             /\ riskCase[c].freeze
                             /\ riskCase[c].status # "released"}

\* What the agents were promised: between requests the frozen balance is what the
\* open withdrawal requests and the unreleased cases account for.
\* (withdrawal/service.go:190-213, 284-293, 302-327, 400-423; the code does not keep
\* it when two operators review one request, each on the row it has read)
FrozenExplained ==
    Quiet => \A a \in Agents :
        account[a].frozen = AmountsOf(request, RequestsOf(a, {"pending", "approved"}))
                            + AmountsOf(riskCase, HeldCases(a))

\* A paid request was deducted, and nothing else was.
\* (withdrawal/service.go:424-450; the code does not keep it for a payout that
\* failed once and is tried again)
PaidIsDeducted ==
    Quiet => \A a \in Agents :
        Funds - account[a].balance = AmountsOf(request, RequestsOf(a, {"paid"}))

\* The requests of an agent whose deduction was posted and not taken back.
Deducted(a) ==
    {k \in DOMAIN request :
        /\ request[k].agent = a
        /\ <<"withdrawal-complete", k>> \in DOMAIN journal
        /\ <<"withdrawal-compensate-complete-reverse", k>> \notin DOMAIN journal}

\* The money of an agent is at every moment what was earned, less the amounts of
\* the requests whose deduction stands: whatever is retried, resubmitted with
\* another amount, handled by two operators, times out, fails or crashes, a request
\* is deducted at most once, refunded at most once and by what it took, and no case
\* touches the balance.  (withdrawal/service.go:424-450, 462-489)
DeductionsExplained ==
    \A a \in Agents : Funds - account[a].balance = AmountsOf(request, Deducted(a))

\* No request reaches a status before the money has moved, whatever fails, is
\* retried or runs at the same time.  (withdrawal/service.go:302-330, 400-489)
StatusHasEntries ==
    \A k \in DOMAIN request :
        LET posted == {s \in LedgerSteps : <<s, k>> \in DOMAIN journal}
        IN  /\ "withdrawal-freeze" \in posted
            /\ request[k].status = "paid" =>
                  {"withdrawal-complete-unfreeze", "withdrawal-complete"} \subseteq posted
            /\ request[k].status = "rejected" => "withdrawal-reject" \in posted
            /\ request[k].status = "failed" => "withdrawal-fail" \in posted
            /\ request[k].status = "returned" => "withdrawal-return" \in posted

\* A compensation is only ever posted for an entry that was: running one blindly,
\* after a timeout or out of order, would create money or freeze it twice.
\* (withdrawal/service.go:203-216, 314-325, 411-423, 437-449)
UndoFollowsStep ==
    \A k \in Requests :
        /\ <<"withdrawal-compensate-create", k>> \in DOMAIN journal
              => <<"withdrawal-freeze", k>> \in DOMAIN journal
        /\ <<"withdrawal-compensate-complete-reverse", k>> \in DOMAIN journal
              => <<"withdrawal-complete", k>> \in DOMAIN journal
        /\ \A op \in {"reject", "fail", "return", "success"} :
              <<UnfreezeUndo[op], k>> \in DOMAIN journal
                 => <<UnfreezeStep[op], k>> \in DOMAIN journal
=============================================================================
