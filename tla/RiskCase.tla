------------------------------ MODULE RiskCase ------------------------------
(***************************************************************************)
(* Risk cases of the risk service: opening one freezes money of an agent,   *)
(* a review releases or confirms it, and the withdrawal service releases    *)
(* all pending cases of an agent and, to compensate, restores them.  Every  *)
(* request handler reads the case first and writes it back later without    *)
(* another look; the ledger call, the save of the case and the event are    *)
(* separate commits except where the code puts them in one transaction.     *)
(***************************************************************************)
EXTENDS LedgerClient

CONSTANTS Cases,        \* case numbers, the callers' choice
          Callers,      \* concurrent request handlers
          Openings,     \* what creations may ask for; key: the caller's own key of
                        \* the freeze, NoCase for none
          Asked,        \* what operators and peers ask of the service, see CaseRequest
          Funds,        \* what every agent has earned at the start
          NoCase

CaseKinds == {"risk-case-freeze", "risk-case-release", "risk-case-restore"}
CaseKeys  == CaseKinds \X Cases
EarnedKey(a) == <<"commission", a>>

ASSUME CaseAssumption ==
    /\ CaseKeys \cup {EarnedKey(a) : a \in Agents} \subseteq Keys
    /\ Openings \subseteq [case: Cases, agent: Agents, amount: Nat, freeze: BOOLEAN,
                          key: Keys \cup {NoCase}]
    /\ \A o \in Openings : o.freeze => o.amount > 0
    /\ \A o \in Openings : o.key \notin {"risk-case-release", "risk-case-restore"} \X Cases
    /\ Asked \subseteq {"release", "confirm", "release-pending", "restore"}
    /\ Funds \in Nat \ {0}
    /\ NoCase \notin Cases \cup Openings \cup Keys

VARIABLES riskCase,  \* table risk_case: a function on the cases that exist
          reviews,   \* calls of the risk service in progress: a function on their callers
          events     \* idempotency keys in table domain_event

riskVars == <<account, journal, faults, riskCase, reviews, events>>

Statuses == {"pending", "released", "confirmed"}
CaseRow == [agent: Agents, amount: Nat, freeze: BOOLEAN, status: Statuses]

\* todo: cases of a list still to do; done: cases it released or restored.
Review == [op: {"create", "release", "confirm", "restore"},
           pc: {"next", "post", "save", "publish", "done"},
           current: Cases \cup {NoCase}, todo: SUBSET Cases, done: SUBSET Cases,
           opening: Openings \cup {NoCase}, ok: BOOLEAN]

Started(op, pc, c, todo) ==
    [op |-> op, pc |-> pc, current |-> c, todo |-> todo, done |-> {},
     opening |-> NoCase, ok |-> TRUE]

\* Mutant of FreezeOf: an unknown prefix.
FreezeOfRisk(c) == <<"risk-freeze", c>>

\* The idempotency keys of the entries of a case.
FreezeOf(c)  == <<"risk-case-freeze", c>>
ReleaseOf(c) == <<"risk-case-release", c>>
RestoreOf(c) == <<"risk-case-restore", c>>

\* The key of the freeze of a creation: the caller's, if there is one.
FreezeKey(o) == IF o.key = NoCase THEN FreezeOf(o.case) ELSE o.key

\* Mutant of ReviewEvent: the outcome is left out of the key.
ReviewEventAny(r) == <<"risk.review", r.current, "confirm">>

\* The idempotency key of the event of a review.
ReviewEvent(r) == <<"risk.review", r.current, r.op>>

CaseEntry(o, type) ==
    [agent |-> o.agent, type |-> type, amount |-> o.amount, ref |-> "risk_case"]

\* The agents start with an account and one income entry.
Earned(a) == [agent |-> a, type |-> "income", amount |-> Funds, ref |-> "commission_record"]

CaseInit ==
    /\ account = [a \in Agents |-> ApplyEntry(NewAccount, Earned(a))]
    /\ journal = [k \in {EarnedKey(a) : a \in Agents} |->
                    JournalRow(NewAccount, Earned(k[2]))]
    /\ faults = 0
    /\ riskCase = [c \in {} |-> NoCase]
    /\ reviews = [x \in {} |-> NoCase]
    /\ events = {}

Free(x) == x \notin DOMAIN reviews
Step(x, r) == reviews' = Put(reviews, x, r)
Finish(x) == reviews' = [y \in DOMAIN reviews \ {x} |-> reviews[y]]
Failed(x) == Step(x, [reviews[x] EXCEPT !.pc = "done", !.ok = FALSE])

NewRow(o) == [agent |-> o.agent, amount |-> o.amount, freeze |-> o.freeze,
              status |-> "pending"]

\* Case c with its status overwritten, whatever it is by now.
SetStatus(c, status) == riskCase' = [riskCase EXCEPT ![c].status = status]

\* The cases ReviewCase lets in.
Reviewable(c) == c \in DOMAIN riskCase /\ riskCase[c].status = "pending"

\* Mutant of FirstStep: the case is saved without its entry.
FirstStepSaves(op) == "save"

\* Confirming moves no money.
FirstStep(op) == IF op = "confirm" THEN "save" ELSE "post"

\* Mutant of Wanted: a pending case is restored.
WantedPending(op) == "pending"

\* The status a case of a list must have to be worked on.
Wanted(op) == IF op = "release" THEN "pending" ELSE "released"

-----------------------------------------------------------------------------
\* CreateCase: row, freeze and event in one transaction.  An account service in
\* the process joins it; over HTTP the freeze commits on its own, while the
\* uncommitted row keeps other creations of the case waiting.
OpenCase(x, o) ==
    /\ Free(x)
    /\ o.case \notin DOMAIN riskCase
    /\ \A y \in DOMAIN reviews : reviews[y].op = "create" => reviews[y].current # o.case
    /\ IF o.freeze /\ Transport = "http"
       THEN \E ok \in BOOLEAN :
               /\ LedgerCall(FreezeKey(o), CaseEntry(o, "freeze"), ok)
               /\ reviews' = IF ok
                             THEN Put(reviews, x, [Started("create", "save", o.case, {})
                                                      EXCEPT !.opening = o])
                             ELSE reviews
               /\ UNCHANGED <<riskCase, events>>
       ELSE /\ riskCase' = Put(riskCase, o.case, NewRow(o))
            /\ events' = events \cup {<<"risk.created", o.case>>}
            /\ IF o.freeze THEN CallOk(FreezeKey(o), CaseEntry(o, "freeze"))
                           ELSE UNCHANGED storeVars
            /\ UNCHANGED <<faults, reviews>>

\* The transaction of a creation over HTTP ends.
CommitCase(x) ==
    /\ x \in DOMAIN reviews /\ reviews[x].op = "create"
    /\ \/ /\ riskCase' = Put(riskCase, reviews[x].current, NewRow(reviews[x].opening))
          /\ events' = events \cup {<<"risk.created", reviews[x].current>>}
          /\ UNCHANGED faults
       \/ Fault /\ UNCHANGED <<riskCase, events>>
    /\ Finish(x)
    /\ UNCHANGED storeVars

\* ReviewCase: only a pending case is let in.
BeginReview(x, c, op) ==
    /\ Free(x)
    /\ Reviewable(c)
    /\ Step(x, Started(op, FirstStep(op), c, {}))
    /\ UNCHANGED <<account, journal, faults, riskCase, events>>

\* ReleasePendingCases: list the pending cases of the agent.
BeginRelease(x, a) ==
    /\ Free(x)
    /\ Step(x, Started("release", "next", NoCase,
                       {c \in DOMAIN riskCase : /\ riskCase[c].status = "pending"
                                                /\ riskCase[c].agent = a}))
    /\ UNCHANGED <<account, journal, faults, riskCase, events>>

\* RestorePendingCases, for the cases it is given.
BeginRestore(x, S) ==
    /\ Free(x)
    /\ Step(x, Started("restore", "next", NoCase, S))
    /\ UNCHANGED <<account, journal, faults, riskCase, events>>

\* The next case of the list is read.  Reviewed meanwhile, it is skipped; a case
\* to restore counts as restored when it is pending already.
NextCase(x) ==
    /\ x \in DOMAIN reviews
    /\ LET r == reviews[x]
       IN  /\ r.pc = "next"
           /\ \/ \E c \in r.todo :
                    /\ r.todo \subseteq DOMAIN riskCase
                    /\ IF riskCase[c].status = Wanted(r.op)
                       THEN Step(x, [r EXCEPT !.pc = "post", !.current = c,
                                              !.todo = @ \ {c}])
                       ELSE Step(x, [r EXCEPT !.todo = @ \ {c}])
              \/ r.todo = {} /\ Step(x, [r EXCEPT !.pc = "done"])
    /\ UNCHANGED <<account, journal, faults, riskCase, events>>

\* The ledger entry of a release, or of a restore over HTTP.
PostEntry(x) ==
    /\ x \in DOMAIN reviews /\ reviews[x].pc = "post"
    /\ reviews[x].op = "release" \/ Transport = "http"
    /\ LET r == reviews[x]
           c == r.current
       IN  \E ok \in BOOLEAN :
              /\ IF r.op = "release"
                 THEN LedgerCall(ReleaseOf(c), CaseEntry(riskCase[c], "unfreeze"), ok)
                 ELSE LedgerCall(RestoreOf(c), CaseEntry(riskCase[c], "freeze"), ok)
              /\ IF ok THEN Step(x, [r EXCEPT !.pc = "save"]) ELSE Failed(x)
    /\ UNCHANGED <<riskCase, events>>

\* A case of the list is finished with.
Counted(r) == [r EXCEPT !.pc = "next", !.current = NoCase, !.done = @ \cup {r.current}]

\* The transaction of a restore: save and event, and the freeze too when the
\* account service is in the process.
RestoreCase(x) ==
    /\ x \in DOMAIN reviews /\ reviews[x].op = "restore"
    /\ LET r == reviews[x]
           c == r.current
           entry == CaseEntry(riskCase[c], "freeze")
           restored == /\ SetStatus(c, "pending")
                       /\ events' = events \cup {<<"risk.restore", c>>}
                       /\ Step(x, Counted(r))
                       /\ UNCHANGED faults
           failed == Failed(x) /\ UNCHANGED <<account, journal, riskCase, events>>
       IN  \/ r.pc = "save" /\ restored /\ UNCHANGED storeVars
           \/ r.pc = "save" /\ Fault /\ failed
           \/ r.pc = "post" /\ Transport = "local" /\ CallOk(RestoreOf(c), entry) /\ restored
           \/ r.pc = "post" /\ Transport = "local" /\ ~CanPost(entry) /\ failed
              /\ UNCHANGED faults
           \/ r.pc = "post" /\ Transport = "local" /\ Fault /\ failed

\* ReviewCase saves the case it read before; the event is published after.
SaveReview(x) ==
    /\ x \in DOMAIN reviews /\ reviews[x].pc = "save"
    /\ reviews[x].op \in {"release", "confirm"}
    /\ LET r == reviews[x]
       IN  \/ /\ SetStatus(r.current, IF r.op = "release" THEN "released" ELSE "confirmed")
              /\ Step(x, [r EXCEPT !.pc = "publish"])
              /\ UNCHANGED faults
           \/ Fault /\ Failed(x) /\ UNCHANGED riskCase
    /\ UNCHANGED <<account, journal, events>>

\* The event of a review; a key already there publishes nothing.
PublishReview(x) ==
    /\ x \in DOMAIN reviews /\ reviews[x].pc = "publish"
    /\ LET r == reviews[x]
       IN  \/ /\ events' = events \cup {ReviewEvent(r)}
              /\ Step(x, Counted(r))
              /\ UNCHANGED faults
           \/ Fault /\ Failed(x) /\ UNCHANGED events
    /\ UNCHANGED <<account, journal, riskCase>>

\* The handler answers its request.
Return(x) ==
    /\ x \in DOMAIN reviews /\ reviews[x].pc = "done"
    /\ Finish(x)
    /\ UNCHANGED <<account, journal, faults, riskCase, events>>

\* The process dies; what was committed stays, what was not is gone.
CrashReview(x) ==
    /\ Crashes
    /\ x \in DOMAIN reviews
    /\ Fault
    /\ Finish(x)
    /\ UNCHANGED <<account, journal, riskCase, events>>

\* The steps of a call once it has begun, for whoever made it.
ReviewStep(x) ==
    \/ CommitCase(x)
    \/ NextCase(x)
    \/ PostEntry(x)
    \/ RestoreCase(x)
    \/ SaveReview(x)
    \/ PublishReview(x)

\* Requests on the routes of the service: cases are opened, and reviewed, released
\* or restored where Asked says so.
CaseRequest(x) ==
    \/ \E o \in Openings : OpenCase(x, o)
    \/ \E c \in Cases, op \in Asked \cap {"release", "confirm"} : BeginReview(x, c, op)
    \/ "release-pending" \in Asked /\ \E a \in Agents : BeginRelease(x, a)
    \/ "restore" \in Asked /\ \E S \in SUBSET DOMAIN riskCase : S # {} /\ BeginRestore(x, S)

CaseNext ==
    \E x \in Callers :
        \/ CaseRequest(x)
        \/ ReviewStep(x)
        \/ Return(x)
        \/ CrashReview(x)

CaseSpec == CaseInit /\ [][CaseNext]_riskVars

-----------------------------------------------------------------------------
CaseTypeOK ==
    /\ \A a \in Agents : account[a] \in Account
    /\ DOMAIN journal \subseteq Keys
    /\ DOMAIN riskCase \subseteq Cases
    /\ \A c \in DOMAIN riskCase : riskCase[c] \in CaseRow
    /\ DOMAIN reviews \subseteq Callers
    /\ \A x \in DOMAIN reviews : reviews[x] \in Review

\* What the release and the restore of a case have given back to the agent.
GivenBack(c) == -FrozenBy({ReleaseOf(c), RestoreOf(c)})

\* A case gives its amount back at most once, and freezes again only what it gave
\* back, whatever is retried, crashes, times out or runs at the same time; whether
\* it was opened with a freeze, or its freeze was one of another request, it does not
\* ask.  (risk/service.go:152-214, 600-613)
NeverReleasedTwice ==
    \A c \in DOMAIN riskCase : GivenBack(c) \in {0, riskCase[c].amount}

\* A released case has given its amount back, unless its money was frozen again by
\* a restore: no crash, failure or race makes the status appear without the entry.
\* (risk/service.go:600-620)
ReleasedGaveBack ==
    \A c \in DOMAIN riskCase :
        /\ riskCase[c].status = "released"
        /\ RestoreOf(c) \notin DOMAIN journal
        => GivenBack(c) = riskCase[c].amount

\* As long as no call or transaction failed, a reviewed case is an announced case
\* once its handler is through, whoever else reviews or restores it.
\* (risk/service.go:577-598, 614-633)
ReviewAnnounced ==
    faults = 0 =>
        \A c \in DOMAIN riskCase :
            /\ riskCase[c].status # "pending"
            /\ \A x \in DOMAIN reviews : reviews[x].current # c
            => <<"risk.review", c, IF riskCase[c].status = "released" THEN "release"
                                   ELSE "confirm">> \in events
=============================================================================
