# game-admin: a TLA+ model of the back office of a game platform

The repository is a Go back end (one code base, deployed as one process or as
some fifteen services) and a React admin console for a game platform whose
agents bring players and earn commission. Two things are hard in it. *Money*:
agents have accounts with a balance and a frozen part; recharges, refunds, risk
cases and withdrawals post entries to them, over HTTP and without distributed
transactions. *The console*: a single-page application whose windows share a
stored session, whose scope (tenant and brand) is written by effects, and whose
lists and dialogs race with the answers of the server. This directory models
both, checks them with TLC on small instances and proves much of it with TLAPS.

Back-end paths below are relative to `src/backend/internal`, console paths to
`src/frontend/src`.

## 1. Inventory

| Component | State | Operations | Modelled in |
|---|---|---|---|
| Account ledger (`services/shared/ledger_runtime.go`, `account_runtime.go`, `services/account`, `contract/account`) | tables agent_account, agent_account_ledger | EnsureAgentAccount, CreateLedger | LedgerOps, LedgerStore, AgentLedger, LedgerClient |
| Outbox and workers (`eventbus`, `worker`, `cache/runtime.go`) | domain_event(_delivery), broker queue, Redis lock | Publish, claim, MarkDelivered / Failed / Queued, BeginQueuedDelivery, poll loops | EventDelivery |
| Risk cases (`services/risk`, `contract/risk`) | risk_case | CreateCase, ReviewCase, ReleasePendingCases, RestorePendingCases | RiskCase |
| Withdrawals (`services/withdrawal`) | withdrawal_request | Create, Review, Payout, runCompensations | Withdrawal |
| Synchronous contracts (`syncclient`, `contract`, `http/service_contract_helpers.go`) | none | one HTTP call with a timeout and no retry, or a call in the process | LedgerClient, Withdrawal (Abandon) |
| Recharge callbacks (`services/recharge`) | recharge_order, commission_record | paid and refund callbacks, settlement of commission, reversal | Recharge |
| Recalculation (`services/recalculation`) | recalculation_task | reverse and settle the commission of a period again; generate a bill | Recharge (the first) |
| Console session and access (`auth`, `pages/login`, `layouts/AdminLayout.tsx`, `app/router.tsx`, `config/permission-*.ts`, `lib/api.ts`) | localStorage: token, profile; per window: provider, route, tabs, requests | load, sign in and out, navigate, answers | ConsoleAccess, ConsoleSession |
| Console scope (`platform-scope/PlatformScopeProvider.tsx`) | active and stored tenant and brand, two cached lists | selects, five effects, storage | PlatformScope |
| Config center and operating parameters (`pages/platform-config-center`, `config/operating-params.ts`) | dialog, form, saved configs | create, edit, template, validate, save | OperatingParams, ConfigCenter |
| Console pages (`pages/*`) | query cache, dialogs and forms, calls in flight | list, filter, open, cancel, submit, confirm | ConsolePageTable, ConsolePages |
| Commission rules (`services/rule`, `services/shared/rule_runtime.go`) | commission_rule, rule_snapshot | save, enable, match | no: section 6 |
| Settlement bills, activity rewards (`services/settlement`, `services/activity`) | settlement_bill and details, activity_reward_record | generate, confirm, export; grant | their console pages |
| Agents, invites, bindings, relation tree (`services/agent`) | agent, invite_code, binding, relation closure | create, bind, migrate, loop check | their console pages |
| Rate limiter, gateway, identity, tenants, games, reports, audit, migrations, wording, deployment | - | counting, proxying, single-row record keeping, reading, texts, scripts | no: section 6 |

**How they interact.** Accounts are written from two sides. Risk and withdrawal use
the account contract: with the account module in the same process the call joins
the caller's database transaction, over HTTP it commits on its own in
account-service and the caller learns the outcome, or a timeout. Recharge
callbacks (`services/recharge/callback.go`) and recalculation write
`agent_account` and its ledger themselves, in their own transactions. Settlement
and activity touch no account. A successful payout calls the risk service to release the pending cases of the
agent, and to restore them when the payout fails later. Each service writes its
events to the outbox, normally in the transaction of its own row; the workers
(notification, data platform sync) poll the outbox under a Redis lock and deliver
from the table or through RabbitMQ.

The console calls the services over HTTP with the stored token. A 401 empties
the storage; the pages learn of it at the next load. Every page reads the scope
of PlatformScopeProvider and makes it part of its query keys; the dialog of the
config center writes it as well. Success of a mutation invalidates lists and
closes a dialog; both happen whenever the answer comes.

**What is hard.** Several handlers and services on one account row, which is
read, changed in memory and saved whole; statuses read at the start of a handler
and overwritten at its end; calls that were carried out although they timed out;
compensations that fail or are never reached; idempotency keys that replay a call
whose effect was compensated meanwhile; workers dying between a claim and a mark;
a lock with a TTL; a broker without confirms.
Callbacks that come twice, in the wrong order or next to a recalculation of the
same order. In the console: windows that sign in and out over one storage; a
401 for a token that is no longer the current one; effects that all see the
values of one commit and write each other's inputs; answers that come after the
filter, the scope, the dialog or the session they were asked for has gone.

**What makes each component correct**

* *Ledger*: the account is the sum of its journal; every change has its row; no
  negative balance or frozen part; a key takes effect once.
* *Outbox*: a delivery has one owner at a time; it is tried at most
  `max_attempts` times; it is settled in the end and for good.
* *Risk cases*: a case gives its amount back at most once and takes again only what
  it gave; it is not released without having given it back; a reviewed case is
  announced.
* *Withdrawals*: an agent's money is what was earned less the deductions that
  stand; no status without the entries behind it; no compensation of something
  that did not happen. One would add that the frozen part is what open requests and
  cases explain and that a paid request was deducted: the code keeps neither
  (section 3).
* *Recharge and recalculation*: a refunded order keeps no commission, a
  commission is taken back at most once, and every balance is the sum of its
  records less what was paid out and written off.
* *Session*: a window shows the account its token was issued to and sends that
  token; tabs end with their session; a sign-in lands where the account may be;
  every load ends.
* *Scope*: once its effects have settled it is a scope the account may work in,
  and the storage follows it.
* *Config center*: what is saved under the key of a template is valid for it, and
  a brand is never saved with another tenant than its own.
* *Pages*: a list shows what is selected now and one's own changes, unless they
  overtook its first fetch; nothing is submitted twice; a late success closes no
  guarded dialog or confirmation but its own; what is offered is accepted.

PROJECT.json lists the hazards at their lines, with the properties about each or
the reason why there is none.

## 2. Modules

```
LedgerOps        rows and pure operators: guards and effects of an entry
  LedgerStore    abstract account service: one call is one atomic step
    AgentLedger  the same with transactions, read and write apart    (MCAgentLedger)
      AgentLedgerProofs                            (uses SumFacts)
    LedgerClient calls of LedgerStore whose answer may be lost or wrong
      RiskCase   risk cases as a client of the ledger                (MCRiskCase)
        Withdrawal  requests, as a client of ledger and risk service (MCWithdrawal)
          WithdrawalProofs                         (of RiskCase, too; uses SumFacts)
  Recharge       callbacks and recalculation of commission           (MCRecharge)
    RechargeProofs                                 (uses SumFacts)
SumFacts         lemmas about sums over finite sets
EventDelivery    outbox, broker and workers                          (MCEventDelivery)
  EventDeliveryProofs

ConsoleAccess    permissions, menu, routes (constant operators)
  ConsoleSession windows, sessions, tabs, requests                   (MCConsoleSession)
    ConsoleSessionProofs
  ConsolePageTable  one record per page (constant operators)
    ConsolePages    a list of a page at work                         (MCConsolePages)
      ConsolePagesProofs
PlatformScope    the scope and its effects
OperatingParams  templates and validation (constant operators)
  ConfigCenter   both, with the dialog that writes the scope         (MCConfigCenter)
    ConfigCenterProofs
```

**LedgerOps** translates the body of `CreateAgentAccountLedger`: `Admits` is its
three "insufficient ..." guards, `BalanceEffect` and `FrozenEffect` its switch,
`ApplyEntry` the account row it saves and `JournalRow` the row it inserts. Only
a reverse with a reference type in `BalanceRefTypes` moves the balance
(`shouldApplyReverseBalanceChange`). Note that a freeze is held against the
withdrawable amount, a reverse against the balance only.

**LedgerStore** is what callers may believe: `CallOk` either posts an entry
(account and journal together) or, when the key was used, replays it without
effect; `Refused` changes nothing. As in the code the guards are evaluated before
the unique key, so a replay may be refused.

**AgentLedger** splits the call as the code does: `ReadAccount` (the transaction
reads the row, checks and computes), `CommitEntry` (full-row save, insert,
commit), `ReplayEntry` (duplicate key: the winner's row is returned), `FailCall`.
`Isolation` is "serial" for SQLite's single writer and "snapshot" for MySQL at its
default level, where the row is read without a lock and saved without looking at
its version.

**EventDelivery** has one action per statement of `eventbus/service.go`, per
broker call and per handler run in the two loops of `worker/runtime.go`. `row` is
the delivery table of one consumer, `broker` counts queued messages, `worker` is
what each process holds in memory, `lock` the Redis key. `Mode` is `cfg.MQ.Enabled`.

**LedgerClient** is the account contract seen by another service: `LedgerCall`
succeeds, is refused, fails, or (over HTTP) is carried out although the caller
gets an error. An HTTP call is one step: what the account service does inside is
AgentLedger's subject, and `ImplementsStore` is the bridge between the two.

**RiskCase**: `OpenCase` / `CommitCase` are CreateCase (over HTTP its freeze
commits first), `BeginReview`, `PostEntry`, `SaveReview`, `PublishReview` the
statements of ReviewCase, `BeginRelease`, `BeginRestore`, `NextCase`, `RestoreCase`
the list operations. Each handler keeps in `reviews` what its goroutine remembers.
`Openings` are the creations that may be asked for. The case number is the caller's
choice, and so is the key of the freeze if it names one (`FreezeKey`); whether
that key posts or replays decides whether the case has money. Over HTTP a number
whose row was rolled back can come again with another amount or key. Assumed is only
that the callers' own keys are not those the services make up for releases,
restores and withdrawals.

**Withdrawal**: `Submit` / `InsertRequest` are create, `BeginHandling` reads the
row for review or payout, `UnfreezeAmount`, `DeductAmount`, `CallRelease`,
`TakeReleased`, `SaveRequest` are the steps of a payout (a review uses the first
and the last), `UndoLedger`, `CallRestore`, `TakeRestored` are runCompensations,
which stops at the first failure. `CrashHandler` ends a handler between any two.

**Recharge** has one handler per transaction: `Begin` reads what it will decide
on, and one of `AnswerDuplicate`, `PayOrder`, `MarkRefunded`, `ReverseOrder`
(ProcessCallback with settleRechargeOrder and reverseRechargeOrder),
`Recalculate` (recalculateCommissionRecords for one order) or `Fail` commits or
ends it. `Writable` is the isolation: on SQLite a transaction only writes when
nobody else has since it began. Record numbers and ledger keys are triples of
kind, order and place, and unique as the columns are. A task over several orders is
one transaction that does one after the other; the model takes one order per
transaction. It also numbers a recalculation's reversals by the place of their
original, where the code counts through the task: the ledger key goes by the
original in both, so the same repetitions fail. `RecalculatesOnSnapshot` says of a
behaviour that it recalculates on a database of snapshots, which the properties treat
apart (section 3). `Settlements` holds what
rules and relations may give an order; a settlement takes any of them or
nothing, so that no property rests on the rules.

**ConsoleAccess** has the tables of `permission-meta.ts`, `permission-taxonomy.ts`
and `router.tsx`: which console permission a server code stands for, the menu
items with their permissions and levels, the redirects, `Land` and `Resolve`.

**ConsoleSession**: `storedToken` and `storedUser` are the localStorage; `token`,
`user`, `isReady`, `me`, `path`, `openTabs`, `calls` belong to a window.
`Load`, `MeAnswered`, `MeFailed` are the provider's effect, `SubmitLogin`,
`LoginAccepted`, `LoginRefused` the sign-in page, `SignOut` and `EmptyLogout` the
layout, `FollowLink`, `SwitchTab`, `CloseTab`, `CloseOthers` its tabs, `Request` and
`Answered` the calls of a page through `lib/api.ts`, `Expire` the server
(`services/identity/service.go`): it stops taking the tokens of an account that was
disabled or lost its roles. The code's token is `uid:<id>`, the same at every
sign-in; the model numbers them by sign-in, which tells more sessions apart. After
each of them `Rest` renders the window: guards, redirects and tabs are part of
the step. `foreign` and `refused` are history variables: the two ways the
storage may change under a window.

**PlatformScope**: React runs the effects of a commit on what that commit
rendered, and what they set makes the next commit. `Pass` is one such round of
the five effects; picks, answers (`TenantsAnswered`, `BrandsAnswered`, ...),
`SignIn`, `SignOut`, `Load`, refetches and deletions come between passes.
**OperatingParams** has the six templates with their bounds and `ValidateJson`.
**ConfigCenter** adds the dialog: `HandleCreate`, `HandleEdit`, `UseTemplate`,
`PickTenant`, `PickBrand`, `TypeIn`, `Submit`, and `FormEffect`, the page's effect,
which runs in the same pass as those of the provider (`Effects`).

**ConsolePageTable** describes each page as data: queries with the parts of
the selection in their keys and in their requests, mutations with the lists they
refresh, the dialogs they close, the scope they clear and the section they go to,
controls with their permission and status conditions. Some routes render one
component (`SharedRoutes`, after `router.tsx:152-182`): their pages are `Sections` of
one another and share dialogs, forms and calls. **ConsolePages** runs one list of
one page under one role: `Mount`, `SwitchSection`, `Leave`, `Select`, `Refresh`, `FetchAnswered`,
`FetchFailed` are navigation and the query cache in TanStack Query's terms; `Open`, `Cancel`, `Ask`,
`GiveUp`, `Confirm`, `Submit`, `SubmitForm`, `Press` the controls; `Refused`, `Carried`, `Succeeded`, `Returned`,
`LostAnswer`, `OtherChange` the server and its answers. `SwitchSection` keeps what the component
keeps: the filters go, since they are in the address, except the scope. `Leave`
unmounts the component and its dialogs, but a `Modal.confirm` belongs to no page: it
stays in `confirm`, no longer `here`, and can still be confirmed. In `Succeeded`, deleting a
tenant or brand, or creating a brand, may clear the scope (`clears`), a dialog
about the row that was deleted closes with it (`sameRow`), and a change that comes
while the first fetch of the list is in flight marks that fetch `overtaken`, since
TanStack Query lets it run on. A click and the render that shows its button as
loading are one step: two clicks within that window are not modelled.
`Requirements` and `AcceptedStatuses` are the server's side, from the
routes and handlers of the back end.

**Left out on purpose.** Amounts are integers, a count of cents. The code's are
`float64` over `decimal(18,2)` columns: MySQL rounds what is saved to cents, so one
addition and one comparison per call are exact; SQLite does not round, and there
the last digit may drift (a hazard listed without a property). Left out are
currencies, remarks, operators and payloads; the per-order profit facts;
HTTP headers. One client identity makes one request at a time. Event keys are
modelled as values of a set, since `Publish` ignores a key it has seen.
In the console: columns, statistics, charts and wording; the fields of forms
other than the config center's; focus refetches of page lists other than as
`Refresh`; the retries of a failed query, which only delay its answer.

## 3. Runs

| Run | Instance | Shows |
|---|---|---|
| ledger_serial | 1 agent, 3 keys, 2 clients, amount 1, a moving and a non-moving reference | books sound and reconciled, every change journaled, AgentLedger implements LedgerStore |
| ledger_lost_update | same, snapshot isolation | **violated** Reconciled |
| delivery_mq | 2 deliveries (one refused by its handler), 2 workers, 2 attempts, batch 2, any 2 faults of crash / database / lost message / lock | one owner, attempt budget, settled for good |
| delivery_settles_db | 2 deliveries, 2 workers, batch 1, no faults | everything published is settled |
| risk_http | 2 cases, one asked for with either amount, with or without a freeze, both with the callers' one key; 2 handlers, one fault or crash, all operations | a case gives back at most once, is not released without, reviews announced |
| withdrawal_faults | 1 request of amount 1 or 2, 2 operators on it, 1 case, resubmission, one fault, crash or timeout | status has its entries, undo follows step, money is what was earned less deductions that stand |
| withdrawal_retried_payout | 1 request, 1 operator, one fault, all in one process | **violated** PaidIsDeducted |
| withdrawal_reviewed_twice | 1 request, 2 operators, no fault | **violated** FrozenExplained |
| recharge | 2 orders, 2 agents, 2 handlers, one idempotency key or none, one cent withdrawn from each; SQLite with recalculations or MySQL without | refunded orders keep nothing, nothing is taken back twice, balances explained (on SQLite) |
| console_session | 2 windows, 2 accounts (one that may open no page), 2 sign-ins, 1 page request in flight each | windows show and send their own session, tabs, landing, every load ends |
| console_scope | 2 tenants with a brand each, accounts of platform, tenant and brand, 4 moves, 1 saved config, a number below its minimum and no JSON at all, a padded key | scope and storage valid once settled, saved templates valid, brand with its tenant |
| console_pages | every list of every page, with all sections of its component, under every role that sees it, 2 versions, and 4 clicks with 2 calls in flight or 1 move, 3 clicks and 1 call | lists show the selection and own changes, nothing twice, refusals known, guarded dialogs and confirmations closed by their own |

**Why the bounds suffice.** Conflicts in this code are between two actors on one
row, so two clients, workers or operators on one agent make all of them; a third
repeats one of the two. Three ledger keys allow an entry, its replay and a
concurrent other one. Amount 1 with two entries reaches every guard at its
boundary (0 and exactly enough). Two attempts reach the retry and the dead letter;
the published 20 only makes the way longer. Two deliveries with batch 2 give a
worker something left over when it fails on the first. A delivery has at most
MaxAttempts messages in the broker, since every publish needs a claim and every
claim counts. Cases need two amounts and a key of the callers,
so that a freeze can be the replay of another one; requests need two amounts, so that
a number can come again with another. One or two faults reach each step of each handler, since a fault may
come at any of them; two reach a failure during the compensation of a failure.
Recharge needs two orders so that records of one could be taken for the other's
and an agent's balance is moved by both, and two agents so that a settlement has
a second record; its settlement gives the upper agent more than one withdrawal
leaves it, so that a reversal is clamped. Two handlers are any two of paid,
refund and recalculation on the same or different orders.

A third window of the console repeats the second: to a window, whoever changes
the storage is "another". Two sign-ins make a token of before and one of now,
also for one account; one page request per window suffices, since answers only
compare their token with the stored one. Four moves are the longest story an
effect pass can tell: sign in, pick a tenant, pick a brand, lose one of them. The
menu, the routes and the page table are not scaled down: all 33 items, all pages,
all lists are in the runs. Two calls in flight make the pair of an earlier and
a later submission; four clicks open, submit, open again and submit again. One
move suffices to leave a page, go to another section or change a filter while a
list is fetched or a call or confirmation is open; what happens after returning
starts like a new page.

`MaxFaults`, the sets of keys, requests and cases, `Funds`, `MaxPaidOut`, `MaxSignIns`,
`MaxCalls`, `MaxMoves`, `MaxSaved`, `MaxVersions` and `Budgets` are bounds of the model,
not of the program. `CHECK_DEADLOCK FALSE` stands where a finite set of requests,
keys or moves can be used up and nothing is left to do.

**Fairness** is stated twice. FairSpec of EventDelivery: each worker's next step is
weakly fair, since its ticker wakes it and the loops contain no wait on another
worker; backoff delays end, since time passes; an expired lock disappears, since
Redis drops the key. Nothing is assumed of faults (none has to happen or stop
happening beyond their bound), nor that anything is published. When both workers
want the lock only one gets it, but whichever does polls for the one consumer,
so no strong fairness between workers is needed. Spec of ConsoleSession: a
request to /auth/me is answered or fails, as fetch guarantees once the server or
the network gives up; which of the two is open, and nothing else is fair.
`LoadEnds` is then that a window becomes ready whatever the others do to the
storage meanwhile.

### What the violations say

* **ledger_lost_update** - `ledger_runtime.go:84` reads without a lock and saves
  all columns; `version` is incremented but never compared. On MySQL one of two
  concurrent entries vanishes from the account while both are in the journal.
* **withdrawal_retried_payout** - a compensated payout leaves `withdrawal-complete`
  in the journal. The retry replays it, the request becomes paid, and the
  compensation's income stays with the agent.
* **withdrawal_reviewed_twice** - two operators read one pending request. One rejects
  it and unfreezes; the other, on the row it has read, approves. The request is
  approved with nothing frozen for it. No fault, retry or shortage is needed.

The same modules show more consequences, a change of the constants away:

* `Faults = {"crash"}`, `MaxFaults = 1` and `BatchSize = 2` in delivery_settles_db:
  nothing ever selects `processing` rows again (`locked_at` is written and not read), so what a dead
  worker had claimed is never settled (EventuallySettled).
* `Mode = "mq"`, `Faults = {"lock"}`, `MaxFaults = 1` there: a message consumed before its row is
  marked queued is taken for a duplicate, and the row stays queued for ever.
* Two requests with the funds for one in withdrawal_reviewed_twice: a payout
  unfreezes and then deducts. A request submitted in between freezes the same
  money; the deduction passes, since it only looks at the balance, and more is frozen
  than the account holds. The second request can be approved but not paid; its
  compensating freeze is refused too.
* `Resubmits = TRUE` and `Funds = 2` there, with one operator: a key submitted a second
  time replays the freeze, fails on the unique request and unfreezes, under a key of
  its own, what the first request had frozen (FrozenExplained).
* A case, a second request and operator and the funds for all in
  withdrawal_retried_payout, `MaxFaults = 0`: two payouts of one agent release the same
  case; the refused one is compensated and paid without a deduction when it is
  retried (PaidIsDeducted).

What remains true under all of this is stated by the properties of
withdrawal_faults. DeductionsExplained in particular says that a balance is wrong only
in that a status does not tell what was deducted: whatever is retried, a request is
deducted at most once and gets back at most what it took.

More can be read off the actions. Two operators of a request, or reviewers of a
case, both pass the status check and the later overwrites the earlier (the row is
saved blindly). The restore of a case over HTTP commits its freeze though the
transaction around it fails, since the HTTP client ignores the transaction it is
given, where README.md:155 of the repository has both in one. A case that was
restored once is not unfrozen by its second release, whose key is the first one's;
ReleasedGaveBack therefore excepts restored cases.

Nor does the code say that what a case gives back was frozen for it. A case opened
without a freeze is released with an unfreeze all the same
(`services/risk/service.go:599-608`), which takes other money of the agent out of
its frozen part. So does a case whose freeze was a replay: of a key the caller used
before, or, over HTTP, of the freeze of a creation whose row was rolled back, when the
number comes again with another amount (`service.go:152-214, 518-521`). The properties
of cases are therefore about what a case gives back and takes again, and hold of all of
these, which the run has; about the freeze before they say nothing.

### What the recharge model says

* The number of a settlement's first record is unique, so an order that ever had
  commission can only be taken back by a recalculation, never settled anew: the
  task fails whenever the rules still give something. CommissionTakenBack rests on
  it - a refund looks for *any* reversal and then only marks the order, which
  would leave a second settlement with the agents.
* A recalculation does not clamp: it may drive a balance negative, and a later
  refund's clamp raises it to zero. BalanceExplained finds the difference in the
  ledger row, whose before and after do not differ by its amount; and it says
  (`CarriesAmount`) that only the row of a refund may be such a one, and only when
  it leaves nothing.
* A refund callback that reuses the key of the paid callback is answered as a
  duplicate and does nothing. Orders without a key collide on the empty one, since
  the index is unique. Orders of an agent whose latest freeze is a risk case's are
  settled by a recalculation only.
* On MySQL balances are lost as in ledger_lost_update, so BalanceExplained is claimed
  for SQLite only.
* Recalculation on MySQL breaks CommissionTakenBack, and the run has no such setting: with
  `[isolation |-> "snapshot", recalculates |-> TRUE]` in `MCSettings` TLC finds it violated.
  An order is paid without commission; a refund and a recalculation begin; the
  refund commits, marking the order; the recalculation, which still sees it paid, settles it. In
  the same way a commission can be taken back twice under different numbers (COM-RC
  and COM-R). The theorems exclude these behaviours by name (`RecalculatesOnSnapshot`).

### What the console models say

Behaviour the models have because the code has it, and the properties allow for:

* A 401 to any request of an earlier session, or to a wrong password, drops the
  *stored* token (`lib/api.ts:1000`) while the window still shows its session;
  requests then go out without one. RequestsAsShown excepts windows a 401 has
  reached.
* The token is read from the storage at each request: after another window signs
  in, this one shows the one account and acts as the other.
* A network failure of /auth/me at a reload signs the user out, here and for the
  other windows' next load.
* The 403 page's button only navigates to the sign-in page, and sign-out does not
  clear the query cache (`main.tsx:15`): until refetched, the next account sees the
  lists of the one before, and takes over its requests in flight.
* `firstAccessibleNavPath` looks at permissions and not at levels, so an account
  may land on a page that answers "forbidden".
* The first commit after a sign-in renders, and fetches with, the scope of the
  session before. A stored scope is never restored after a reload: the first pass
  overwrites it.
* In the config center a locked operator can clear the tenant in the form; an
  edit dialog keeps the row it was opened with; the config list is asked for with
  a tenant code looked up in a list that is not in its key (77-84).
* Going to another section of a component keeps its dialog open, and a confirmation
  stays on the screen wherever the user goes; confirmed there, its call runs without
  a button that waits for it.
* A change that succeeds while the first fetch of its list is in flight does not
  replace that fetch (TanStack Query cancels only refetches): its answer may be from
  before the change and stays until the next refresh. ReadYourWrites exempts exactly
  the rows of such an answer.
* A success closes whatever dialog of its page is open (agents 54-60 and alike, all
  but settlement-bills); a generated record navigates away from a page opened
  since (activity-reward-center 173). ClosingHeld is therefore stated for guarded
  dialogs and confirmations.
* `KnownGaps` in ConsolePages lists 31 pairs of a page and a call the server refuses
  although the console offers it: option lists the page does not ask permission
  for, pages whose permission does not cover their list, controls that ask for
  another permission than their handler, and controls offered in any status. One of
  them: `risk:write` opens the risk pages, whose lists the server only gives to
  `risk:read`. `GapsAreAll` (section 4) shows that there are no others.

## 4. Proofs

`AgentLedgerProofs` proves, for any finite or infinite sets of agents, keys and
clients, any amounts and both isolation levels unless stated:

* `TypeCorrect`: `Spec => []TypeOK`.
* `BooksAlwaysSound`: `Spec => []BooksSound`. No interleaving, lost updates
  included, makes balance or frozen part negative or detaches the derived columns.
  Soundness of the account rows is not inductive: a commit writes a row computed
  from a row *read earlier*. The inductive invariant is
  `IInv == TypeOK /\ BooksSound /\ SnapsSound`, where SnapsSound says that the
  rows in-flight calls have read were sound as well. `InitIInv` and `NextIInv`
  prove it, with one step per action; `ApplyKeepsBooks` is the lemma on the operators.
* `ChangesAreJournaled`: `Spec => EveryChangeJournaled`, action by action.
* `SerialImplementsStore`: with `Isolation = "serial"` every step of AgentLedger
  is a step of LedgerStore or leaves its variables alone, and Init implies
  StoreInit. This is what entitles LedgerClient to treat a call as one step.
* `StoreReconciles`: `StoreSpec => []Reconciled`, and `SerialReconciles`: with
  `Isolation = "serial"`, `Spec => []Reconciled`. Balance and frozen part are sums over
  the journal. The inductive invariant `BooksInv` adds that the journal is finite,
  that its rows are validated entries, and that no row is there before its account;
  what one more row does to a sum is SumFacts's part. The serial case follows from the
  refinement step above. The run ledger_lost_update shows that the hypothesis on
  the isolation is needed.

They rest on the two assumptions `StoreAssumption` (the amounts asked for are
positive, which CreateLedger checks, and the reference types are the code's) and
`IsolationAssumption`, and on nothing else.

`SumFacts` says what `SumFunctionOnSet`, a fold over a finite set, computes: a
number (`SumInt`), natural for natural terms (`SumNat`), that of the part
whose terms are not 0 (`SumPart`), the same for functions that agree on the set (`SumSame`), more by its
value when an element is put in (`SumPutIn`), and so on. The library's induction
theorems cannot be cited here, since their parameter is an operator; but its
theorem that a well-founded order has minimal elements takes a set, and the
smallest subset for which a claim fails gives the induction (`MinimalSubset`,
`SubsetInduction`). The recursion behind the fold is unfolded in this module only.

`EventDeliveryProofs` proves the safety of the outbox for any workers,
deliveries, attempt limit, batch size, mode and faults: `TypeCorrect`,
`RowsHaveOneOwner`, `AttemptsAreBudgeted`, `SettledStaysSettled` and
`SettledIsNotHandled`. The argument does not use the Redis lock at all: the
status check of the claim and of BeginQueuedDelivery is enough. AttemptBudget is
not inductive, since Handle only counts a run and says nothing about what paid
for it. The inductive invariant `IInv == TypeOK /\ Busy /\ OneOwner /\
AttemptBudget /\ RunIsOwed` adds `RunIsOwed` (every row a worker may still try,
and every queued row, has one counted attempt more than runs) and `Busy` (a
worker between handler and mark has a row). The steps fall into few kinds, one
lemma each: Claiming, Handling, Marking, Acquiring, Waking, and LettingGo for
everything that only gives rows up; `CurrentOwned` rests on the ids being well
ordered (WFMin of the library). The assumption is `DeliveryAssumption` (ids are
naturals, limits positive).

`RechargeProofs` proves `TakenBackOnce`: `Spec /\ ~RecalculatesOnSnapshot => []CommissionTakenBack`,
for any orders, agents, keys and settlements and any number of handlers at a time.
The hypothesis is needed, as section 3 says: callbacks are covered on both
databases, recalculations next to them on a serialising one. The
property is not inductive: a refund decides on what its transaction *saw*. The
invariant `IInv` says of the tables (`RecordsOK`) that reversals name a marked
original in their own place, that a marked original has exactly one, that an
order's originals are numbered from 1 and marked together, and that a refunded
order has none left; and, where isolation is a snapshot, that what every handler
saw satisfies the same and still stands (`SeenStands`), and that nothing is
recalculated. `WritableStands` unites both databases: a handler that can write
saw something that stands. Two lemmas on tables carry the steps: `SettlingKeeps`
(new originals, only for an order without any) and `TakingBackKeeps` (all
originals reversed by records of one kind). It rests on `RechargeAssumption`:
settlements are sequences with positive amounts that name an agent once, and None
is no record number.

It also proves `TypeCorrect`: `[]RechargeTypeOK` under the same hypothesis, and `BalancesExplained`:
`Spec => []BalanceExplained` without it, the property being about serialising databases
only. Their invariant is `IInv /\ BooksInv`. A transaction credits or
debits several agents in one step, so the proof compares sums of records, of ledger
rows and of balances. What makes them agree is in `Books`: records and ledger rows
are finitely many and typed; a ledger key is in use only with its record
(`JournalFollows`: new records have new ledger rows, nothing is posted twice or
replayed); an order gives an agent one commission (`OneEach`: one row says what a
transaction does to a balance; it comes from the assumption that a settlement names
an agent once). On a serialising database every row carries its amount but for a
refund's write-off (`Carries`). A recalculation is taken in two, what it takes back and
what it gives, which is why these parts speak of any tables.

`WithdrawalProofs` proves of RiskCase and Withdrawal, for any agents, cases,
requests, callers, amounts and faults and both transports:

* of the risk service `CaseTypeCorrect`, `ReleasedOnce` (NeverReleasedTwice), `ReleaseGivesBack`
  (ReleasedGaveBack) and `ReviewsAnnounced` (ReviewAnnounced), for cases opened with
  or without a freeze, under any key and amount;
* of the withdrawals `TypeCorrect`, `StatusAfterMoney` (StatusHasEntries), `UndoAfterStep`
  (UndoFollowsStep), `DeductionsAreExplained` (DeductionsExplained), and `CasesUnderPayouts`: the
  promises about cases still hold when payouts release and restore them behind the
  reviewers' backs.

A handler acts on a row it read earlier, and what a case gave back is a sum over two
ledger keys. The invariant of the cases is `CaseInv == StoreOK /\ TablesOK /\ ReviewsOK /\ StepsInOrder /\
EntriesMatch`: which keys are posted in which order (`StepsInOrder`), that release and
restore are for the money of the row, whatever its freeze was for (`EntriesMatch`), and
what a handler may rely on although others have reviewed its case since (`ReviewsOK`:
at which of its steps which entry is there). `IInv` adds of the withdrawals how far a
handler has come and which entries that says are posted, and that its list of
compensations names only such (`HandlersOK`), and that a compensation in the journal
has its step there (`UndosFollow`). Journal entries never vanish, so interleaving
handlers, crashes and retries cannot take back what a program counter promised:
that is why these hold without a lock on the row. The assumptions are those of the
modules: the keys of the steps exist, callers' own keys are none of those of releases,
restores and requests, amounts are natural numbers.

DeductionsExplained is a sum over all requests of an agent. `DeductInv` adds to it that a
deduction is in the journal only with the row of its request, and that every handler
works on the agent and the amount of that row (`Entitled`; nothing changes these two,
though its status may be overwritten). A step then takes the amount of one request,
gives it back after it was taken, or moves no balance and posts neither key
(`Takes`, `GivesBack`, `Elsewhere`), and SumFacts's `SumPutIn` and its like do the
sums. No hypothesis is needed on faults, retries, operators, cases or funds.
FrozenExplained and PaidIsDeducted are not proved: the runs refute them.

Last, what holds under *any* fault, retry and interleaving: `MoneyMovesByCalls` (a step of
Withdrawal or RiskCase changes accounts and journal by at most one entry with a
new key - a payout never moves money past the journal) and from it `CasesReconcile` and
`PayoutsReconcile`: `Reconciled` of the ledger stays true under both services. A balance that is off is thus always visible in the
journal as an entry too many or too few.

`ConsoleSessionProofs` proves `SessionTypeCorrect`, `ShownIsOwnerCorrect`,
`RequestsCorrect`, `WorkspaceCorrect` and `LandingCorrect`, for any windows, accounts,
grants, addresses, sign-ins and requests. What a window shows depends on what it
has asked: the inductive invariant is `IInv == SessionTypeOK /\ LoadsPending /\
ShownIsOwner /\ SigningOut /\ SentAsShown /\ WorkspaceOfSession`, where LoadsPending
says that a window that is not ready waits for the answer to the token it read,
SigningOut that a window with a sign-in in flight has started up and holds no token, and
SentAsShown that the storage equals the window's token unless a history variable
says otherwise. The routes are facts about the concrete menu (`NavPaths`,
`ResolveFacts`), proved from its definition. Assumption: `SessionConstants`.

`ConfigCenterProofs` proves `ScopeTypeCorrect`, `ScopeCorrect`, `StoredFollowsCorrect`,
`SavedTemplateCorrect` and `FormBrandCorrect`, for any tenants, brands, accounts, keys,
texts and moves, in three layers. Texts: what is saved has passed `Issues`
(`TextsNumeric /\ SavedFit`, lemma `NoIssueFits`). Scope: `ScopeTyped /\ PageOfSession`,
then `ScopeHeld`: what the last pass rendered has the lock applied, a tenant of the
lists and a brand of that tenant, and each cached list is of the tenant it is kept
under - properties of the *rendered* values, which the settled ones equal. Form:
`FormHeld` says which of its parts the effect has filled and from which rendering,
and that the rows it may be filled from have brands of their tenants. Assumptions:
`ScopeConstants` (a locked brand is of the locked tenant, as the server grants) and
`CenterConstants`.

`ConsolePagesProofs` proves `TypeCorrect`, `SelectionShown`, `OwnWritesRead`,
`AppliesOnce`, `ClosesByOwn` and `OnlyGapsRefused` (PagesTypeOK,
ShownBelongsToSelection, ReadYourWrites, AppliedOnce, ClosingHeld, RefusalsKnown), for
every page, section and list of the tables, every user and any number of versions,
clicks, moves and calls in flight. OwnWritesRead exempts what ReadYourWrites exempts, the
answer of a first fetch that the change overtook. There are three parts:

* *The tables.* What the behaviour needs of a page is `Sound`: the key of a query has
  the parts its request sends (`KeysCover`); a call refreshes the lists it changes
  (`RefreshesCover`) and closes its own dialog (`ClosesOwn`); a control is disabled while
  its own call is in flight, and no other call closes a dialog that guards its
  closing (`ControlsRun`). It is proved of the concrete tables, one lemma per
  page, and collected in `PagesSound`; for sections of one component also that they
  run the same mutations and which of them hold a list in a dialog (`Shares`, `Hosts`),
  so that what is open on one is sound on the next. A page whose key forgot a filter, or whose
  mutation forgot a list, would fail its lemma.
* *The behaviour.* `IInv == Typed /\ FollowsKey /\ MustShown /\ CallsOK`. Typed is stronger than
  PagesTypeOK where dialogs and confirmations outlive a section or a page. FollowsKey: an
  entry of the cache was asked for with the arguments its key stands for, which
  makes a late answer of an earlier filter harmless. MustShown: a key that a success
  changed has a fetch sent since, or has failed, or shows what it brought, or its
  fetch or its rows are marked overtaken.
  AppliedOnce is far from inductive: CallsOK keeps the numbers of openings, forms
  and calls apart and says that a call in flight for the open dialog is one its
  button waits for (`AwaitedHere`), that what is open and was applied is still awaited
  or its answer was lost (`AppliedAwaited`), and that a guarded dialog stays open while
  its call is awaited (`GuardedOpen`).
* *What is offered.* `GapsAreAll` holds the tables of the console against the table of
  routes: for every page and *every* set of permission codes that opens it - the run has
  three kinds of roles per page - a list that runs and a control that can be clicked is
  one the server answers, or is in `KnownGaps`. It is proved per page from which code
  grants which permission (`Allowed`) and which call needs which code.
  `OnlyGapsRefused` carries this to the behaviour, where rows change between what was
  shown, the click and the answer. RefusalsKnown speaks of answers and is not
  inductive; `OfferInv` adds that the section on show is one the user may open
  (`RouteOpen`), that a fetch in flight is of a list that runs
  (`FetchedReached`), and that an open dialog, a confirmation and a call in flight are of
  a control that was offered on the row as it was shown, be it on another section
  (`OpenGiven`, `ConfirmGiven`, `CallsGiven`), which stays true as versions are
  appended and the user moves on.

  The attempt to prove GapsAreAll corrected the model: RouteCodes had been the codes
  of the calls the console makes, and so left out `player:write` and `risk:write`,
  which a role may hold, which open pages of the console, and which brought two gaps
  that the run had never met.

Each of the 21 actions touches little of this, so they are first sorted by what they
do to the cache, the log, the refreshed keys and the calls (`CacheSteps`, `LogSteps`,
`MustSteps`, `CallSteps`), and each part of the invariant is kept by those. Assumption:
`PageConstants` (bounds are numbers, None is no request and no answer).

**Only model-checked.** Liveness (EventuallySettled, LoadEnds): fairness and ENABLED
are out of the prover's reach. Everything else the passing runs check is a theorem as
well, CommissionTakenBack and RechargeTypeOK under their hypothesis. The violated
properties FrozenExplained and PaidIsDeducted are refuted and not proved; Reconciled is proved
of serialising databases. No module declares a RECURSIVE operator.

## 5. Plan

Done, in this order: the ledger, its client side, outbox delivery, risk cases,
withdrawals (every money path ends in the ledger, and the others are its most
concurrent users); then the console, whose session, scope and pages hold most of
the repository's own lines; then recharge and recalculation, which earn and take
back what the withdrawals pay.

The proofs followed in the same order, the books last, when SumFacts had made
sums accessible.

What would come next: rule matching as a pure function compared with a definition of "the best
rule"; the relation tree's closure rows against reachability.

## 6. Not modelled

* *Commission rules and relation tree*: their outcome is a free choice in Recharge;
  what they compute is arithmetic and tree rows inside one transaction.
* *Settlement bills*: a bill copies the records of a period and marks none of them,
  so bills of overlapping periods share records whether or not they race; a
  confirmation is an update without a condition. There is no protocol to hold.
* *Activity limits, invite uses, relation loops*: a count is read and used inside
  one transaction. A serialising database holds it, a snapshot does not, and the
  code says nothing more; a model would restate that.
* *Rate limiter*: one counter per subject and window; the window start is part of
  the key, so a lost expiry leaves a key that nobody counts on any more.
* *Gateway, identity, tenants, games, reports, audit, migrations, deployment*:
  proxying, checks and record keeping on single rows, reading, scripts.
* *Console wording* (`i18n`): a table of messages in two languages. *Forms, charts
  and statistics* of the pages: data that no property here tells apart.

## 7. Running

`tlc -config AgentLedger_serial.cfg MCAgentLedger` and so on, one cfg per run of
the table above (PROJECT.json pairs them); the longest, ConsolePages (3.6 million distinct states) and Recharge,
take one to three minutes with two workers. ConsolePages.cfg has a VIEW that names a
page by its key instead of writing out its table in every state; no two states share a view. `tlapm` on each of
`SumFacts.tla`, `AgentLedgerProofs.tla`, `EventDeliveryProofs.tla`, `WithdrawalProofs.tla`,
`RechargeProofs.tla`, `ConsoleSessionProofs.tla`, `ConfigCenterProofs.tla` and
`ConsolePagesProofs.tla` for the proofs; RechargeProofs takes two to three minutes.
