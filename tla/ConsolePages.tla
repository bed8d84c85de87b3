---------------------------- MODULE ConsolePages ----------------------------
(***************************************************************************)
(* A page of the console at work: the query cache of one list it shows, in *)
(* TanStack Query's terms, its dialogs, forms and buttons, the calls they  *)
(* have in flight, the user coming and going, and a server whose rows      *)
(* change under it.  Sections that share a component keep its state when   *)
(* the user goes from one to another, and a confirmation, which belongs to *)
(* no page, stays on the screen wherever the user goes.                    *)
(*                                                                         *)
(* The lists of a page do not touch one another, so a behaviour watches    *)
(* one list of one page, under one role; the list's history on the server  *)
(* is the log of the statuses of one of its rows.                          *)
(***************************************************************************)
EXTENDS ConsolePageTable, FiniteSets

CONSTANTS None,
          MaxVersions, \* bound: versions of the list
          Budgets      \* bounds: sets of [moves, clicks, pending], one of which a behaviour keeps to:
                       \* selections and sections changed and departures; pages and dialogs
                       \* opened and calls started; calls in flight

ASSUME PageConstants ==
  /\ MaxVersions \in Nat \ {0}
  /\ Budgets \subseteq [moves : Nat, clicks : Nat, pending : Nat]
  /\ {page.key : page \in Pages} = NavKeys /\ None \notin Pages
  /\ None \notin [control : UNION {page.controls : page \in Pages}, gen : Nat, at : Nat,
                  here : BOOLEAN]
  /\ \A page \in Pages : \A query \in page.queries :
       /\ None \notin [args : [query.args -> 0..1], sent : Nat, overtaken : BOOLEAN]
       /\ None \notin [args : [query.args -> 0..1], seen : Nat, overtaken : BOOLEAN]

-----------------------------------------------------------------------------
\* The server's side: the code a route requires, the statuses a handler
\* accepts, and the lists a call changes.

Requirements ==
  { <<"agent:read", {"listAgents", "listAgentInviteApplications"}>>,
    <<"agent:write", {"createAgent", "updateAgentStatus", "createAgentInviteApplication",
                      "auditAgentInviteApplication"}>>,
    <<"tenant:read", {"listTenants"}>>,
    <<"tenant:write", {"createTenant", "updateTenantStatus", "deleteTenant"}>>,
    <<"brand:read", {"listBrands"}>>,
    <<"brand:write", {"createBrand", "updateBrandStatus", "deleteBrand"}>>,
    <<"platform_config:read", {"listPlatformConfigs"}>>,
    <<"platform_config:write", {"createPlatformConfig", "updatePlatformConfig"}>>,
    <<"invite_code:manage", {"listInviteCodes", "createInviteCode"}>>,
    <<"player:read", {"listPlayers"}>>,
    <<"binding:manage", {"listBindings", "createBinding", "listBindingHistory"}>>,
    <<"game:read", {"listGames"}>>,
    <<"game:write", {"createGame", "updateGame", "deleteGame", "listGameIntegrationKeys",
                     "rotateGameIntegrationKey"}>>,
    <<"game:publish", {"updateGameStatus"}>>,
    <<"agent_game_access:read", {"listAgentGameAccess"}>>,
    <<"agent_game_access:write", {"upsertAgentGameAccess", "deleteAgentGameAccess"}>>,
    <<"rule:read", {"listRules"}>>, <<"rule:write", {"createRule"}>>,
    <<"rule:publish", {"publishRule"}>>,
    <<"activity_reward:read", {"listActivityRewardRules", "listActivityRewardRecords"}>>,
    <<"activity_reward:write", {"createActivityRewardRule", "generateActivityRewardRecord"}>>,
    <<"activity_reward:publish", {"updateActivityRewardRuleStatus", "reverseActivityRewardRecord"}>>,
    <<"settlement:read", {"listOrders", "listCommissions", "listLedger"}>>,
    <<"settlement:execute", {"updateOrderProfitFacts"}>>,
    <<"settlement_bill:read", {"listSettlementBills"}>>,
    <<"settlement_bill:confirm", {"confirmSettlementBill"}>>,
    <<"settlement_bill:export", {"exportSettlementBill"}>>,
    <<"recalculation_task:read", {"listRecalculationTasks"}>>,
    <<"recalculation_task:create", {"createRecalculationTask"}>>,
    <<"withdrawal:read", {"listWithdrawalRequests"}>>,
    <<"withdrawal:execute", WithdrawalActs>>,
    <<"audit:read", {"listAuditLogs"}>>,
    <<"risk:read", {"listRiskCases", "listRiskIntelligence", "reviewRiskCase"}>>,
    <<"report:read", {"listAgentPerformanceReport", "listTeamPerformanceReport",
                      "listGameSettlementReport", "listSettlementProgressReport",
                      "listDataPlatformLayers", "listDataPlatformMetrics"}>>,
    <<"rbac:permissions:view", {"listRbacPermissions"}>>,
    <<"rbac:roles:view", {"listRbacRoles"}>>, <<"rbac:users:view", {"listRbacUsers"}>>,
    <<"rbac:roles:write", SavesRole \cup {"deleteRbacRole"}>>,
    <<"rbac:users:write", SavesUser \cup {"deleteRbacUser"}>> }

\* What a role may hold: these codes, two of routes the console does not call, and the
\* one that only opens the dashboard.
RouteCodes == {r[1] : r \in Requirements} \cup {"player:write", "risk:write", "dashboard:view"}

MayCall(granted, call) ==
  LET calls == IF call = "dashboard" THEN DashboardCalls ELSE {call}
  IN  \A r \in Requirements : r[2] \cap calls # {} => r[1] \in granted

\* Other handlers take a row in any status.
AcceptedStatuses ==
  [publishRule |-> {"draft"}, generateActivityRewardRecord |-> {"active"},
   reverseActivityRewardRecord |-> {"granted"}, confirmSettlementBill |-> {"generated"},
   exportSettlementBill |-> {"generated", "confirmed"}, reviewRiskCase |-> {"pending"},
   auditWithdrawalRequest |-> {"pending"}, processWithdrawalPayout |-> {"approved"},
   auditAgentInviteApplication |-> {"pending"}, rotateGameIntegrationKey |-> {"active"}]

Accepts(call, status) ==
  status # "gone" /\ (call \in DOMAIN AcceptedStatuses => status \in AcceptedStatuses[call])

\* The lists a call changes.  An export only stamps its bill with a date that
\* no list shows.
Changes ==
  { <<"agents", {"createAgent", "updateAgentStatus"}>>, <<"invite-codes", {"createInviteCode"}>>,
    <<"bindings", {"createBinding"}>>,
    <<"agent-invite-applications", {"createAgentInviteApplication", "auditAgentInviteApplication"}>>,
    <<"tenants", {"createTenant", "updateTenantStatus", "deleteTenant", "createBrand", "deleteBrand"}>>,
    <<"brands", {"createBrand", "updateBrandStatus", "deleteBrand"}>>,
    <<"platform-configs", {"createPlatformConfig", "updatePlatformConfig"}>>,
    <<"games", {"createGame", "updateGame", "updateGameStatus", "deleteGame"}>>,
    <<"game-integration-keys", {"rotateGameIntegrationKey"}>>,
    <<"agent-game-access", {"upsertAgentGameAccess", "deleteAgentGameAccess"}>>,
    <<"rules", {"createRule", "publishRule"}>>,
    <<"activity-reward-rules", {"createActivityRewardRule", "updateActivityRewardRuleStatus"}>>,
    <<"activity-reward-records", {"generateActivityRewardRecord", "reverseActivityRewardRecord"}>>,
    <<"orders", {"updateOrderProfitFacts"}>>, <<"settlement-bills", {"confirmSettlementBill"}>>,
    <<"recalculation-tasks", {"createRecalculationTask"}>>,
    <<"withdrawal-requests", WithdrawalActs>>, <<"risk-cases", {"reviewRiskCase"}>>,
    <<"rbac-roles", SavesRole \cup {"deleteRbacRole"}>>,
    <<"rbac-users", SavesUser \cup {"deleteRbacUser"}>> }

ChangesList(call, root) == \E change \in Changes : change[1] = root /\ call \in change[2]

Deletes == {"deleteTenant", "deleteBrand", "deleteGame", "deleteAgentGameAccess", "deleteRbacRole",
            "deleteRbacUser"}

-----------------------------------------------------------------------------
VARIABLES
  page, list,  \* the page, and the query watched
  user,        \* of what the page asks and calls: [permissions, calls]
  budget,
  route,       \* the section on show, of those that share the page's component, or None
  selection,   \* a value for each part the list or its page depends on
  moves,
  log,         \* the statuses of the row, a version each; "gone" when deleted
  cache,       \* [data, fetch, failed] of the keys seen
  must,        \* the version a key has to show: that of the user's own change
  dialog,      \* None or [control, gen, at]
  confirm,     \* the confirmation over it: None or [control, gen, at, here]
  form,        \* the generation of the inline form
  clicks,
  pending,     \* calls [id, act, gen, at, here, phase, version]
  applied,     \* calls the server carried out: [gen, id]
  lost,        \* generations with an answer lost
  refusals     \* calls refused for a permission, or for the status on show

role == <<page, list, user, budget>>
vars == <<role, route, selection, moves, log, cache, must, dialog, confirm, form, clicks, pending,
          applied, lost, refusals>>

\* The permission a section's route requires.
Opening(section) == (CHOOSE item \in NavSet : item.key = section.key).permission

\* A code that opens the page, alone or with those of all its controls; all.
RolesOf(p) ==
  LET opening == {code \in RouteCodes : Opening(p) \in FrontendPermissions(code)}
      acting == {code \in RouteCodes :
                   \E control \in p.controls : control.asks \in FrontendPermissions(code)}
  IN  {{code} : code \in opening} \cup {{code} \cup acting : code \in opening} \cup {RouteCodes}

\* What a role comes to on a page and the sections it shares a component with.
UserOf(p, codes) ==
  LET asked == {control.asks : control \in ControlsOf(p)} \cup {query.asks : query \in QueriesOf(p)}
                 \cup {Opening(section) : section \in Sections(p)}
      calls == {control.act : control \in ControlsOf(p)} \cup {query.call : query \in QueriesOf(p)}
  IN  [permissions |-> asked \cap (NormalizePermissions(codes) \cup {Anyone}),
       calls |-> {call \in calls : MayCall(codes, call)}]

Controls == ControlsOf(page)
Admitted(section) == Opening(section) \in user.permissions

\* The statuses that a control on the row, or its handler, tells apart.
Statuses ==
  LET onRow == {control \in Controls : control.row = list.root}
      acts == {control.act : control \in onRow}
  IN  {"other", "gone"} \cup UNION {control.from : control \in onRow}
        \cup UNION {AcceptedStatuses[call] : call \in acts \cap DOMAIN AcceptedStatuses}

Status(version) == log[version]
Latest == Len(log)
Parts(query) == query.keyed \cup query.args \cup Scope
Key(s) == [part \in list.keyed |-> s[part]]
Args(s) == [part \in list.args |-> s[part]]
MutationOf(act) == CHOOSE mutation \in page.mutations : mutation.call = act

\* Is the list observed, on section r with d as the open dialog?
Observed(r, d) ==
  /\ r # None /\ list.asks \in user.permissions
  /\ IF list.inside = "page" THEN list \in r.queries ELSE d # None /\ d.control.act = list.inside

Fresh == [data |-> None, fetch |-> None, failed |-> FALSE]
EntryOf(c, k) == IF k \in DOMAIN c THEN c[k] ELSE Fresh
Entry(k) == EntryOf(cache, k)
Shown == Entry(Key(selection))
ShownVersion == IF Shown.data = None THEN 0 ELSE Shown.data.seen

Put(f, k, value) == [j \in DOMAIN f \cup {k} |-> IF j = k THEN value ELSE f[j]]
With(k, entry) == Put(cache, k, entry)
Fetch(s) == [args |-> Args(s), sent |-> Latest, overtaken |-> FALSE]
Fetching(entry, s) == [entry EXCEPT !.fetch = Fetch(s)]

\* A mount, a new key and a focus fetch, unless a fetch is in flight.
Observe(c, s) ==
  LET k == Key(s)
      entry == EntryOf(c, k)
  IN  IF entry.fetch = None THEN Put(c, k, Fetching(entry, s)) ELSE c

\* The list comes into view, or changes its key.
Appears(r, d, s) == Observed(r, d) /\ (~Observed(route, dialog) \/ Key(s) # Key(selection))
Showing(c, r, d, s) == IF Appears(r, d, s) THEN Observe(c, s) ELSE c

\* An invalidation and a refetch replace the fetch in flight, but only one
\* that refreshes data: a first fetch stays, overtaken by the change.
Settles == Shown.data # None \/ Shown.fetch = None
Overtaken == [Shown EXCEPT !.fetch.overtaken = TRUE]

\* The selection with only these parts kept: filters are back at their
\* defaults, the scope is cleared.
Kept(parts) == [part \in DOMAIN selection |-> IF part \in parts THEN selection[part] ELSE 0]

-----------------------------------------------------------------------------
Init ==
  /\ page \in Pages /\ list \in page.queries
  /\ user \in {UserOf(page, codes) : codes \in RolesOf(page)}
  /\ budget \in Budgets
  /\ route = None
  /\ selection = [part \in Parts(list) |-> IF part \in Scope THEN 1 ELSE 0]
  /\ moves = 0
  /\ log \in {<<status>> : status \in Statuses \ {"gone"}}
  /\ cache = <<>> /\ must = <<>>
  /\ dialog = None /\ confirm = None /\ form = 0 /\ clicks = 0
  /\ pending = {} /\ applied = {} /\ lost = {} /\ refusals = {}

\* The component is rendered; its filters are at their defaults.
Mount(section) ==
  /\ route = None /\ Admitted(section) /\ clicks < budget.clicks
  /\ route' = section
  /\ selection' = Kept(Scope)
  /\ form' = clicks + 1 /\ clicks' = clicks + 1
  /\ cache' = Showing(cache, section, None, selection')
  /\ UNCHANGED <<role, moves, log, must, dialog, confirm, pending, applied, lost, refusals>>

\* Another section of the component: its dialog, form and calls are kept.
SwitchSection(section) ==
  /\ route # None /\ section # route /\ Admitted(section) /\ moves < budget.moves
  /\ moves' = moves + 1
  /\ route' = section
  /\ selection' = Kept(Scope \cup FormParts)
  /\ cache' = Showing(cache, section, dialog, selection')
  /\ UNCHANGED <<role, log, must, dialog, confirm, form, clicks, pending, applied, lost, refusals>>

Elsewhere == IF confirm = None THEN None ELSE [confirm EXCEPT !.here = FALSE]

\* Mutant: the calls still count for the controls of the page.
LeaveLoading ==
  /\ route # None /\ moves < budget.moves
  /\ moves' = moves + 1
  /\ route' = None /\ dialog' = None /\ confirm' = Elsewhere
  /\ UNCHANGED <<role, selection, log, cache, must, form, clicks, pending, applied, lost, refusals>>

\* The user goes to another component; calls and answers go on, and a
\* confirmation stays on the screen.
Leave ==
  /\ route # None /\ moves < budget.moves
  /\ moves' = moves + 1
  /\ route' = None /\ dialog' = None /\ confirm' = Elsewhere
  /\ pending' = {[call EXCEPT !.here = FALSE] : call \in pending}
  /\ UNCHANGED <<role, selection, log, cache, must, form, clicks, applied, lost, refusals>>

\* A filter or the scope of the header, or a field of the open dialog.
Select(part) ==
  /\ route # None /\ confirm = None /\ moves < budget.moves
  /\ part \in route.filters \cup Scope \cup FormParts /\ (part \in FormParts <=> dialog # None)
  /\ moves' = moves + 1
  /\ selection' = [selection EXCEPT ![part] = 1 - @]
  /\ cache' = Showing(cache, route, dialog, selection')
  /\ UNCHANGED <<role, route, log, must, dialog, confirm, form, clicks, pending, applied, lost,
                 refusals>>

\* The refresh button, which waits for the fetch in flight, or the focus.
Refresh ==
  /\ Observed(route, dialog) /\ Shown.fetch = None
  /\ cache' = Observe(cache, selection)
  /\ UNCHANGED <<role, route, selection, moves, log, must, dialog, confirm, form, clicks, pending,
                 applied, lost, refusals>>

FetchAnswered(k) ==
  LET fetch == cache[k].fetch
  IN  /\ fetch # None /\ list.call \in user.calls
      /\ \E seen \in fetch.sent..Latest :
           cache' = With(k, [data |-> [args |-> fetch.args, seen |-> seen,
                                       overtaken |-> fetch.overtaken],
                             fetch |-> None, failed |-> FALSE])
      /\ UNCHANGED <<role, route, selection, moves, log, must, dialog, confirm, form, clicks,
                     pending, applied, lost, refusals>>

\* Refused, or lost after its retries: the data there was stays.
FetchFailed(k) ==
  /\ cache[k].fetch # None
  /\ cache' = With(k, [cache[k] EXCEPT !.fetch = None, !.failed = TRUE])
  /\ refusals' = IF list.call \in user.calls THEN refusals ELSE refusals \cup {list.call}
  /\ UNCHANGED <<role, route, selection, moves, log, must, dialog, confirm, form, clicks, pending,
                 applied, lost>>

-----------------------------------------------------------------------------
\* Controls.

Blocked(control) == \E call \in pending : call.here /\ call.act \in control.blockedBy

\* Of the controls, those that meet the watched list.
Watched(control) ==
  IF list.inside = "page" THEN control.row \in {"none", list.root}
  ELSE list.inside \in {control.act, control.inside}

\* Rows are there when their list is.
Rendered(root) ==
  \A query \in route.queries : query.root = root =>
    query.asks \in user.permissions /\ query.call \in user.calls

\* A control on a row of the watched list works on it as the list shows it.
\* A confirmation covers everything else.
Offered(control) ==
  /\ route # None /\ confirm = None
  /\ control \in route.controls /\ Watched(control) /\ control.asks \in user.permissions
  /\ control.inside = IF dialog = None THEN "page" ELSE dialog.control.act
  /\ Rendered(control.row)
  /\ control.row = list.root =>
       /\ Observed(route, dialog) /\ ShownVersion # 0
       /\ Status(ShownVersion) # "gone"
       /\ control.from = {} \/ Status(ShownVersion) \in control.from

RowOf(control) == IF control.row = list.root THEN ShownVersion ELSE 0

Open(control) ==
  /\ control.shape \in {"dialog", "guarded", "viewer"} /\ Offered(control)
  /\ clicks < budget.clicks
  /\ dialog' = [control |-> control, gen |-> clicks + 1, at |-> RowOf(control)]
  /\ clicks' = clicks + 1
  /\ cache' = Showing(cache, route, dialog', selection)
  /\ UNCHANGED <<role, route, selection, moves, log, must, confirm, form, pending, applied, lost,
                 refusals>>

\* The button that asks for a confirmation has the loading state itself.
Ask(control) ==
  /\ control.shape = "confirm" /\ Offered(control) /\ ~Blocked(control)
  /\ clicks < budget.clicks
  /\ confirm' = [control |-> control, gen |-> clicks + 1, at |-> RowOf(control), here |-> TRUE]
  /\ clicks' = clicks + 1
  /\ UNCHANGED <<role, route, selection, moves, log, cache, must, dialog, form, pending, applied,
                 lost, refusals>>

\* Mutant: closing does not wait for the call.
CancelAlways ==
  /\ dialog # None /\ confirm = None
  /\ dialog' = None
  /\ UNCHANGED <<role, route, selection, moves, log, cache, must, confirm, form, clicks, pending,
                 applied, lost, refusals>>

Cancel ==
  /\ dialog # None /\ confirm = None
  /\ dialog.control.shape = "guarded" => ~Blocked(dialog.control)
  /\ dialog' = None
  /\ UNCHANGED <<role, route, selection, moves, log, cache, must, confirm, form, clicks, pending,
                 applied, lost, refusals>>

\* A confirmation can be given up at any time.
GiveUp ==
  /\ confirm # None
  /\ confirm' = None
  /\ UNCHANGED <<role, route, selection, moves, log, cache, must, dialog, form, clicks, pending,
                 applied, lost, refusals>>

Start(control, gen, at, here) ==
  /\ clicks < budget.clicks /\ Cardinality(pending) < budget.pending
  /\ control.scoped => \A part \in Scope : selection[part] = 1
  /\ clicks' = clicks + 1
  /\ pending' = pending \cup {[id |-> clicks + 1, act |-> control.act, gen |-> gen, at |-> at,
                               here |-> here, phase |-> "sent", version |-> 0]}
  /\ UNCHANGED <<role, route, selection, moves, log, cache, must, dialog, confirm, form, applied,
                 lost, refusals>>

Submit ==
  /\ dialog # None /\ confirm = None
  /\ dialog.control.shape # "viewer" /\ ~Blocked(dialog.control)
  /\ Start(dialog.control, dialog.gen, dialog.at, TRUE)

\* The button of a confirmation waits only for the call it started itself.
Confirm ==
  /\ confirm # None
  /\ \A call \in pending : call.gen # confirm.gen
  /\ Start(confirm.control, confirm.gen, confirm.at, confirm.here)

SubmitForm(control) ==
  /\ control.shape = "form" /\ Offered(control) /\ ~Blocked(control)
  /\ Start(control, form, 0, TRUE)

Press(control) ==
  /\ control.shape = "button" /\ Offered(control) /\ ~Blocked(control)
  /\ Start(control, clicks + 1, RowOf(control), TRUE)

-----------------------------------------------------------------------------
\* Calls.

Becomes(call, next) == pending' = (pending \ {call}) \cup {next}

Refuse(call) ==
  /\ call.phase = "sent"
  /\ Becomes(call, [call EXCEPT !.phase = "refused"])
  /\ UNCHANGED <<role, route, selection, moves, log, cache, must, dialog, confirm, form, clicks,
                 applied, lost>>

\* For the permission, for the status of the row (the console knew when the row has not changed since
\* it was shown), or for what the form holds.
Refused(call) ==
  /\ Refuse(call)
  /\ refusals' = IF \/ call.act \notin user.calls
                    \/ call.at = Latest /\ ~Accepts(call.act, Status(Latest))
                 THEN refusals \cup {call.act} ELSE refusals

\* A row changes to a status of its own, or is deleted; a creation leaves the
\* watched row as it is.
Carried(call) ==
  /\ call.phase = "sent" /\ call.act \in user.calls
  /\ call.at # 0 => Accepts(call.act, Status(Latest))
  /\ applied' = applied \cup {[gen |-> call.gen, id |-> call.id]}
  /\ IF ~ChangesList(call.act, list.root) THEN log' = log
     ELSE /\ Latest < MaxVersions
          /\ \E status \in IF call.at = 0 THEN {Status(Latest)}
                           ELSE IF call.act \in Deletes THEN {"gone"} ELSE Statuses \ {"gone"} :
               log' = Append(log, status)
  /\ Becomes(call, [call EXCEPT !.phase = "applied", !.version = Len(log')])
  /\ UNCHANGED <<role, route, selection, moves, cache, must, dialog, confirm, form, clicks, lost,
                 refusals>>

\* The dialog after the success of the call: one about the same row may be
\* open.  What the setters of a component that is gone do shows nowhere.
Lowered(call) ==
  LET mutation == MutationOf(call.act)
  IN  IF dialog = None \/ ~call.here THEN {dialog}
      ELSE IF dialog.control.act \in mutation.closes THEN {None}
      ELSE IF dialog.control.act \in mutation.sameRow THEN {None, dialog} ELSE {dialog}

OfForm(call) == \E control \in Controls : control.act = call.act /\ control.shape = "form"

\* Does the success tell the page that the list it shows has changed?
Owes(call) == call.here /\ Observed(route, dialog) /\ ChangesList(call.act, list.root)

Refreshes(call) ==
  LET mutation == MutationOf(call.act)
  IN  list.root \in mutation.refreshes /\ (call.here \/ ~mutation.refetches)

Updated(call) ==
  IF Owes(call) /\ ~Settles THEN With(Key(selection), Overtaken)
  ELSE IF Refreshes(call) /\ Observed(route, dialog) /\ Settles
    THEN With(Key(selection), Fetching(Shown, selection))
  ELSE cache

\* A mutation that goes to a section shows it wherever the user is.
Target(mutation) == IF mutation.goes = Stays THEN route
                    ELSE CHOOSE section \in Pages : section.key = mutation.goes

Succeeded(call) ==
  LET mutation == MutationOf(call.act)
      kept == IF mutation.goes = Stays THEN Parts(list) ELSE Scope \cup FormParts
  IN  /\ call.phase = "applied"
      /\ route' = Target(mutation)
      /\ dialog' \in Lowered(call)
      /\ confirm' = IF confirm # None /\ confirm.gen = call.gen THEN None ELSE confirm
      /\ \E parts \in mutation.clears : selection' = Kept(kept \ parts)
      /\ form' = IF OfForm(call) /\ call.here THEN call.id ELSE form
      /\ cache' = Showing(Updated(call), route', dialog', selection')
      /\ must' = IF Owes(call) THEN Put(must, Key(selection), call.version) ELSE must
      /\ pending' = pending \ {call}
      /\ UNCHANGED <<role, moves, log, clicks, applied, lost, refusals>>

\* The refusal reaches the page: its dialog stays.
Returned(call) ==
  /\ call.phase = "refused"
  /\ pending' = pending \ {call}
  /\ UNCHANGED <<role, route, selection, moves, log, cache, must, dialog, confirm, form, clicks,
                 applied, lost, refusals>>

\* The request or its answer is lost: an error like any other.
LostAnswer(call) ==
  /\ pending' = pending \ {call}
  /\ lost' = lost \cup {call.gen}
  /\ UNCHANGED <<role, route, selection, moves, log, cache, must, dialog, confirm, form, clicks,
                 applied, refusals>>

\* Somebody else changes the row or the list.
OtherChange ==
  /\ Latest < MaxVersions
  /\ \E status \in IF Status(Latest) = "gone" THEN {"gone"} ELSE Statuses : log' = Append(log, status)
  /\ UNCHANGED <<role, route, selection, moves, cache, must, dialog, confirm, form, clicks, pending,
                 applied, lost, refusals>>

Next ==
  \/ Leave \/ Refresh \/ Cancel \/ GiveUp \/ Submit \/ Confirm \/ OtherChange
  \/ \E section \in Sections(page) : Mount(section) \/ SwitchSection(section)
  \/ \E part \in Parts(list) : Select(part)
  \/ \E k \in DOMAIN cache : FetchAnswered(k) \/ FetchFailed(k)
  \/ \E control \in Controls : Open(control) \/ Ask(control) \/ SubmitForm(control) \/ Press(control)
  \/ \E call \in pending : \/ Refused(call) \/ Carried(call) \/ Succeeded(call) \/ Returned(call)
                           \/ LostAnswer(call)

Spec == Init /\ [][Next]_vars

-----------------------------------------------------------------------------
\* Properties.

\* Every part of the state has its type (useQuery, useMutation and the state
\* of a page).
PagesTypeOK ==
  /\ list \in page.queries /\ route \in Sections(page) \cup {None}
  /\ moves \in 0..budget.moves /\ clicks \in 0..budget.clicks /\ form \in 0..budget.clicks
  /\ selection \in [Parts(list) -> 0..1]
  /\ Len(log) \in 1..MaxVersions /\ {log[version] : version \in DOMAIN log} \subseteq Statuses
  /\ \A k \in DOMAIN cache :
       /\ cache[k].failed \in BOOLEAN
       /\ cache[k].fetch # None => cache[k].fetch.sent \in 1..Latest
       /\ cache[k].data # None => cache[k].data.seen \in 1..Latest
  /\ \A k \in DOMAIN must : must[k] \in 1..Latest
  /\ dialog # None =>
       /\ route # None /\ dialog.control \in Controls /\ dialog.control.shape # "confirm"
       /\ dialog.gen \in 1..clicks
  /\ confirm # None =>
       /\ confirm.control \in Controls /\ confirm.control.shape = "confirm"
       /\ confirm.gen \in 1..clicks /\ confirm.here \in BOOLEAN /\ (confirm.here => route # None)
  /\ \A call \in pending :
       /\ call.id \in 1..clicks /\ call.gen \in 1..clicks
       /\ call.here \in BOOLEAN /\ (call.here => route # None)
       /\ call.at \in 0..Latest /\ call.phase \in {"sent", "applied", "refused"}
       /\ call.version \in 0..Latest
  /\ \A call \in applied : call.gen \in 1..clicks /\ call.id \in 1..clicks
  /\ lost \subseteq 1..clicks

\* What a list shows was asked for with the filters and the scope selected
\* now, however these changed while it was being fetched (the query keys).
ShownBelongsToSelection ==
  Observed(route, dialog) /\ Shown.data # None => Shown.data.args = Args(selection)

\* After a change of the user's own has succeeded, the list it was made on
\* shows it as soon as nothing is in flight and nothing failed, also when rows
\* from before the change were there or were being refreshed (the refreshes of
\* onSuccess).  One case is left out: a change that succeeds while the first
\* fetch of the list is still in flight, which TanStack Query does not replace,
\* so that its answer may be from before the change.  The rows of that answer,
\* and no others, are exempt.
ReadYourWrites ==
  Observed(route, dialog) /\ Key(selection) \in DOMAIN must /\ Shown.fetch = None /\ ~Shown.failed
    => \/ ShownVersion >= must[Key(selection)]
       \/ Shown.data # None /\ Shown.data.overtaken

\* What a dialog or a form was opened for is done at most once, however often
\* and quickly it is submitted, cancelled and opened again: unless an answer
\* was lost and the user tried again (confirmLoading, loading).
AppliedOnce ==
  \A a, b \in applied : a.gen = b.gen => a.id = b.id \/ a.gen \in lost

\* The gaps: an option list whose permission the page does not ask for; a
\* page opened by a permission that does not cover its list; a control that
\* asks for another permission than its handler, or for none; a control
\* offered on rows in any status.
OptionGaps ==
  {<<path, "listAgents">> :
     path \in {"/agent-game-access", "/agent-invite-applications", "/invite-codes", "/rules",
               "/recalculation-tasks", "/withdrawal-requests/list", "/withdrawal-requests/process",
               "/activity-reward-center/rules", "/reports/agent", "/reports/team", "/risk/cases",
               "/rbac/users"}}
    \cup {<<path, "listGames">> : path \in {"/agent-game-access", "/rules"}}

ListGaps ==
  { <<"/", "dashboard">>, <<"/bindings", "listPlayers">>, <<"/ledger", "listLedger">>,
    <<"/agent-invite-applications", "listAgentInviteApplications">>,
    <<"/risk/cases", "listRiskCases">>, <<"/risk/intelligence", "listRiskIntelligence">>,
    <<"/withdrawal-requests/process", "listWithdrawalRequests">>,
    <<"/rbac/users", "listRbacRoles">>, <<"/rbac/users", "listRbacPermissions">>,
    <<"/rbac/roles", "listRbacPermissions">>, <<"/rbac/permissions", "listRbacRoles">> }

ControlGaps ==
  { <<"/agent-game-access", "upsertAgentGameAccess">>,
    <<"/agent-game-access", "deleteAgentGameAccess">>,
    <<"/agent-invite-applications", "createAgentInviteApplication">> }

StatusGaps ==
  { <<"/agent-invite-applications", "auditAgentInviteApplication">>,
    <<"/games", "rotateGameIntegrationKey">>, <<"/settlement-bills", "exportSettlementBill">> }

KnownGaps == OptionGaps \cup ListGaps \cup ControlGaps \cup StatusGaps

\* Whatever the console offers on what it shows, the server accepts, but for
\* the gaps listed (permission-meta, the route guards, the controls' conditions).
RefusalsKnown ==
  \A call \in refusals : \E section \in Sections(page) : <<section.key, call>> \in KnownGaps

ByOwn(d) == \A call \in pending \ pending' : call.phase = "applied" => call.gen = d.gen

\* A dialog that guards its closing is closed by the user or by the success of
\* its own call while its page is there; a confirmation always is.  Neither is
\* ever closed by the success of an earlier opening.
ClosedByOwn ==
  /\ dialog # None /\ dialog.control.shape = "guarded" /\ dialog' = None /\ route' # None
       => ByOwn(dialog)
  /\ confirm # None /\ confirm' = None => ByOwn(confirm)

ClosingHeld == [][ClosedByOwn]_vars

=============================================================================
