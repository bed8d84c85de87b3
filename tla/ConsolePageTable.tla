-------------------------- MODULE ConsolePageTable --------------------------
(***************************************************************************)
(* The pages of the console, one record each: the queries it holds, the    *)
(* mutations it can run and what each of them does when it succeeds, the   *)
(* controls that start them, and what its toolbar changes.  Columns,       *)
(* fields, statistics and wording are left out.  Constant operators only;  *)
(* ConsolePages runs them.                                                 *)
(***************************************************************************)
EXTENDS ConsoleAccess

Scope == {"tenant", "brand"}

Anyone == ""  \* asks for no permission

\* A query: the first element of its key, the apiClient method, the parts of
\* the selection that make up the key and those the request carries.  Some ask
\* for a permission, and some live inside a dialog that is destroyed on close.
Query(root, call, keyed, args) ==
  [root |-> root, call |-> call, keyed |-> keyed, args |-> args, asks |-> Anyone, inside |-> "page"]
ListQuery(root, call, parts) == Query(root, call, parts, parts)
Inside(query, act) == [query EXCEPT !.inside = act]
Asking(query, permission) == [query EXCEPT !.asks = permission]

Stays == ""  \* goes to no other route

\* What onSuccess does: the roots it invalidates (or refetches through its own
\* query), the dialogs it closes, those it closes when they are about the same
\* row, the parts of the scope it may clear, and the route it goes to.
Mutation(call, refreshes) ==
  [call |-> call, refreshes |-> refreshes, refetches |-> FALSE, closes |-> {call}, sameRow |-> {},
   clears |-> {{}}, goes |-> Stays]
Refetching(call, root) == [Mutation(call, {root}) EXCEPT !.refetches = TRUE]
Closing(acts, mutation) == [mutation EXCEPT !.closes = acts]
ClosingSameRow(acts, mutation) == [mutation EXCEPT !.sameRow = acts]
Clearing(choices, mutation) == [mutation EXCEPT !.clears = choices]
GoingTo(path, mutation) == [mutation EXCEPT !.goes = path]

\* A control, by how it starts its call: a "dialog" that can always be
\* cancelled, a "guarded" one that cannot while its call is pending, a
\* "confirm" that closes only itself, an inline "form", a "button".  While a
\* call of blockedBy is pending its loading state takes no click.
\* Mutant: no control has a loading state.
ControlUnblocked(act, asks, shape) ==
  [act |-> act, asks |-> asks, shape |-> shape, row |-> "none", from |-> {}, inside |-> "page",
   blockedBy |-> {}, scoped |-> FALSE]
Control(act, asks, shape) ==
  [act |-> act, asks |-> asks, shape |-> shape, row |-> "none", from |-> {}, inside |-> "page",
   blockedBy |-> {act}, scoped |-> FALSE]
RowControl(root, act, asks, shape) == [Control(act, asks, shape) EXCEPT !.row = root]
From(statuses, control) == [control EXCEPT !.from = statuses]
BlockedBy(acts, control) == [control EXCEPT !.blockedBy = acts]
Unblocked(control) == BlockedBy({}, control)
Within(act, control) == [control EXCEPT !.inside = act]
Scoped(control) == [control EXCEPT !.scoped = TRUE]

\* A route: what is loaded and offered there, the mutations of its component,
\* and the filters, the parts of the selection that the toolbar changes.
Page(key, queries, mutations, controls, filters) ==
  [key |-> key, queries |-> queries, mutations |-> mutations, controls |-> controls,
   filters |-> filters]

-----------------------------------------------------------------------------
\* Selects that load their own options.

AgentSelect == ListQuery("agent-select-options", "listAgents", Scope)
GameSelect == ListQuery("game-select-options", "listGames", Scope)
TenantSelect == Asking(ListQuery("tenant-select-options", "listTenants", {}), "tenants:view")
BrandSelect == Asking(ListQuery("brand-select-options", "listBrands", {"tenantOfForm"}), "brands:view")

\* The parts of the selection that a form holds.
FormParts == {"tenantOfForm", "brandOfForm"}
AgentOfFormSelect == ListQuery("agent-select-options", "listAgents", FormParts)

-----------------------------------------------------------------------------
\* Agents.

\* Mutant: the status is sent but is no part of the key.
AgentsQueriesShort ==
  {Query("agents", "listAgents", Scope \cup {"keyword"}, Scope \cup {"keyword", "status"})}
AgentsQueries == {ListQuery("agents", "listAgents", Scope \cup {"keyword", "status"})}
AgentsMutations == {Mutation("createAgent", {"agents", "dashboard"}),
                    Mutation("updateAgentStatus", {"agents"})}
AgentsRows == {Unblocked(RowControl("agents", "updateAgentStatus", "agents:status:update", "button"))}
AgentsDialogs == {Scoped(Control("createAgent", "agents:create", "dialog"))}
AgentsFilters == {"keyword", "status"}

-----------------------------------------------------------------------------
\* Invite codes, players, bindings and invite applications.

InviteCodesQueries == {ListQuery("invite-codes", "listInviteCodes", Scope \cup {"status"})}
InviteCodesMutations == {Mutation("createInviteCode", {"invite-codes", "dashboard"})}
InviteCodesDialogs == {Scoped(Control("createInviteCode", "invite-codes:create", "dialog"))}
InviteCodesOptions == {Inside(AgentSelect, "createInviteCode")}
InviteCodesFilters == {"status"}

UsersQueries == {ListQuery("players", "listPlayers", Scope \cup {"keyword"})}
UsersFilters == {"keyword"}

BindingsQueries == {ListQuery("players", "listPlayers", Scope \cup {"keyword"}),
                    ListQuery("bindings", "listBindings", Scope)}
BindingsMutations == {Mutation("createBinding", {"bindings", "binding-history"})}
BindingsForms == {Scoped(Control("createBinding", "bindings:create", "form"))}
BindingsFilters == {"keyword"}

BindingHistoryQueries == {ListQuery("binding-history", "listBindingHistory", Scope \cup {"playerID"})}
BindingHistoryFilters == {"playerID"}

ApplicationsQueries ==
  {ListQuery("agent-invite-applications", "listAgentInviteApplications", Scope)}
ApplicationsMutations ==
  {Mutation("createAgentInviteApplication", {"agent-invite-applications"}),
   Mutation("auditAgentInviteApplication", {"agent-invite-applications"})}
\* Offered on every row, whatever its status.
ApplicationsRows ==
  {RowControl("agent-invite-applications", "auditAgentInviteApplication",
              "agent-invite-applications:audit", "button")}
ApplicationsForms ==
  {Scoped(Control("createAgentInviteApplication", "agent-invite-applications:create", "form"))}
ApplicationsOptions == {Asking(AgentSelect, "agent-invite-applications:create")}
ApplicationsFilters == {}

-----------------------------------------------------------------------------
\* Tenants and brands: two sections of one component, the tenants loaded in
\* both.  A new brand clears the scope, and so does the deletion of the tenant
\* or brand that is active, as far as the scope is not locked.

TenantsQueries == {Asking(ListQuery("tenants", "listTenants", {}), "tenants:view")}
BrandsQueries ==
  TenantsQueries \cup {Asking(ListQuery("brands", "listBrands", {"tenant"}), "brands:view")}
ScopeCleared == {Scope, {"brand"}, {}}
TenantMutations ==
  {Mutation("createTenant", {"tenants"}), Mutation("updateTenantStatus", {"tenants"}),
   Clearing(ScopeCleared, Mutation("deleteTenant", {"tenants", "brands"}))}
BrandMutations ==
  {Clearing(ScopeCleared, Mutation("createBrand", {"brands", "tenants"})),
   Mutation("updateBrandStatus", {"brands"}),
   Clearing({{"brand"}, {}}, Mutation("deleteBrand", {"brands", "tenants"}))}
TenantBrandMutations == TenantMutations \cup BrandMutations
TenantsRows ==
  {Unblocked(RowControl("tenants", "updateTenantStatus", permission, "button")) :
     permission \in {"tenants:status:update", "tenants:create"}}
  \cup {RowControl("tenants", "deleteTenant", "tenants:delete", "confirm")}
BrandsRows ==
  {Unblocked(RowControl("brands", "updateBrandStatus", permission, "button")) :
     permission \in {"brands:status:update", "brands:create"}}
  \cup {RowControl("brands", "deleteBrand", "brands:delete", "confirm")}
TenantsDialogs == {Control("createTenant", "tenants:create", "dialog")}
BrandsDialogs == {Control("createBrand", "brands:create", "dialog")}
TenantBrandFilters == {"tenant"}

-----------------------------------------------------------------------------
\* Platform configs.  Creating and editing share a dialog; ConfigCenter is
\* about what it holds.

ConfigQueries == {ListQuery("platform-configs", "listPlatformConfigs", Scope)}
ConfigActs == {"createPlatformConfig", "updatePlatformConfig"}
ConfigMutations == {Closing(ConfigActs, Mutation(act, {"platform-configs"})) : act \in ConfigActs}
ConfigDialogs ==
  {BlockedBy(ConfigActs, control) :
     control \in {Control("createPlatformConfig", "platform-configs:write", "dialog"),
                  RowControl("platform-configs", "updatePlatformConfig", "platform-configs:write",
                             "dialog")}}
ConfigFilters == {}

-----------------------------------------------------------------------------
\* Games, their integration keys, and agents' access to them.

GamesQueries ==
  {ListQuery("games", "listGames", Scope \cup {"keyword", "status"}),
   Inside(Query("game-integration-keys", "listGameIntegrationKeys", {}, {}), "credentials")}
GamesMutations ==
  {Mutation("createGame", {"games", "dashboard"}), Mutation("updateGame", {"games"}),
   Mutation("updateGameStatus", {"games"}),
   ClosingSameRow({"updateGame", "credentials"}, Mutation("deleteGame", {"games", "dashboard"})),
   Refetching("rotateGameIntegrationKey", "game-integration-keys")}
SavingGame(control) == BlockedBy({"createGame", "updateGame"}, control)
GamesRows ==
  {SavingGame(RowControl("games", "updateGame", "games:update", "dialog")),
   Control("credentials", "games:update", "viewer"),
   Unblocked(RowControl("games", "updateGameStatus", "games:status:update", "button")),
   RowControl("games", "deleteGame", "games:delete", "confirm")}
GamesDialogs == {SavingGame(Scoped(Control("createGame", "games:create", "dialog")))}
\* Offered on every key.
GamesCredentials ==
  {Within("credentials",
          RowControl("game-integration-keys", "rotateGameIntegrationKey", "games:update", "confirm"))}
GamesFilters == {"keyword", "status"}

AccessQueries == {ListQuery("agent-game-access", "listAgentGameAccess", Scope)}
AccessMutations == {Mutation("upsertAgentGameAccess", {"agent-game-access"}),
                    Mutation("deleteAgentGameAccess", {"agent-game-access"})}
\* Nobody asks for agent-game-access:write here.
AccessRows == {RowControl("agent-game-access", "deleteAgentGameAccess", Anyone, "button")}
AccessForms == {Scoped(Control("upsertAgentGameAccess", Anyone, "form"))}
AccessOptions == {AgentSelect, GameSelect}
AccessFilters == {}

-----------------------------------------------------------------------------
\* Commission rules and activity rewards.

RulesQueries ==
  {ListQuery("rules", "listRules", Scope \cup {"status", "ruleScope"}),
   ListQuery("enum-dictionaries", "listEnumDictionaries", {})}
RulesMutations == {Mutation("createRule", {"rules", "dashboard"}), Mutation("publishRule", {"rules"})}
RulesRows == {From({"draft"}, RowControl("rules", "publishRule", "rules:publish", "button"))}
RulesDialogs == {Scoped(Control("createRule", "rules:create", "dialog"))}
RulesOptions == {Inside(AgentSelect, "createRule"), Inside(GameSelect, "createRule")}
RulesFilters == {"status", "ruleScope"}

RewardRulesQueries ==
  {ListQuery("activity-reward-rules", "listActivityRewardRules",
             Scope \cup {"ruleStatus", "activityType", "keyword"})}
RewardRecordsQueries ==
  {ListQuery("activity-reward-records", "listActivityRewardRecords",
             Scope \cup {"recordStatus", "keyword"})}
RewardMutations ==
  {Mutation("createActivityRewardRule", {"activity-reward-rules"}),
   Mutation("updateActivityRewardRuleStatus", {"activity-reward-rules"}),
   GoingTo("/activity-reward-center/records",
           Mutation("generateActivityRewardRecord", {"activity-reward-records"})),
   Mutation("reverseActivityRewardRecord", {"activity-reward-records"})}
RewardRulesRows ==
  {RowControl("activity-reward-rules", "updateActivityRewardRuleStatus",
              "activity-rewards:status:update", "button"),
   From({"active"}, RowControl("activity-reward-rules", "generateActivityRewardRecord",
                               "activity-rewards:create", "dialog"))}
RewardRecordsRows ==
  {From({"granted"}, RowControl("activity-reward-records", "reverseActivityRewardRecord",
                                "activity-rewards:status:update", "dialog"))}
RewardDialogs == {Control("createActivityRewardRule", "activity-rewards:create", "dialog")}
RewardOptions == {Inside(AgentSelect, "generateActivityRewardRecord")}
RewardFilters == {"ruleStatus", "activityType", "recordStatus", "keyword"}

-----------------------------------------------------------------------------
\* Orders, commissions, bills, recalculation tasks, ledger, withdrawals.

OrdersQueries == {ListQuery("orders", "listOrders", Scope \cup {"status"})}
OrdersMutations ==
  {Mutation("updateOrderProfitFacts", {"orders", "dashboard", "report-data-platform-metrics"})}
OrdersRows == {From({"paid"}, RowControl("orders", "updateOrderProfitFacts", "ledger:view", "dialog"))}
OrdersFilters == {"status"}

CommissionsQueries == {ListQuery("commissions", "listCommissions", Scope \cup {"status"})}
CommissionsFilters == {"status"}

BillsQueries == {ListQuery("settlement-bills", "listSettlementBills", Scope \cup {"status", "billNo"})}
\* Mutant: a confirmed bill does not refresh the list.
BillsMutationsSilent == {Mutation("exportSettlementBill", {}), Mutation("confirmSettlementBill", {})}
BillsMutations == {Mutation("exportSettlementBill", {}),
                   Refetching("confirmSettlementBill", "settlement-bills")}
\* Mutant: every bill can be confirmed.
BillsRowsAny ==
  {RowControl("settlement-bills", "confirmSettlementBill", "settlement-bills:confirm", "guarded"),
   RowControl("settlement-bills", "exportSettlementBill", "settlement-bills:export", "button")}
BillsRows ==
  {From({"generated"}, RowControl("settlement-bills", "confirmSettlementBill",
                                  "settlement-bills:confirm", "guarded")),
   RowControl("settlement-bills", "exportSettlementBill", "settlement-bills:export", "button")}
BillsFilters == {"status", "billNo"}

TasksQueries == {ListQuery("recalculation-tasks", "listRecalculationTasks", Scope \cup {"status", "taskNo"})}
TasksMutations == {Refetching("createRecalculationTask", "recalculation-tasks")}
TasksForms == {Scoped(Control("createRecalculationTask", "recalculation-tasks:create", "form"))}
TasksOptions == {AgentSelect}
TasksFilters == {"status", "taskNo"}

LedgerQueries == {ListQuery("ledger", "listLedger", Scope \cup {"type", "orderNo"})}
LedgerFilters == {"type", "orderNo"}

WithdrawalQueries ==
  {ListQuery("withdrawal-requests", "listWithdrawalRequests",
             Scope \cup {"requestNo", "status", "agentID"})}
WithdrawalActs == {"auditWithdrawalRequest", "processWithdrawalPayout"}
WithdrawalMutations ==
  {Closing(WithdrawalActs, Mutation(act, {"withdrawal-requests", "risk-cases", "risk-agent-accounts"})) :
     act \in WithdrawalActs}
\* getActionMode: a pending request is reviewed, an approved one paid out.
ActionMode == [status \in {"pending", "approved"} |->
                 IF status = "pending" THEN "auditWithdrawalRequest" ELSE "processWithdrawalPayout"]
WithdrawalRows ==
  {BlockedBy(WithdrawalActs,
             From({status}, RowControl("withdrawal-requests", ActionMode[status],
                                       "withdrawal-requests:audit", "dialog"))) :
     status \in DOMAIN ActionMode}
WithdrawalOptions == {AgentSelect}
WithdrawalFilters == {"requestNo", "status", "agentID"}

-----------------------------------------------------------------------------
\* Audit, risk, reports, dashboard.

AuditQueries ==
  {Query("audit", "listAuditLogs", {"level", "module", "action", "targetID"},
         {"module", "action", "targetID"})}
AuditFilters == {"module", "action", "targetID"}

RiskCasesQueries ==
  {ListQuery("risk-cases", "listRiskCases", Scope \cup {"minFrozenRatio", "riskLevel", "status", "agentID"})}
RiskIntelligenceQueries == {ListQuery("risk-intelligence", "listRiskIntelligence", Scope)}
RiskMutations == {Mutation("reviewRiskCase", {"risk-cases", "withdrawal-requests", "risk-agent-accounts"})}
RiskRows == {From({"pending"}, RowControl("risk-cases", "reviewRiskCase", "risk:view", "dialog"))}
RiskOptions == {AgentSelect}
RiskFilters == {"minFrozenRatio", "riskLevel", "status", "agentID"}

\* The sections of the report page, each a route with queries of its own.
ReportQueries ==
  [path \in {"/reports/agent", "/reports/team", "/reports/settlement", "/reports/progress",
             "/reports/data-platform"} |->
    CASE path = "/reports/agent" ->
           {ListQuery("report-agent-performance", "listAgentPerformanceReport", Scope \cup {"agentID"})}
      [] path = "/reports/team" ->
           {ListQuery("report-team-performance", "listTeamPerformanceReport",
                      Scope \cup {"teamAgentID", "teamCurrency"})}
      [] path = "/reports/settlement" ->
           {ListQuery("report-game-settlement", "listGameSettlementReport", Scope \cup {"currency"})}
      [] path = "/reports/progress" ->
           {ListQuery("report-settlement-progress", "listSettlementProgressReport",
                      Scope \cup {"progressCurrency"})}
      [] path = "/reports/data-platform" ->
           {ListQuery("report-data-platform-layers", "listDataPlatformLayers", Scope),
            ListQuery("report-data-platform-metrics", "listDataPlatformMetrics", Scope)}]
ReportOptions == [path \in DOMAIN ReportQueries |->
                    IF path \in {"/reports/agent", "/reports/team"} THEN {AgentSelect} ELSE {}]
ReportFilters == {"agentID", "teamAgentID", "teamCurrency", "currency", "progressCurrency"}

\* One query of six calls, which fails when one of them does.
DashboardCalls == {"listAgents", "listInviteCodes", "listGames", "listRules", "listPlatformConfigs",
                   "listDataPlatformMetrics"}
DashboardQueries == {ListQuery("dashboard", "dashboard", Scope)}
DashboardFilters == {}

-----------------------------------------------------------------------------
\* Operators, roles and permissions of the console: one page, three sections,
\* every section loading the lists of all.

RbacQueries ==
  {Query("rbac-permissions", "listRbacPermissions", {}, {}), Query("rbac-roles", "listRbacRoles", {}, {}),
   Asking(Query("rbac-users", "listRbacUsers", {}, {}), "rbac:users:view")}
Save(calls, root) == {Closing(calls, Mutation(call, {root})) : call \in calls}
SavesRole == {"createRbacRole", "updateRbacRole"}
SavesUser == {"createRbacUser", "updateRbacUser"}
RbacMutations ==
  Save(SavesRole, "rbac-roles") \cup Save(SavesUser, "rbac-users")
    \cup {Mutation("deleteRbacRole", {"rbac-roles"}), Mutation("deleteRbacUser", {"rbac-users"})}
RbacUserRows ==
  {BlockedBy(SavesUser, RowControl("rbac-users", "updateRbacUser", "rbac:users:write", "dialog")),
   RowControl("rbac-users", "deleteRbacUser", "rbac:users:write", "confirm")}
RbacRoleRows ==
  {BlockedBy(SavesRole, RowControl("rbac-roles", "updateRbacRole", "rbac:roles:write", "dialog")),
   RowControl("rbac-roles", "deleteRbacRole", "rbac:roles:write", "confirm")}
RbacUserDialogs ==
  {BlockedBy(SavesUser, Control("createRbacUser", "rbac:users:write", "dialog"))}
RbacRoleDialogs ==
  {BlockedBy(SavesRole, Control("createRbacRole", "rbac:roles:write", "dialog"))}
RbacUserOptions == {Inside(options, act) : options \in {TenantSelect, BrandSelect, AgentOfFormSelect}, act \in SavesUser}
RbacRoleOptions == {Inside(options, act) : options \in {TenantSelect, BrandSelect}, act \in SavesRole}
RbacFilters == {}

-----------------------------------------------------------------------------
\* What each route of the console renders.

Pages ==
  { Page("/", DashboardQueries, {}, {}, DashboardFilters),
    Page("/agents", AgentsQueries, AgentsMutations, AgentsRows \cup AgentsDialogs, AgentsFilters),
    Page("/invite-codes", InviteCodesQueries \cup InviteCodesOptions, InviteCodesMutations,
         InviteCodesDialogs, InviteCodesFilters),
    Page("/users", UsersQueries, {}, {}, UsersFilters),
    Page("/bindings", BindingsQueries, BindingsMutations, BindingsForms, BindingsFilters),
    Page("/binding-history", BindingHistoryQueries, {}, {}, BindingHistoryFilters),
    Page("/agent-invite-applications", ApplicationsQueries \cup ApplicationsOptions,
         ApplicationsMutations, ApplicationsRows \cup ApplicationsForms, ApplicationsFilters),
    Page("/tenant-brand/tenants", TenantsQueries, TenantBrandMutations,
         TenantsRows \cup TenantsDialogs, TenantBrandFilters),
    Page("/tenant-brand/brands", BrandsQueries, TenantBrandMutations,
         BrandsRows \cup BrandsDialogs, TenantBrandFilters),
    Page("/platform-config-center", ConfigQueries, ConfigMutations, ConfigDialogs, ConfigFilters),
    Page("/games", GamesQueries, GamesMutations, GamesRows \cup GamesDialogs \cup GamesCredentials,
         GamesFilters),
    Page("/agent-game-access", AccessQueries \cup AccessOptions, AccessMutations,
         AccessRows \cup AccessForms, AccessFilters),
    Page("/rules", RulesQueries \cup RulesOptions, RulesMutations, RulesRows \cup RulesDialogs,
         RulesFilters),
    Page("/activity-reward-center/rules", RewardRulesQueries \cup RewardOptions, RewardMutations,
         RewardRulesRows \cup RewardDialogs, RewardFilters),
    Page("/activity-reward-center/records", RewardRecordsQueries, RewardMutations,
         RewardRecordsRows, RewardFilters),
    Page("/orders", OrdersQueries, OrdersMutations, OrdersRows, OrdersFilters),
    Page("/commissions", CommissionsQueries, {}, {}, CommissionsFilters),
    Page("/settlement-bills", BillsQueries, BillsMutations, BillsRows, BillsFilters),
    Page("/recalculation-tasks", TasksQueries \cup TasksOptions, TasksMutations, TasksForms, TasksFilters),
    Page("/ledger", LedgerQueries, {}, {}, LedgerFilters),
    Page("/withdrawal-requests/list", WithdrawalQueries \cup WithdrawalOptions, WithdrawalMutations,
         WithdrawalRows, WithdrawalFilters),
    Page("/withdrawal-requests/process", WithdrawalQueries \cup WithdrawalOptions,
         WithdrawalMutations, WithdrawalRows, WithdrawalFilters),
    Page("/audit", AuditQueries, {}, {}, AuditFilters),
    Page("/risk/cases", RiskCasesQueries \cup RiskOptions, RiskMutations, RiskRows, RiskFilters),
    Page("/risk/intelligence", RiskIntelligenceQueries, RiskMutations, {}, RiskFilters),
    Page("/rbac/users", RbacQueries \cup RbacUserOptions, RbacMutations,
         RbacUserRows \cup RbacUserDialogs, RbacFilters),
    Page("/rbac/roles", RbacQueries \cup RbacRoleOptions, RbacMutations,
         RbacRoleRows \cup RbacRoleDialogs, RbacFilters),
    Page("/rbac/permissions", RbacQueries, RbacMutations, {}, RbacFilters) }
  \cup {Page(path, ReportQueries[path] \cup ReportOptions[path], {}, {}, ReportFilters) :
          path \in DOMAIN ReportQueries}

\* The routes that render one component: going from one to another keeps its
\* state, but for the filters, which the address holds.
SharedRoutes ==
  { {"/tenant-brand/tenants", "/tenant-brand/brands"},
    {"/activity-reward-center/rules", "/activity-reward-center/records"},
    {"/withdrawal-requests/list", "/withdrawal-requests/process"},
    {"/risk/cases", "/risk/intelligence"}, DOMAIN ReportQueries,
    {"/rbac/users", "/rbac/roles", "/rbac/permissions"} }

Sections(p) ==
  LET paths == {p.key} \cup UNION {routes \in SharedRoutes : p.key \in routes}
  IN  {section \in Pages : section.key \in paths}
ControlsOf(p) == UNION {section.controls : section \in Sections(p)}
QueriesOf(p) == UNION {section.queries : section \in Sections(p)}

=============================================================================
