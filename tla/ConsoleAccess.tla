---------------------------- MODULE ConsoleAccess ----------------------------
(***************************************************************************)
(* Who sees what in the admin console: the permission codes the server     *)
(* grants, the console permissions they stand for, the menu, the route     *)
(* guards and the scope level.  Constant operators only.                   *)
(***************************************************************************)
EXTENDS Naturals, Sequences

\* Backend code, console permission: permissionMetas.
Metas ==
  { <<"dashboard:view", "dashboard:view">>, <<"audit:read", "audit:view">>,
    <<"agent:read", "agents:view">>, <<"agent:write", "agents:create">>,
    <<"agent:write", "agents:status:update">>, <<"tenant:read", "tenants:view">>,
    <<"tenant:write", "tenants:create">>, <<"tenant:write", "tenants:status:update">>,
    <<"tenant:write", "tenants:delete">>, <<"brand:read", "brands:view">>,
    <<"brand:write", "brands:create">>, <<"brand:write", "brands:status:update">>,
    <<"brand:write", "brands:delete">>, <<"invite_code:manage", "invite-codes:view">>,
    <<"invite_code:manage", "invite-codes:create">>, <<"player:read", "users:view">>,
    <<"player:write", "bindings:create">>, <<"binding:manage", "bindings:view">>,
    <<"binding:manage", "binding-history:view">>,
    <<"binding:manage", "agent-invite-applications:view">>,
    <<"binding:manage", "agent-invite-applications:create">>,
    <<"binding:manage", "agent-invite-applications:audit">>,
    <<"game:read", "games:view">>, <<"game:write", "games:create">>,
    <<"game:write", "games:update">>, <<"game:write", "games:delete">>,
    <<"game:publish", "games:status:update">>,
    <<"agent_game_access:read", "agent-game-access:view">>,
    <<"agent_game_access:write", "agent-game-access:write">>,
    <<"rule:read", "rules:view">>, <<"rule:write", "rules:create">>,
    <<"rule:publish", "rules:publish">>, <<"activity_reward:read", "activity-rewards:view">>,
    <<"activity_reward:write", "activity-rewards:create">>,
    <<"activity_reward:publish", "activity-rewards:status:update">>,
    <<"settlement:read", "orders:view">>, <<"settlement:read", "commissions:view">>,
    <<"settlement:execute", "ledger:view">>, <<"withdrawal:read", "withdrawal-requests:view">>,
    <<"withdrawal:execute", "withdrawal-requests:audit">>,
    <<"withdrawal_request:read", "withdrawal-requests:view">>,
    <<"withdrawal_request:audit", "withdrawal-requests:audit">>,
    <<"withdrawal-requests:view", "withdrawal-requests:view">>,
    <<"withdrawal-requests:audit", "withdrawal-requests:audit">>,
    <<"settlement_bill:read", "settlement-bills:view">>,
    <<"settlement_bill:export", "settlement-bills:export">>,
    <<"settlement_bill:confirm", "settlement-bills:confirm">>,
    <<"settlement-bills:view", "settlement-bills:view">>,
    <<"settlement-bills:export", "settlement-bills:export">>,
    <<"settlement-bills:confirm", "settlement-bills:confirm">>,
    <<"recalculation_task:read", "recalculation-tasks:view">>,
    <<"recalculation_task:create", "recalculation-tasks:create">>,
    <<"recalculation-tasks:view", "recalculation-tasks:view">>,
    <<"recalculation-tasks:create", "recalculation-tasks:create">>,
    <<"risk:read", "risk:view">>, <<"risk:write", "risk:view">>,
    <<"platform_config:read", "platform-configs:view">>,
    <<"platform_config:write", "platform-configs:write">>,
    <<"report:read", "report:view">>, <<"reports:view", "report:view">>,
    <<"rbac:permissions:view", "rbac:permissions:view">>,
    <<"rbac:users:view", "rbac:users:view">>, <<"rbac:users:write", "rbac:users:write">>,
    <<"rbac:roles:view", "rbac:roles:view">>, <<"rbac:roles:write", "rbac:roles:write">> }

\* A code of a role the table does not know gives nothing.
FrontendPermissions(code) == {m[2] : m \in {x \in Metas : x[1] = code}}

\* The permissions of a profile: every permission of every code of the answer.
NormalizePermissions(codes) == UNION {FrontendPermissions(code) : code \in codes}

-----------------------------------------------------------------------------
\* The menu, in its order.

Levels == {"platform", "tenant", "brand", "agent"}
Managers == Levels \ {"agent"}

Item(key, permission) == [key |-> key, permission |-> permission, levels |-> Levels]
ItemFor(levels, key, permission) == [key |-> key, permission |-> permission, levels |-> levels]

NavItems ==
  << Item("/", "dashboard:view"), Item("/agents", "agents:view"),
     Item("/invite-codes", "invite-codes:view"), Item("/users", "users:view"),
     Item("/bindings", "bindings:view"), Item("/binding-history", "binding-history:view"),
     Item("/agent-invite-applications", "agent-invite-applications:view"),
     ItemFor(Managers, "/tenant-brand/tenants", "tenants:view"),
     ItemFor(Managers, "/tenant-brand/brands", "brands:view"),
     ItemFor(Managers, "/platform-config-center", "platform-configs:view"),
     Item("/games", "games:view"),
     ItemFor(Managers, "/agent-game-access", "agent-game-access:view"),
     Item("/rules", "rules:view"),
     Item("/activity-reward-center/rules", "activity-rewards:view"),
     Item("/activity-reward-center/records", "activity-rewards:view"),
     Item("/orders", "orders:view"), Item("/commissions", "commissions:view"),
     Item("/settlement-bills", "settlement-bills:view"),
     Item("/recalculation-tasks", "recalculation-tasks:view"), Item("/ledger", "ledger:view"),
     Item("/withdrawal-requests/list", "withdrawal-requests:view"),
     Item("/withdrawal-requests/process", "withdrawal-requests:audit"),
     ItemFor({"platform"}, "/audit", "audit:view"),
     Item("/risk/cases", "risk:view"), Item("/risk/intelligence", "risk:view"),
     Item("/reports/agent", "report:view"), Item("/reports/team", "report:view"),
     Item("/reports/settlement", "report:view"), Item("/reports/progress", "report:view"),
     Item("/reports/data-platform", "report:view"),
     ItemFor(Managers, "/rbac/users", "rbac:users:view"),
     ItemFor(Managers, "/rbac/roles", "rbac:roles:view"),
     ItemFor(Managers, "/rbac/permissions", "rbac:permissions:view") >>

NavSet == {NavItems[i] : i \in DOMAIN NavItems}
NavKeys == {item.key : item \in NavSet}

Lowest(S) == CHOOSE i \in S : \A j \in S : i <= j

\* Mutant: the first item of the menu, whoever signs in.
FirstNavPath(permissions) == NavItems[1].key

\* The landing page of a sign-in looks at permissions, not at levels.
FirstAccessibleNavPath(permissions) ==
  LET Open == {i \in DOMAIN NavItems : NavItems[i].permission \in permissions}
  IN  IF Open = {} THEN "/" ELSE NavItems[Lowest(Open)].key

-----------------------------------------------------------------------------
\* Routes.  A profile is [account, permissions, scope] with scope
\* [tenant, brand, agent], each an identifier or "none".

\* The profile's own level never survives buildLoginUser: it follows from the
\* identifiers.
ScopeLevel(user) ==
  IF user.scope.agent # "none" THEN "agent"
  ELSE IF user.scope.brand # "none" THEN "brand"
  ELSE IF user.scope.tenant # "none" THEN "tenant" ELSE "platform"

VisibleNav(user) ==
  {item \in NavSet : ScopeLevel(user) \in item.levels /\ item.permission \in user.permissions}

Redirects ==
  { <<"/tenant-brand", "/tenant-brand/tenants">>,
    <<"/activity-reward-center", "/activity-reward-center/rules">>,
    <<"/withdrawal-requests", "/withdrawal-requests/list">>, <<"/risk", "/risk/cases">>,
    <<"/reports", "/reports/agent">>, <<"/rbac", "/rbac/users">> }

ConsolePaths == NavKeys \cup {r[1] : r \in Redirects}

\* Where a path inside the console ends up.
Resolve(path) ==
  IF \E r \in Redirects : r[1] = path
  THEN (CHOOSE r \in Redirects : r[1] = path)[2] ELSE path

\* Does the guard of a route show the page, or a 403?
RouteAdmits(user, path) ==
  \E item \in NavSet : /\ item.key = path
                       /\ item.permission \in user.permissions
                       /\ ScopeLevel(user) \in item.levels

=============================================================================
