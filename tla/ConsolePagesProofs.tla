-------------------------- MODULE ConsolePagesProofs --------------------------
(***************************************************************************)
(* Proofs about the console's list pages (ConsolePages), for every page of *)
(* the tables, every list of it and every user, however often the user     *)
(* clicks and whatever becomes of the calls.  The invariant IInv has four  *)
(* parts: the types (Typed), that an entry of the query cache was asked    *)
(* for with the arguments its key stands for (FollowsKey), that the key a  *)
(* successful call changed is fetched anew, or the first fetch it overtook *)
(* is marked (MustShown), and which call or confirmation belongs to which  *)
(* opening (CallsOK).                                                      *)
(*                                                                         *)
(* What the console offers is compared with what the server permits for    *)
(* every set of permission codes (GapsAreAll); that everything under way   *)
(* was offered once is a second inductive invariant (OfferInv).            *)
(***************************************************************************)
EXTENDS ConsolePages, SequenceTheorems, TLAPS

-----------------------------------------------------------------------------
\* The page tables.  What the proofs need of every page is proved page by page:
\* only these lemmas look into the tables.

\* The key of every query has the parts that its request sends.
KeysCover(queries) == \A query \in queries : query.args \subseteq query.keyed

\* The success of a call invalidates every list of the page that the call changes.
RefreshesCover(queries, mutations) ==
  \A query \in queries, mutation \in mutations :
    ChangesList(mutation.call, query.root) => query.root \in mutation.refreshes

\* The success of a call closes the dialog it was confirmed in.
ClosesOwn(mutations) == \A mutation \in mutations : mutation.call \in mutation.closes

\* Every control runs a mutation of the page; a dialog or a form is disabled while that is on its
\* way; a page has one form at most; a dialog that guards its closing is closed by its own call
\* alone.
ControlsRun(mutations, controls) ==
  \A control \in controls :
    /\ control.shape # "viewer" => \E mutation \in mutations : mutation.call = control.act
    /\ control.shape \in {"dialog", "guarded", "form"} => control.act \in control.blockedBy
    /\ control.act # "page" /\ (control.inside # "page" => control.shape \in {"button", "confirm"})
    /\ control.shape = "form" =>
         \A other \in controls : other.shape = "form" <=> other.act = control.act
    /\ control.shape = "guarded" =>
         /\ \A other \in controls : other.act = control.act => other.shape = "guarded"
         /\ \A mutation \in mutations :
              control.act \in mutation.closes \cup mutation.sameRow => mutation.call = control.act

Sound(queries, mutations, controls) ==
  /\ KeysCover(queries) /\ RefreshesCover(queries, mutations)
  /\ ClosesOwn(mutations) /\ ControlsRun(mutations, controls)

\* The fields of a query, a mutation and a control.
IsQuery(q) == DOMAIN q = {"root", "call", "keyed", "args", "asks", "inside"}
IsMutation(m) ==
  DOMAIN m = {"call", "refreshes", "refetches", "closes", "sameRow", "clears", "goes"}
IsControl(c) == DOMAIN c = {"act", "asks", "shape", "row", "from", "inside", "blockedBy", "scoped"}

\* What the constructors of the tables leave of their arguments.
LEMMA PageFields ==
  ASSUME NEW key, NEW queries, NEW mutations, NEW controls, NEW filters
  PROVE  LET p == Page(key, queries, mutations, controls, filters)
         IN  /\ p.key = key
             /\ p.queries = queries /\ p.mutations = mutations /\ p.controls = controls
  BY DEF Page

LEMMA QueryFields ==
  ASSUME NEW root, NEW call, NEW keyed, NEW args
  PROVE  LET q == Query(root, call, keyed, args)
         IN /\ q.args = args /\ q.keyed = keyed /\ q.root = root /\ IsQuery(q)
            /\ q.call = call /\ q.asks = Anyone /\ q.inside = "page"
  BY DEF Query, IsQuery

LEMMA InsideFields ==
  ASSUME NEW q, IsQuery(q), NEW act
  PROVE  LET i == Inside(q, act)
         IN /\ i.args = q.args /\ i.keyed = q.keyed /\ i.root = q.root /\ IsQuery(i)
            /\ i.call = q.call /\ i.asks = q.asks /\ i.inside = act
  BY DEF Inside, IsQuery

LEMMA AskingFields ==
  ASSUME NEW q, IsQuery(q), NEW permission
  PROVE  LET i == Asking(q, permission)
         IN /\ i.args = q.args /\ i.keyed = q.keyed /\ i.root = q.root /\ IsQuery(i)
            /\ i.call = q.call /\ i.asks = permission /\ i.inside = q.inside
  BY DEF Asking, IsQuery

LEMMA MutationFields ==
  ASSUME NEW call, NEW refreshes
  PROVE  LET m == Mutation(call, refreshes)
         IN /\ m.call = call /\ m.refreshes = refreshes /\ m.closes = {call} /\ IsMutation(m)
            /\ m.sameRow = {} /\ m.goes = Stays
  BY DEF Mutation, IsMutation

LEMMA RefetchingFields ==
  ASSUME NEW call, NEW root
  PROVE  LET m == Refetching(call, root)
         IN /\ m.call = call /\ m.refreshes = {root} /\ m.closes = {call}
            /\ m.sameRow = {} /\ m.goes = Stays
  BY DEF Mutation, Refetching

LEMMA ClosingFields ==
  ASSUME NEW m, IsMutation(m), NEW acts
  PROVE  LET c == Closing(acts, m)
         IN /\ c.call = m.call /\ c.refreshes = m.refreshes /\ c.closes = acts
            /\ c.sameRow = m.sameRow /\ c.goes = m.goes
  BY DEF Closing, IsMutation

LEMMA ClosingSameRowFields ==
  ASSUME NEW m, IsMutation(m), NEW acts
  PROVE  LET c == ClosingSameRow(acts, m)
         IN /\ c.call = m.call /\ c.refreshes = m.refreshes /\ c.closes = m.closes
            /\ c.sameRow = acts /\ c.goes = m.goes
  BY DEF ClosingSameRow, IsMutation

LEMMA ClearingFields ==
  ASSUME NEW m, IsMutation(m), NEW choices
  PROVE  LET c == Clearing(choices, m)
         IN /\ c.call = m.call /\ c.refreshes = m.refreshes /\ c.closes = m.closes
            /\ c.sameRow = m.sameRow /\ c.goes = m.goes
  BY DEF Clearing, IsMutation

LEMMA GoingToFields ==
  ASSUME NEW m, IsMutation(m), NEW path
  PROVE  LET c == GoingTo(path, m)
         IN /\ c.call = m.call /\ c.refreshes = m.refreshes /\ c.closes = m.closes
            /\ c.sameRow = m.sameRow /\ c.goes = path
  BY DEF GoingTo, IsMutation

LEMMA ControlFields ==
  ASSUME NEW act, NEW asks, NEW shape
  PROVE  LET c == Control(act, asks, shape)
         IN /\ c.act = act /\ c.shape = shape /\ c.inside = "page" /\ c.blockedBy = {act}
            /\ c.asks = asks /\ c.from = {} /\ c.row = "none" /\ IsControl(c)
  BY DEF Control, IsControl

LEMMA RowControlFields ==
  ASSUME NEW act, NEW asks, NEW shape, NEW root
  PROVE  LET c == RowControl(root, act, asks, shape)
         IN /\ c.act = act /\ c.shape = shape /\ c.inside = "page" /\ c.blockedBy = {act}
            /\ c.asks = asks /\ c.from = {} /\ c.row = root /\ IsControl(c)
  BY DEF Control, RowControl, IsControl

LEMMA FromFields ==
  ASSUME NEW c, IsControl(c), NEW statuses
  PROVE  LET d == From(statuses, c)
         IN /\ d.act = c.act /\ d.shape = c.shape /\ d.inside = c.inside /\ d.blockedBy = c.blockedBy
            /\ d.asks = c.asks /\ d.from = statuses /\ d.row = c.row /\ IsControl(d)
  BY DEF From, IsControl

LEMMA BlockedByFields ==
  ASSUME NEW c, IsControl(c), NEW acts
  PROVE  LET d == BlockedBy(acts, c)
         IN /\ d.act = c.act /\ d.shape = c.shape /\ d.inside = c.inside /\ d.blockedBy = acts
            /\ d.asks = c.asks /\ d.from = c.from /\ d.row = c.row /\ IsControl(d)
  BY DEF BlockedBy, IsControl

LEMMA ScopedFields ==
  ASSUME NEW c, IsControl(c)
  PROVE  LET d == Scoped(c)
         IN /\ d.act = c.act /\ d.shape = c.shape /\ d.inside = c.inside /\ d.blockedBy = c.blockedBy
            /\ d.asks = c.asks /\ d.from = c.from /\ d.row = c.row /\ IsControl(d)
  BY DEF Scoped, IsControl

LEMMA WithinFields ==
  ASSUME NEW c, IsControl(c), NEW act
  PROVE  LET d == Within(act, c)
         IN /\ d.act = c.act /\ d.shape = c.shape /\ d.inside = act /\ d.blockedBy = c.blockedBy
            /\ d.asks = c.asks /\ d.from = c.from /\ d.row = c.row
  BY DEF Within, IsControl

\* The calls that change what a list shows, list by list.
LEMMA ChangesListed ==
  ASSUME NEW call, NEW root, ChangesList(call, root)
  PROVE  \/ root = "agents" /\ call \in {"createAgent", "updateAgentStatus"}
         \/ root = "invite-codes" /\ call = "createInviteCode"
         \/ root = "bindings" /\ call = "createBinding"
         \/ root = "agent-invite-applications"
               /\ call \in {"createAgentInviteApplication", "auditAgentInviteApplication"}
         \/ root = "tenants"
               /\ call \in {"createTenant", "updateTenantStatus", "deleteTenant",
                            "createBrand", "deleteBrand"}
         \/ root = "brands" /\ call \in {"createBrand", "updateBrandStatus", "deleteBrand"}
         \/ root = "platform-configs" /\ call \in {"createPlatformConfig", "updatePlatformConfig"}
         \/ root = "games"
               /\ call \in {"createGame", "updateGame", "updateGameStatus", "deleteGame"}
         \/ root = "game-integration-keys" /\ call = "rotateGameIntegrationKey"
         \/ root = "agent-game-access"
               /\ call \in {"upsertAgentGameAccess", "deleteAgentGameAccess"}
         \/ root = "rules" /\ call \in {"createRule", "publishRule"}
         \/ root = "activity-reward-rules"
               /\ call \in {"createActivityRewardRule", "updateActivityRewardRuleStatus"}
         \/ root = "activity-reward-records"
               /\ call \in {"generateActivityRewardRecord", "reverseActivityRewardRecord"}
         \/ root = "orders" /\ call = "updateOrderProfitFacts"
         \/ root = "settlement-bills" /\ call = "confirmSettlementBill"
         \/ root = "recalculation-tasks" /\ call = "createRecalculationTask"
         \/ root = "withdrawal-requests" /\ call \in WithdrawalActs
         \/ root = "risk-cases" /\ call = "reviewRiskCase"
         \/ root = "rbac-roles" /\ call \in SavesRole \cup {"deleteRbacRole"}
         \/ root = "rbac-users" /\ call \in SavesUser \cup {"deleteRbacUser"}
<1>1. PICK change \in Changes : change[1] = root /\ call \in change[2]  BY DEF ChangesList
<1>2. QED BY <1>1 DEF Changes

\* A page without calls: only its keys matter.
LEMMA ReadOnly ==
  ASSUME NEW queries, KeysCover(queries)
  PROVE  Sound(queries, {}, {})
  BY DEF Sound, RefreshesCover, ClosesOwn, ControlsRun

\* The pages, one lemma each: dashboard to permissions.
LEMMA DashboardPage == Sound(DashboardQueries, {}, {})
<1>1. KeysCover(DashboardQueries)
  BY QueryFields DEF KeysCover, DashboardQueries, ListQuery, Scope
<1>2. QED BY <1>1, ReadOnly

LEMMA AgentsPage == Sound(AgentsQueries, AgentsMutations, AgentsRows \cup AgentsDialogs)
<1>1. KeysCover(AgentsQueries)
  BY QueryFields DEF KeysCover, AgentsQueries, ListQuery, Scope
<1>2. RefreshesCover(AgentsQueries, AgentsMutations)
  BY MutationFields, QueryFields, ChangesListed
     DEF RefreshesCover, AgentsQueries, ListQuery, Scope, AgentsMutations
<1>3. ClosesOwn(AgentsMutations)
  BY MutationFields DEF ClosesOwn, AgentsMutations
<1>4. ControlsRun(AgentsMutations, AgentsRows \cup AgentsDialogs)
  BY BlockedByFields, ControlFields, MutationFields, RowControlFields, ScopedFields
     DEF ControlsRun, AgentsMutations, AgentsRows, AgentsDialogs, Unblocked
<1>5. QED BY <1>1, <1>2, <1>3, <1>4 DEF Sound

LEMMA InviteCodesPage ==
  Sound(InviteCodesQueries \cup InviteCodesOptions, InviteCodesMutations, InviteCodesDialogs)
<1>1. KeysCover(InviteCodesQueries \cup InviteCodesOptions)
  BY InsideFields, QueryFields
     DEF KeysCover, InviteCodesQueries, InviteCodesOptions, ListQuery, Scope, AgentSelect
<1>2. RefreshesCover(InviteCodesQueries \cup InviteCodesOptions, InviteCodesMutations)
  BY InsideFields, MutationFields, QueryFields, ChangesListed
     DEF RefreshesCover, InviteCodesQueries, InviteCodesOptions, ListQuery, Scope, AgentSelect,
         InviteCodesMutations
<1>3. ClosesOwn(InviteCodesMutations)
  BY MutationFields DEF ClosesOwn, InviteCodesMutations
<1>4. ControlsRun(InviteCodesMutations, InviteCodesDialogs)
  BY ControlFields, MutationFields, ScopedFields
     DEF ControlsRun, InviteCodesMutations, InviteCodesDialogs
<1>5. QED BY <1>1, <1>2, <1>3, <1>4 DEF Sound

LEMMA UsersPage == Sound(UsersQueries, {}, {})
<1>1. KeysCover(UsersQueries)
  BY QueryFields DEF KeysCover, UsersQueries, ListQuery, Scope
<1>2. QED BY <1>1, ReadOnly

LEMMA BindingsPage == Sound(BindingsQueries, BindingsMutations, BindingsForms)
<1>1. KeysCover(BindingsQueries)
  BY QueryFields DEF KeysCover, BindingsQueries, ListQuery, Scope
<1>2. RefreshesCover(BindingsQueries, BindingsMutations)
  BY MutationFields, QueryFields, ChangesListed
     DEF RefreshesCover, BindingsQueries, ListQuery, Scope, BindingsMutations
<1>3. ClosesOwn(BindingsMutations)
  BY MutationFields DEF ClosesOwn, BindingsMutations
<1>4. ControlsRun(BindingsMutations, BindingsForms)
  BY ControlFields, MutationFields, ScopedFields DEF ControlsRun, BindingsMutations, BindingsForms
<1>5. QED BY <1>1, <1>2, <1>3, <1>4 DEF Sound

LEMMA BindingHistoryPage == Sound(BindingHistoryQueries, {}, {})
<1>1. KeysCover(BindingHistoryQueries)
  BY QueryFields DEF KeysCover, BindingHistoryQueries, ListQuery, Scope
<1>2. QED BY <1>1, ReadOnly

LEMMA AgentInviteApplicationsPage ==
  Sound(ApplicationsQueries \cup ApplicationsOptions, ApplicationsMutations,
        ApplicationsRows \cup ApplicationsForms)
<1>1. KeysCover(ApplicationsQueries \cup ApplicationsOptions)
  BY AskingFields, QueryFields
     DEF KeysCover, ApplicationsQueries, ApplicationsOptions, ListQuery, Scope, AgentSelect
<1>2. RefreshesCover(ApplicationsQueries \cup ApplicationsOptions, ApplicationsMutations)
  BY AskingFields, MutationFields, QueryFields, ChangesListed
     DEF RefreshesCover, ApplicationsQueries, ApplicationsOptions, ListQuery, Scope, AgentSelect,
         ApplicationsMutations
<1>3. ClosesOwn(ApplicationsMutations)
  BY MutationFields DEF ClosesOwn, ApplicationsMutations
<1>4. ControlsRun(ApplicationsMutations, ApplicationsRows \cup ApplicationsForms)
  BY ControlFields, MutationFields, RowControlFields, ScopedFields
     DEF ControlsRun, ApplicationsMutations, ApplicationsRows, ApplicationsForms
<1>5. QED BY <1>1, <1>2, <1>3, <1>4 DEF Sound

LEMMA TenantBrandTenantsPage ==
  Sound(TenantsQueries, TenantBrandMutations, TenantsRows \cup TenantsDialogs)
<1>1. KeysCover(TenantsQueries)
  BY AskingFields, QueryFields DEF KeysCover, TenantsQueries, ListQuery
<1>2. RefreshesCover(TenantsQueries, TenantBrandMutations)
  BY AskingFields, ClearingFields, MutationFields, QueryFields, ChangesListed
     DEF RefreshesCover, TenantsQueries, ListQuery, TenantBrandMutations, TenantMutations,
         BrandMutations
<1>3. ClosesOwn(TenantBrandMutations)
  BY ClearingFields, MutationFields
     DEF ClosesOwn, TenantBrandMutations, TenantMutations, BrandMutations
<1>4. ControlsRun(TenantBrandMutations, TenantsRows \cup TenantsDialogs)
  BY BlockedByFields, ClearingFields, ControlFields, MutationFields, RowControlFields
     DEF ControlsRun, TenantBrandMutations, TenantMutations, TenantsRows, TenantsDialogs, Unblocked
<1>5. QED BY <1>1, <1>2, <1>3, <1>4 DEF Sound

LEMMA TenantBrandBrandsPage ==
  Sound(BrandsQueries, TenantBrandMutations, BrandsRows \cup BrandsDialogs)
<1>1. KeysCover(BrandsQueries)
  BY AskingFields, QueryFields DEF KeysCover, BrandsQueries, TenantsQueries, ListQuery
<1>2. RefreshesCover(BrandsQueries, TenantBrandMutations)
  BY AskingFields, ClearingFields, MutationFields, QueryFields, ChangesListed
     DEF RefreshesCover, BrandsQueries, TenantsQueries, ListQuery, TenantBrandMutations,
         TenantMutations, BrandMutations
<1>3. ClosesOwn(TenantBrandMutations)
  BY ClearingFields, MutationFields
     DEF ClosesOwn, TenantBrandMutations, TenantMutations, BrandMutations
<1>4. ControlsRun(TenantBrandMutations, BrandsRows \cup BrandsDialogs)
  BY BlockedByFields, ClearingFields, ControlFields, MutationFields, RowControlFields
     DEF ControlsRun, TenantBrandMutations, BrandMutations, BrandsRows, BrandsDialogs, Unblocked
<1>5. QED BY <1>1, <1>2, <1>3, <1>4 DEF Sound

LEMMA PlatformConfigCenterPage == Sound(ConfigQueries, ConfigMutations, ConfigDialogs)
<1>1. KeysCover(ConfigQueries)
  BY QueryFields DEF KeysCover, ConfigQueries, ListQuery, Scope
<1>2. RefreshesCover(ConfigQueries, ConfigMutations)
  BY ClosingFields, MutationFields, QueryFields, ChangesListed
     DEF RefreshesCover, ConfigQueries, ListQuery, Scope, ConfigMutations, ConfigActs
<1>3. ClosesOwn(ConfigMutations)
  BY ClosingFields, MutationFields DEF ClosesOwn, ConfigMutations, ConfigActs
<1>4. ControlsRun(ConfigMutations, ConfigDialogs)
  BY BlockedByFields, ClosingFields, ControlFields, MutationFields, RowControlFields
     DEF ControlsRun, ConfigMutations, ConfigActs, ConfigDialogs
<1>5. QED BY <1>1, <1>2, <1>3, <1>4 DEF Sound

LEMMA GamesPage ==
  Sound(GamesQueries, GamesMutations, GamesRows \cup GamesDialogs \cup GamesCredentials)
<1>1. KeysCover(GamesQueries)
  BY InsideFields, QueryFields DEF KeysCover, GamesQueries, ListQuery, Scope
<1>2. RefreshesCover(GamesQueries, GamesMutations)
  BY ClosingSameRowFields, InsideFields, MutationFields, QueryFields, RefetchingFields, ChangesListed
     DEF RefreshesCover, GamesQueries, ListQuery, Scope, GamesMutations
<1>3. ClosesOwn(GamesMutations)
  BY ClosingSameRowFields, MutationFields, RefetchingFields DEF ClosesOwn, GamesMutations
<1>4. ControlsRun(GamesMutations, GamesRows \cup GamesDialogs \cup GamesCredentials)
  BY BlockedByFields, ClosingSameRowFields, ControlFields, MutationFields, RefetchingFields,
     RowControlFields, ScopedFields, WithinFields
     DEF ControlsRun, GamesMutations, GamesRows, GamesDialogs, GamesCredentials, SavingGame,
         Unblocked
<1>5. QED BY <1>1, <1>2, <1>3, <1>4 DEF Sound

LEMMA AgentGameAccessPage ==
  Sound(AccessQueries \cup AccessOptions, AccessMutations, AccessRows \cup AccessForms)
<1>1. KeysCover(AccessQueries \cup AccessOptions)
  BY QueryFields
     DEF KeysCover, AccessQueries, AccessOptions, ListQuery, Scope, AgentSelect, GameSelect
<1>2. RefreshesCover(AccessQueries \cup AccessOptions, AccessMutations)
  BY MutationFields, QueryFields, ChangesListed
     DEF RefreshesCover, AccessQueries, AccessOptions, ListQuery, Scope, AgentSelect, GameSelect,
         AccessMutations
<1>3. ClosesOwn(AccessMutations)
  BY MutationFields DEF ClosesOwn, AccessMutations
<1>4. ControlsRun(AccessMutations, AccessRows \cup AccessForms)
  BY ControlFields, MutationFields, RowControlFields, ScopedFields
     DEF ControlsRun, AccessMutations, AccessRows, AccessForms
<1>5. QED BY <1>1, <1>2, <1>3, <1>4 DEF Sound

LEMMA RulesPage ==
  Sound(RulesQueries \cup RulesOptions, RulesMutations, RulesRows \cup RulesDialogs)
<1>1. KeysCover(RulesQueries \cup RulesOptions)
  BY InsideFields, QueryFields
     DEF KeysCover, RulesQueries, RulesOptions, ListQuery, Scope, AgentSelect, GameSelect
<1>2. RefreshesCover(RulesQueries \cup RulesOptions, RulesMutations)
  BY InsideFields, MutationFields, QueryFields, ChangesListed
     DEF RefreshesCover, RulesQueries, RulesOptions, ListQuery, Scope, AgentSelect, GameSelect,
         RulesMutations
<1>3. ClosesOwn(RulesMutations)
  BY MutationFields DEF ClosesOwn, RulesMutations
<1>4. ControlsRun(RulesMutations, RulesRows \cup RulesDialogs)
  BY ControlFields, FromFields, MutationFields, RowControlFields, ScopedFields
     DEF ControlsRun, RulesMutations, RulesRows, RulesDialogs
<1>5. QED BY <1>1, <1>2, <1>3, <1>4 DEF Sound

LEMMA ActivityRewardCenterRulesPage ==
  Sound(RewardRulesQueries \cup RewardOptions, RewardMutations, RewardRulesRows \cup RewardDialogs)
<1>1. KeysCover(RewardRulesQueries \cup RewardOptions)
  BY InsideFields, QueryFields
     DEF KeysCover, RewardRulesQueries, RewardOptions, ListQuery, Scope, AgentSelect
<1>2. RefreshesCover(RewardRulesQueries \cup RewardOptions, RewardMutations)
  BY InsideFields, GoingToFields, MutationFields, QueryFields, ChangesListed
     DEF RefreshesCover, RewardRulesQueries, RewardOptions, ListQuery, Scope, AgentSelect,
         RewardMutations
<1>3. ClosesOwn(RewardMutations)
  BY GoingToFields, MutationFields DEF ClosesOwn, RewardMutations
<1>4. ControlsRun(RewardMutations, RewardRulesRows \cup RewardDialogs)
  BY ControlFields, FromFields, GoingToFields, MutationFields, RowControlFields
     DEF ControlsRun, RewardMutations, RewardRulesRows, RewardDialogs
<1>5. QED BY <1>1, <1>2, <1>3, <1>4 DEF Sound

LEMMA ActivityRewardCenterRecordsPage ==
  Sound(RewardRecordsQueries, RewardMutations, RewardRecordsRows)
<1>1. KeysCover(RewardRecordsQueries)
  BY QueryFields DEF KeysCover, RewardRecordsQueries, ListQuery, Scope
<1>2. RefreshesCover(RewardRecordsQueries, RewardMutations)
  BY GoingToFields, MutationFields, QueryFields, ChangesListed
     DEF RefreshesCover, RewardRecordsQueries, ListQuery, Scope, RewardMutations
<1>3. ClosesOwn(RewardMutations)
  BY GoingToFields, MutationFields DEF ClosesOwn, RewardMutations
<1>4. ControlsRun(RewardMutations, RewardRecordsRows)
  BY FromFields, GoingToFields, MutationFields, RowControlFields
     DEF ControlsRun, RewardMutations, RewardRecordsRows
<1>5. QED BY <1>1, <1>2, <1>3, <1>4 DEF Sound

LEMMA OrdersPage == Sound(OrdersQueries, OrdersMutations, OrdersRows)
<1>1. KeysCover(OrdersQueries)
  BY QueryFields DEF KeysCover, OrdersQueries, ListQuery, Scope
<1>2. RefreshesCover(OrdersQueries, OrdersMutations)
  BY MutationFields, QueryFields, ChangesListed
     DEF RefreshesCover, OrdersQueries, ListQuery, Scope, OrdersMutations
<1>3. ClosesOwn(OrdersMutations)
  BY MutationFields DEF ClosesOwn, OrdersMutations
<1>4. ControlsRun(OrdersMutations, OrdersRows)
  BY FromFields, MutationFields, RowControlFields DEF ControlsRun, OrdersMutations, OrdersRows
<1>5. QED BY <1>1, <1>2, <1>3, <1>4 DEF Sound

LEMMA CommissionsPage == Sound(CommissionsQueries, {}, {})
<1>1. KeysCover(CommissionsQueries)
  BY QueryFields DEF KeysCover, CommissionsQueries, ListQuery, Scope
<1>2. QED BY <1>1, ReadOnly

LEMMA SettlementBillsPage == Sound(BillsQueries, BillsMutations, BillsRows)
<1>1. KeysCover(BillsQueries)
  BY QueryFields DEF KeysCover, BillsQueries, ListQuery, Scope
<1>2. RefreshesCover(BillsQueries, BillsMutations)
  BY MutationFields, QueryFields, RefetchingFields, ChangesListed
     DEF RefreshesCover, BillsQueries, ListQuery, Scope, BillsMutations
<1>3. ClosesOwn(BillsMutations)
  BY MutationFields, RefetchingFields DEF ClosesOwn, BillsMutations
<1>4. ControlsRun(BillsMutations, BillsRows)
  BY FromFields, MutationFields, RefetchingFields, RowControlFields
     DEF ControlsRun, BillsMutations, BillsRows
<1>5. QED BY <1>1, <1>2, <1>3, <1>4 DEF Sound

LEMMA RecalculationTasksPage == Sound(TasksQueries \cup TasksOptions, TasksMutations, TasksForms)
<1>1. KeysCover(TasksQueries \cup TasksOptions)
  BY QueryFields DEF KeysCover, TasksQueries, TasksOptions, ListQuery, Scope, AgentSelect
<1>2. RefreshesCover(TasksQueries \cup TasksOptions, TasksMutations)
  BY QueryFields, RefetchingFields, ChangesListed
     DEF RefreshesCover, TasksQueries, TasksOptions, ListQuery, Scope, AgentSelect, TasksMutations
<1>3. ClosesOwn(TasksMutations)
  BY RefetchingFields DEF ClosesOwn, TasksMutations
<1>4. ControlsRun(TasksMutations, TasksForms)
  BY ControlFields, RefetchingFields, ScopedFields DEF ControlsRun, TasksMutations, TasksForms
<1>5. QED BY <1>1, <1>2, <1>3, <1>4 DEF Sound

LEMMA LedgerPage == Sound(LedgerQueries, {}, {})
<1>1. KeysCover(LedgerQueries)
  BY QueryFields DEF KeysCover, LedgerQueries, ListQuery, Scope
<1>2. QED BY <1>1, ReadOnly

LEMMA WithdrawalRequestsListPage ==
  Sound(WithdrawalQueries \cup WithdrawalOptions, WithdrawalMutations, WithdrawalRows)
<1>1. KeysCover(WithdrawalQueries \cup WithdrawalOptions)
  BY QueryFields DEF KeysCover, WithdrawalQueries, WithdrawalOptions, ListQuery, Scope, AgentSelect
<1>2. RefreshesCover(WithdrawalQueries \cup WithdrawalOptions, WithdrawalMutations)
  BY ClosingFields, MutationFields, QueryFields, ChangesListed
     DEF RefreshesCover, WithdrawalQueries, WithdrawalOptions, ListQuery, Scope, AgentSelect,
         WithdrawalMutations, WithdrawalActs
<1>3. ClosesOwn(WithdrawalMutations)
  BY ClosingFields, MutationFields DEF ClosesOwn, WithdrawalMutations, WithdrawalActs
<1>4. ControlsRun(WithdrawalMutations, WithdrawalRows)
  BY BlockedByFields, ClosingFields, FromFields, MutationFields, RowControlFields
     DEF ControlsRun, WithdrawalMutations, WithdrawalActs, WithdrawalRows, ActionMode
<1>5. QED BY <1>1, <1>2, <1>3, <1>4 DEF Sound

LEMMA AuditPage == Sound(AuditQueries, {}, {})
<1>1. KeysCover(AuditQueries)
  BY QueryFields DEF KeysCover, AuditQueries
<1>2. QED BY <1>1, ReadOnly

LEMMA RiskCasesPage == Sound(RiskCasesQueries \cup RiskOptions, RiskMutations, RiskRows)
<1>1. KeysCover(RiskCasesQueries \cup RiskOptions)
  BY QueryFields DEF KeysCover, RiskCasesQueries, RiskOptions, ListQuery, Scope, AgentSelect
<1>2. RefreshesCover(RiskCasesQueries \cup RiskOptions, RiskMutations)
  BY MutationFields, QueryFields, ChangesListed
     DEF RefreshesCover, RiskCasesQueries, RiskOptions, ListQuery, Scope, AgentSelect, RiskMutations
<1>3. ClosesOwn(RiskMutations)
  BY MutationFields DEF ClosesOwn, RiskMutations
<1>4. ControlsRun(RiskMutations, RiskRows)
  BY FromFields, MutationFields, RowControlFields DEF ControlsRun, RiskMutations, RiskRows
<1>5. QED BY <1>1, <1>2, <1>3, <1>4 DEF Sound

LEMMA RiskIntelligencePage == Sound(RiskIntelligenceQueries, RiskMutations, {})
<1>1. KeysCover(RiskIntelligenceQueries)
  BY QueryFields DEF KeysCover, RiskIntelligenceQueries, ListQuery, Scope
<1>2. RefreshesCover(RiskIntelligenceQueries, RiskMutations)
  BY MutationFields, QueryFields, ChangesListed
     DEF RefreshesCover, RiskIntelligenceQueries, ListQuery, Scope, RiskMutations
<1>3. ClosesOwn(RiskMutations)
  BY MutationFields DEF ClosesOwn, RiskMutations
<1>4. QED BY <1>1, <1>2, <1>3 DEF Sound, ControlsRun

LEMMA RbacUsersPage ==
  Sound(RbacQueries \cup RbacUserOptions, RbacMutations, RbacUserRows \cup RbacUserDialogs)
<1>1. KeysCover(RbacQueries \cup RbacUserOptions)
  BY AskingFields, InsideFields, QueryFields
     DEF KeysCover, RbacQueries, RbacUserOptions, TenantSelect, BrandSelect, AgentOfFormSelect,
         SavesUser, ListQuery, FormParts
<1>2. RefreshesCover(RbacQueries \cup RbacUserOptions, RbacMutations)
  BY AskingFields, ClosingFields, InsideFields, MutationFields, QueryFields, ChangesListed
     DEF RefreshesCover, RbacQueries, RbacUserOptions, TenantSelect, BrandSelect, AgentOfFormSelect,
         SavesUser, ListQuery, FormParts, RbacMutations, Save, SavesRole
<1>3. ClosesOwn(RbacMutations)
  BY ClosingFields, MutationFields DEF ClosesOwn, RbacMutations, Save, SavesRole, SavesUser
<1>4. ControlsRun(RbacMutations, RbacUserRows \cup RbacUserDialogs)
  BY BlockedByFields, ClosingFields, ControlFields, MutationFields, RowControlFields
     DEF ControlsRun, RbacMutations, Save, SavesRole, SavesUser, RbacUserRows, RbacUserDialogs
<1>5. QED BY <1>1, <1>2, <1>3, <1>4 DEF Sound

LEMMA RbacRolesPage ==
  Sound(RbacQueries \cup RbacRoleOptions, RbacMutations, RbacRoleRows \cup RbacRoleDialogs)
<1>1. KeysCover(RbacQueries \cup RbacRoleOptions)
  BY AskingFields, InsideFields, QueryFields
     DEF KeysCover, RbacQueries, RbacRoleOptions, TenantSelect, BrandSelect, SavesRole, ListQuery
<1>2. RefreshesCover(RbacQueries \cup RbacRoleOptions, RbacMutations)
  BY AskingFields, ClosingFields, InsideFields, MutationFields, QueryFields, ChangesListed
     DEF RefreshesCover, RbacQueries, RbacRoleOptions, TenantSelect, BrandSelect, SavesRole,
         ListQuery, RbacMutations, Save, SavesUser
<1>3. ClosesOwn(RbacMutations)
  BY ClosingFields, MutationFields DEF ClosesOwn, RbacMutations, Save, SavesRole, SavesUser
<1>4. ControlsRun(RbacMutations, RbacRoleRows \cup RbacRoleDialogs)
  BY BlockedByFields, ClosingFields, ControlFields, MutationFields, RowControlFields
     DEF ControlsRun, RbacMutations, Save, SavesRole, SavesUser, RbacRoleRows, RbacRoleDialogs
<1>5. QED BY <1>1, <1>2, <1>3, <1>4 DEF Sound

LEMMA RbacPermissionsPage == Sound(RbacQueries, RbacMutations, {})
<1>1. KeysCover(RbacQueries)
  BY AskingFields, QueryFields DEF KeysCover, RbacQueries
<1>2. RefreshesCover(RbacQueries, RbacMutations)
  BY AskingFields, ClosingFields, MutationFields, QueryFields, ChangesListed
     DEF RefreshesCover, RbacQueries, RbacMutations, Save, SavesRole, SavesUser
<1>3. ClosesOwn(RbacMutations)
  BY ClosingFields, MutationFields DEF ClosesOwn, RbacMutations, Save, SavesRole, SavesUser
<1>4. QED BY <1>1, <1>2, <1>3 DEF Sound, ControlsRun

\* The report pages, whose lists depend on their path.
LEMMA ReportsPage ==
  ASSUME NEW path \in DOMAIN ReportQueries
  PROVE  Sound(ReportQueries[path] \cup ReportOptions[path], {}, {})
<1>1. \A query \in ReportQueries[path] : query.args = query.keyed
  <2>1. CASE path = "/reports/agent"
    BY <2>1, QueryFields DEF ReportQueries, ListQuery
  <2>2. CASE path = "/reports/team"
    BY <2>2, QueryFields DEF ReportQueries, ListQuery
  <2>3. CASE path = "/reports/settlement"
    BY <2>3, QueryFields DEF ReportQueries, ListQuery
  <2>4. CASE path = "/reports/progress"
    BY <2>4, QueryFields DEF ReportQueries, ListQuery
  <2>5. CASE path = "/reports/data-platform"
    BY <2>5, QueryFields DEF ReportQueries, ListQuery
  <2>6. QED BY <2>1, <2>2, <2>3, <2>4, <2>5 DEF ReportQueries
<1>2. \A query \in ReportOptions[path] : query.args = query.keyed
  BY QueryFields DEF ReportOptions, AgentSelect, ListQuery
<1>3. KeysCover(ReportQueries[path] \cup ReportOptions[path])
  BY <1>1, <1>2 DEF KeysCover
<1>4. QED BY <1>3, ReadOnly

\* Every page of the console has keys that cover the requests, calls that refresh what they
\* change and close their dialog, and controls that wait for their call.
LEMMA PagesSound ==
  ASSUME NEW p \in Pages
  PROVE  Sound(p.queries, p.mutations, p.controls)
<1>1. ASSUME NEW key, NEW queries, NEW mutations, NEW controls, NEW filters,
             p = Page(key, queries, mutations, controls, filters),
             Sound(queries, mutations, controls)
      PROVE  Sound(p.queries, p.mutations, p.controls)
  BY <1>1, PageFields
<1>2. QED BY <1>1, ReportsPage, DashboardPage, AgentsPage, InviteCodesPage, UsersPage, BindingsPage,
             BindingHistoryPage, AgentInviteApplicationsPage, TenantBrandTenantsPage,
             TenantBrandBrandsPage, PlatformConfigCenterPage, GamesPage, AgentGameAccessPage,
             RulesPage, ActivityRewardCenterRulesPage, ActivityRewardCenterRecordsPage, OrdersPage,
             CommissionsPage, SettlementBillsPage, RecalculationTasksPage, LedgerPage,
             WithdrawalRequestsListPage, AuditPage, RiskCasesPage, RiskIntelligencePage,
             RbacUsersPage, RbacRolesPage, RbacPermissionsPage
             DEF Pages


\* The sections of a component run the same mutations, and all but one of them stay where they
\* are; a dialog that holds lists is of one section, and no section has a form or a dialog that
\* guards its closing.
SharedKeys == UNION SharedRoutes
SharedMutations(key) ==
  CASE key \in {"/tenant-brand/tenants", "/tenant-brand/brands"} -> TenantBrandMutations
    [] key \in {"/activity-reward-center/rules", "/activity-reward-center/records"} -> RewardMutations
    [] key \in {"/withdrawal-requests/list", "/withdrawal-requests/process"} -> WithdrawalMutations
    [] key \in {"/risk/cases", "/risk/intelligence"} -> RiskMutations
    [] key \in DOMAIN ReportQueries -> {}
    [] key \in {"/rbac/users", "/rbac/roles", "/rbac/permissions"} -> RbacMutations
HostingActs == {"generateActivityRewardRecord", "createRbacUser", "updateRbacUser", "createRbacRole",
                "updateRbacRole"}
Hosts(key, act) ==
  \/ key = "/activity-reward-center/rules" /\ act = "generateActivityRewardRecord"
  \/ key = "/rbac/users" /\ act \in {"createRbacUser", "updateRbacUser"}
  \/ key = "/rbac/roles" /\ act \in {"createRbacRole", "updateRbacRole"}
Shares(key, queries, mutations, controls) ==
  key \in SharedKeys =>
    /\ mutations = SharedMutations(key)
    /\ \A query \in queries : query.inside = "page" \/ Hosts(key, query.inside)
    /\ \A control \in controls : /\ control.shape \notin {"form", "guarded"}
                                 /\ control.act \in HostingActs => Hosts(key, control.act)

LEMMA SharedMutationsListed ==
  /\ \A key \in {"/tenant-brand/tenants", "/tenant-brand/brands"} :
       SharedMutations(key) = TenantBrandMutations
  /\ \A key \in {"/activity-reward-center/rules", "/activity-reward-center/records"} :
       SharedMutations(key) = RewardMutations
  /\ \A key \in {"/withdrawal-requests/list", "/withdrawal-requests/process"} :
       SharedMutations(key) = WithdrawalMutations
  /\ \A key \in {"/risk/cases", "/risk/intelligence"} : SharedMutations(key) = RiskMutations
  /\ \A key \in {"/rbac/users", "/rbac/roles", "/rbac/permissions"} :
       SharedMutations(key) = RbacMutations
  /\ \A key \in DOMAIN ReportQueries : SharedMutations(key) = {}
<1>1. DOMAIN ReportQueries = {"/reports/agent", "/reports/team", "/reports/settlement",
                              "/reports/progress", "/reports/data-platform"}
  BY DEF ReportQueries
<1>2. QED BY <1>1 DEF SharedMutations

\* A page without controls, and without lists in a dialog.
LEMMA SharesNothing ==
  ASSUME NEW key, NEW queries, \A query \in queries : query.inside = "page"
  PROVE  Shares(key, queries, SharedMutations(key), {})
  BY DEF Shares

\* The sections, one lemma each.
LEMMA TenantBrandTenantsShares ==
  Shares("/tenant-brand/tenants", TenantsQueries, TenantBrandMutations, TenantsRows \cup TenantsDialogs)
<1>1. \A query \in TenantsQueries : query.inside = "page"
  BY AskingFields, QueryFields DEF TenantsQueries, ListQuery
<1>2. \A control \in TenantsRows \cup TenantsDialogs :
        control.shape \notin {"form", "guarded"} /\ control.act \notin HostingActs
  BY BlockedByFields, ControlFields, RowControlFields
     DEF TenantsRows, TenantsDialogs, Unblocked, HostingActs
<1>3. QED BY <1>1, <1>2, SharedMutationsListed DEF Shares

LEMMA TenantBrandBrandsShares ==
  Shares("/tenant-brand/brands", BrandsQueries, TenantBrandMutations, BrandsRows \cup BrandsDialogs)
<1>1. \A query \in BrandsQueries : query.inside = "page"
  BY AskingFields, QueryFields DEF BrandsQueries, TenantsQueries, ListQuery
<1>2. \A control \in BrandsRows \cup BrandsDialogs :
        control.shape \notin {"form", "guarded"} /\ control.act \notin HostingActs
  BY BlockedByFields, ControlFields, RowControlFields
     DEF BrandsRows, BrandsDialogs, Unblocked, HostingActs
<1>3. QED BY <1>1, <1>2, SharedMutationsListed DEF Shares

LEMMA ActivityRewardCenterRulesShares ==
  Shares("/activity-reward-center/rules", RewardRulesQueries \cup RewardOptions, RewardMutations,
         RewardRulesRows \cup RewardDialogs)
<1>1. \A query \in RewardRulesQueries \cup RewardOptions :
        query.inside \in {"page", "generateActivityRewardRecord"}
  BY InsideFields, QueryFields DEF RewardRulesQueries, RewardOptions, AgentSelect, ListQuery
<1>2. \A control \in RewardRulesRows \cup RewardDialogs :
        /\ control.shape = "button" \/ control.shape = "dialog"
        /\ control.act \in {"updateActivityRewardRuleStatus", "generateActivityRewardRecord",
                            "createActivityRewardRule"}
  BY FromFields, ControlFields, RowControlFields DEF RewardRulesRows, RewardDialogs
<1>3. QED BY <1>1, <1>2, SharedMutationsListed DEF Shares, Hosts, HostingActs

LEMMA ActivityRewardCenterRecordsShares ==
  Shares("/activity-reward-center/records", RewardRecordsQueries, RewardMutations, RewardRecordsRows)
<1>1. \A query \in RewardRecordsQueries : query.inside = "page"
  BY QueryFields DEF RewardRecordsQueries, ListQuery
<1>2. \A control \in RewardRecordsRows :
        control.shape = "dialog" /\ control.act \notin HostingActs
  BY FromFields, RowControlFields DEF RewardRecordsRows, HostingActs
<1>3. QED BY <1>1, <1>2, SharedMutationsListed DEF Shares

LEMMA WithdrawalRequestsShare ==
  ASSUME NEW key \in {"/withdrawal-requests/list", "/withdrawal-requests/process"}
  PROVE  Shares(key, WithdrawalQueries \cup WithdrawalOptions, WithdrawalMutations, WithdrawalRows)
<1>1. \A query \in WithdrawalQueries \cup WithdrawalOptions : query.inside = "page"
  BY QueryFields DEF WithdrawalQueries, WithdrawalOptions, AgentSelect, ListQuery
<1>2. \A control \in WithdrawalRows :
        control.shape = "dialog" /\ control.act \notin HostingActs
  BY BlockedByFields, FromFields, RowControlFields DEF WithdrawalRows, ActionMode, HostingActs
<1>3. QED BY <1>1, <1>2, SharedMutationsListed DEF Shares

LEMMA RiskCasesShares ==
  Shares("/risk/cases", RiskCasesQueries \cup RiskOptions, RiskMutations, RiskRows)
<1>1. \A query \in RiskCasesQueries \cup RiskOptions : query.inside = "page"
  BY QueryFields DEF RiskCasesQueries, RiskOptions, AgentSelect, ListQuery
<1>2. \A control \in RiskRows : control.shape = "dialog" /\ control.act \notin HostingActs
  BY FromFields, RowControlFields DEF RiskRows, HostingActs
<1>3. QED BY <1>1, <1>2, SharedMutationsListed DEF Shares

LEMMA RiskIntelligenceShares ==
  Shares("/risk/intelligence", RiskIntelligenceQueries, RiskMutations, {})
<1>1. \A query \in RiskIntelligenceQueries : query.inside = "page"
  BY QueryFields DEF RiskIntelligenceQueries, ListQuery
<1>2. QED BY <1>1, SharesNothing, SharedMutationsListed

LEMMA RbacUsersShares ==
  Shares("/rbac/users", RbacQueries \cup RbacUserOptions, RbacMutations,
         RbacUserRows \cup RbacUserDialogs)
<1>1. \A query \in RbacQueries \cup RbacUserOptions : query.inside = "page" \/ query.inside \in SavesUser
  BY AskingFields, InsideFields, QueryFields
     DEF RbacQueries, RbacUserOptions, TenantSelect, BrandSelect, AgentOfFormSelect, ListQuery
<1>2. \A control \in RbacUserRows \cup RbacUserDialogs :
        /\ control.shape = "dialog" \/ control.shape = "confirm"
        /\ control.act \in SavesUser \cup {"deleteRbacUser"}
  BY BlockedByFields, ControlFields, RowControlFields DEF RbacUserRows, RbacUserDialogs, SavesUser
<1>3. QED BY <1>1, <1>2, SharedMutationsListed DEF Shares, Hosts, HostingActs, SavesUser

LEMMA RbacRolesShares ==
  Shares("/rbac/roles", RbacQueries \cup RbacRoleOptions, RbacMutations,
         RbacRoleRows \cup RbacRoleDialogs)
<1>1. \A query \in RbacQueries \cup RbacRoleOptions : query.inside = "page" \/ query.inside \in SavesRole
  BY AskingFields, InsideFields, QueryFields
     DEF RbacQueries, RbacRoleOptions, TenantSelect, BrandSelect, ListQuery
<1>2. \A control \in RbacRoleRows \cup RbacRoleDialogs :
        /\ control.shape = "dialog" \/ control.shape = "confirm"
        /\ control.act \in SavesRole \cup {"deleteRbacRole"}
  BY BlockedByFields, ControlFields, RowControlFields DEF RbacRoleRows, RbacRoleDialogs, SavesRole
<1>3. QED BY <1>1, <1>2, SharedMutationsListed DEF Shares, Hosts, HostingActs, SavesRole

LEMMA RbacPermissionsShares == Shares("/rbac/permissions", RbacQueries, RbacMutations, {})
<1>1. \A query \in RbacQueries : query.inside = "page"
  BY AskingFields, QueryFields DEF RbacQueries
<1>2. QED BY <1>1, SharesNothing, SharedMutationsListed

LEMMA ReportsShare ==
  ASSUME NEW path \in DOMAIN ReportQueries
  PROVE  Shares(path, ReportQueries[path] \cup ReportOptions[path], {}, {})
<1>1. \A query \in ReportQueries[path] : query.inside = "page"
  <2>1. CASE path = "/reports/agent"
    BY <2>1, QueryFields DEF ReportQueries, ListQuery
  <2>2. CASE path = "/reports/team"
    BY <2>2, QueryFields DEF ReportQueries, ListQuery
  <2>3. CASE path = "/reports/settlement"
    BY <2>3, QueryFields DEF ReportQueries, ListQuery
  <2>4. CASE path = "/reports/progress"
    BY <2>4, QueryFields DEF ReportQueries, ListQuery
  <2>5. CASE path = "/reports/data-platform"
    BY <2>5, QueryFields DEF ReportQueries, ListQuery
  <2>6. QED BY <2>1, <2>2, <2>3, <2>4, <2>5 DEF ReportQueries
<1>2. \A query \in ReportOptions[path] : query.inside = "page"
  BY QueryFields DEF ReportOptions, AgentSelect, ListQuery
<1>3. QED BY <1>1, <1>2, SharesNothing, SharedMutationsListed

\* The paths that are a component's of their own.
LEMMA OthersAlone ==
  /\ Shares("/", DashboardQueries, {}, {})
  /\ Shares("/agents", AgentsQueries, AgentsMutations, AgentsRows \cup AgentsDialogs)
  /\ Shares("/invite-codes", InviteCodesQueries \cup InviteCodesOptions, InviteCodesMutations,
            InviteCodesDialogs)
  /\ Shares("/users", UsersQueries, {}, {})
  /\ Shares("/bindings", BindingsQueries, BindingsMutations, BindingsForms)
  /\ Shares("/binding-history", BindingHistoryQueries, {}, {})
  /\ Shares("/agent-invite-applications", ApplicationsQueries \cup ApplicationsOptions,
            ApplicationsMutations, ApplicationsRows \cup ApplicationsForms)
  /\ Shares("/platform-config-center", ConfigQueries, ConfigMutations, ConfigDialogs)
  /\ Shares("/games", GamesQueries, GamesMutations,
            GamesRows \cup GamesDialogs \cup GamesCredentials)
  /\ Shares("/agent-game-access", AccessQueries \cup AccessOptions, AccessMutations,
            AccessRows \cup AccessForms)
  /\ Shares("/rules", RulesQueries \cup RulesOptions, RulesMutations, RulesRows \cup RulesDialogs)
  /\ Shares("/orders", OrdersQueries, OrdersMutations, OrdersRows)
  /\ Shares("/commissions", CommissionsQueries, {}, {})
  /\ Shares("/settlement-bills", BillsQueries, BillsMutations, BillsRows)
  /\ Shares("/recalculation-tasks", TasksQueries \cup TasksOptions, TasksMutations, TasksForms)
  /\ Shares("/ledger", LedgerQueries, {}, {})
  /\ Shares("/audit", AuditQueries, {}, {})
<1>1. \A key \in {"/", "/agents", "/invite-codes", "/users", "/bindings", "/binding-history",
                  "/agent-invite-applications", "/platform-config-center", "/games",
                  "/agent-game-access", "/rules", "/orders", "/commissions",
                  "/settlement-bills", "/recalculation-tasks", "/ledger", "/audit"} :
        key \notin SharedKeys
  BY DEF SharedKeys, SharedRoutes, ReportQueries
<1>2. QED BY <1>1 DEF Shares

LEMMA PagesShare ==
  ASSUME NEW p \in Pages
  PROVE  Shares(p.key, p.queries, p.mutations, p.controls)
<1>1. ASSUME NEW key, NEW queries, NEW mutations, NEW controls, NEW filters,
             p = Page(key, queries, mutations, controls, filters),
             Shares(key, queries, mutations, controls)
      PROVE  Shares(p.key, p.queries, p.mutations, p.controls)
  BY <1>1, PageFields
<1>2. /\ Shares("/withdrawal-requests/list", WithdrawalQueries \cup WithdrawalOptions,
                WithdrawalMutations, WithdrawalRows)
      /\ Shares("/withdrawal-requests/process", WithdrawalQueries \cup WithdrawalOptions,
                WithdrawalMutations, WithdrawalRows)
  BY WithdrawalRequestsShare
<1>3. QED BY <1>1, OthersAlone, TenantBrandTenantsShares, TenantBrandBrandsShares,
             ActivityRewardCenterRulesShares, ActivityRewardCenterRecordsShares,
             <1>2, RiskCasesShares, RiskIntelligenceShares, RbacUsersShares,
             RbacRolesShares, RbacPermissionsShares, ReportsShare
             DEF Pages

\* Every path is that of one page.
LEMMA OnePage ==
  ASSUME NEW p \in Pages, NEW q \in Pages, p.key = q.key
  PROVE  p = q
  BY PageFields DEF Pages, ReportQueries

\* A page without shared sections is its only one; shared sections run the same mutations.
LEMMA SectionsListed ==
  ASSUME NEW p \in Pages
  PROVE  /\ p \in Sections(p)
         /\ \A section \in Sections(p) :
              /\ section \in Pages
              /\ \/ section = p
                 \/ /\ section.key \in SharedKeys /\ p.key \in SharedKeys
                    /\ SharedMutations(section.key) = SharedMutations(p.key)
<1>1. p \in Sections(p)
  BY DEF Sections
<1>2. ASSUME NEW section \in Sections(p), section.key = p.key PROVE section = p
  BY <1>2, OnePage DEF Sections
<1>3. ASSUME NEW section \in Sections(p), section.key # p.key
      PROVE  /\ section.key \in SharedKeys /\ p.key \in SharedKeys
             /\ SharedMutations(section.key) = SharedMutations(p.key)
  <2>1. PICK routes \in SharedRoutes : p.key \in routes /\ section.key \in routes
    BY <1>3 DEF Sections
  <2>2. SharedMutations(section.key) = SharedMutations(p.key)
    BY <2>1, SharedMutationsListed DEF SharedRoutes
  <2>3. QED BY <2>1, <2>2 DEF SharedKeys
<1>4. \A section \in Sections(p) : section \in Pages
  BY DEF Sections
<1>5. QED BY <1>1, <1>2, <1>3, <1>4

LEMMA SectionMutations ==
  ASSUME NEW p \in Pages, NEW section \in Sections(p)
  PROVE  section \in Pages /\ section.mutations = p.mutations
<1>1. section \in Pages
  BY SectionsListed
<1>2. CASE section.key \in SharedKeys /\ p.key \in SharedKeys
             /\ SharedMutations(section.key) = SharedMutations(p.key)
  <2>1. section.mutations = SharedMutations(section.key)
    BY <1>1, <1>2, PagesShare DEF Shares
  <2>2. p.mutations = SharedMutations(p.key)
    BY <1>2, PagesShare DEF Shares
  <2>3. QED BY <1>1, <1>2, <2>1, <2>2
<1>3. QED BY <1>1, <1>2, SectionsListed

\* What holds of every page holds of the controls of all its sections.
LEMMA SectionsSound ==
  ASSUME NEW p \in Pages
  PROVE  Sound(p.queries, p.mutations, ControlsOf(p))
<1>1. Sound(p.queries, p.mutations, p.controls)
  BY PagesSound
<1>2. CASE p.key \notin SharedKeys
  <2>1. \A section \in Sections(p) : section = p
    BY <1>2, SectionsListed
  <2>2. ControlsOf(p) = p.controls
    BY <2>1, SectionsListed DEF ControlsOf
  <2>3. QED BY <1>1, <2>2
<1>3. CASE p.key \in SharedKeys
  <2>1. ASSUME NEW control \in ControlsOf(p)
        PROVE  /\ control.shape # "viewer" => \E mutation \in p.mutations : mutation.call = control.act
               /\ control.shape \in {"dialog", "guarded", "form"} => control.act \in control.blockedBy
               /\ control.act # "page"
               /\ control.inside # "page" => control.shape \in {"button", "confirm"}
               /\ control.shape \notin {"form", "guarded"}
    <3>1. PICK section \in Sections(p) : control \in section.controls
      BY <2>1 DEF ControlsOf
    <3>2. section \in Pages /\ section.mutations = p.mutations /\ section.key \in SharedKeys
      BY <1>3, SectionMutations, SectionsListed
    <3>3. ControlsRun(p.mutations, section.controls)
      BY <3>2, PagesSound DEF Sound
    <3>4. control.shape \notin {"form", "guarded"}
      BY <3>1, <3>2, PagesShare DEF Shares
    <3>5. QED BY <3>1, <3>3, <3>4 DEF ControlsRun
  <2>2. ControlsRun(p.mutations, ControlsOf(p))
    BY <2>1 DEF ControlsRun
  <2>3. QED BY <1>1, <2>2 DEF Sound
<1>4. QED BY <1>2, <1>3

\* A list in a dialog is of the section whose dialog it is.
LEMMA HostedAtHome ==
  ASSUME NEW p \in Pages, NEW section \in Sections(p), NEW control \in section.controls,
         NEW query \in p.queries, query.inside # "page", control.act = query.inside
  PROVE  section = p
<1>1. CASE section.key \in SharedKeys /\ p.key \in SharedKeys
  <2>1. section \in Pages
    BY SectionsListed
  <2>2. Hosts(p.key, query.inside)
    BY <1>1, PagesShare DEF Shares
  <2>3. control.act \in HostingActs
    BY <2>2 DEF Hosts, HostingActs
  <2>4. Hosts(section.key, control.act)
    BY <1>1, <2>1, <2>3, PagesShare DEF Shares
  <2>5. section.key = p.key
    BY <2>2, <2>4 DEF Hosts
  <2>6. QED BY <2>1, <2>5, OnePage
<1>2. QED BY <1>1, SectionsListed

\* Only the reward of an activity goes anywhere: to the records, from either section.
Remains(mutations) == \A mutation \in mutations : mutation.goes = Stays
GoesOn(key, mutations) ==
  \/ Remains(mutations)
  \/ /\ key \in {"/activity-reward-center/rules", "/activity-reward-center/records"}
     /\ \A mutation \in mutations :
          mutation.goes # Stays => mutation.goes = "/activity-reward-center/records"

LEMMA MutationsGoOn ==
  /\ Remains({})
  /\ Remains(AgentsMutations) /\ Remains(InviteCodesMutations) /\ Remains(BindingsMutations)
  /\ Remains(ApplicationsMutations) /\ Remains(TenantBrandMutations) /\ Remains(ConfigMutations)
  /\ Remains(GamesMutations) /\ Remains(AccessMutations) /\ Remains(RulesMutations)
  /\ Remains(OrdersMutations) /\ Remains(BillsMutations) /\ Remains(TasksMutations)
  /\ Remains(WithdrawalMutations) /\ Remains(RiskMutations) /\ Remains(RbacMutations)
  /\ GoesOn("/activity-reward-center/rules", RewardMutations)
  /\ GoesOn("/activity-reward-center/records", RewardMutations)
<1>1. Remains({}) /\ Remains(AgentsMutations) /\ Remains(InviteCodesMutations)
  BY MutationFields DEF Remains, AgentsMutations, InviteCodesMutations
<1>2. Remains(BindingsMutations) /\ Remains(ApplicationsMutations)
  BY MutationFields DEF Remains, BindingsMutations, ApplicationsMutations
<1>3. Remains(TenantBrandMutations)
  BY MutationFields, ClearingFields
     DEF Remains, TenantBrandMutations, TenantMutations, BrandMutations
<1>4. Remains(ConfigMutations) /\ Remains(WithdrawalMutations)
  BY MutationFields, ClosingFields DEF Remains, ConfigMutations, WithdrawalMutations
<1>5. Remains(GamesMutations)
  BY MutationFields, ClosingSameRowFields, RefetchingFields DEF Remains, GamesMutations
<1>6. Remains(AccessMutations) /\ Remains(RulesMutations) /\ Remains(OrdersMutations)
  BY MutationFields DEF Remains, AccessMutations, RulesMutations, OrdersMutations
<1>7. Remains(BillsMutations) /\ Remains(TasksMutations) /\ Remains(RiskMutations)
  BY MutationFields, RefetchingFields DEF Remains, BillsMutations, TasksMutations, RiskMutations
<1>8. Remains(RbacMutations)
  BY MutationFields, ClosingFields DEF Remains, RbacMutations, Save
<1>9. /\ GoesOn("/activity-reward-center/rules", RewardMutations)
      /\ GoesOn("/activity-reward-center/records", RewardMutations)
  BY MutationFields, GoingToFields DEF GoesOn, RewardMutations
<1>10. QED BY <1>1, <1>2, <1>3, <1>4, <1>5, <1>6, <1>7, <1>8, <1>9

LEMMA PagesGoOn ==
  ASSUME NEW p \in Pages
  PROVE  GoesOn(p.key, p.mutations)
<1>1. ASSUME NEW key, NEW queries, NEW mutations, NEW controls, NEW filters,
             p = Page(key, queries, mutations, controls, filters),
             Remains(mutations) \/ GoesOn(key, mutations)
      PROVE  GoesOn(p.key, p.mutations)
  BY <1>1, PageFields DEF GoesOn
<1>2. QED BY <1>1, MutationsGoOn DEF Pages

\* A mutation that goes to a section goes to one of the page, which has no form.
LEMMA TargetListed ==
  ASSUME NEW p \in Pages, NEW mutation \in p.mutations, mutation.goes # Stays
  PROVE  LET target == CHOOSE section \in Pages : section.key = mutation.goes
         IN  /\ target \in Sections(p)
             /\ target.key = "/activity-reward-center/records"
             /\ p.key \in {"/activity-reward-center/rules", "/activity-reward-center/records"}
             /\ \A control \in ControlsOf(p) : control.shape # "form"
<1>1. /\ p.key \in {"/activity-reward-center/rules", "/activity-reward-center/records"}
      /\ mutation.goes = "/activity-reward-center/records"
  BY PagesGoOn DEF GoesOn, Remains
<1>2. \E section \in Pages : section.key = "/activity-reward-center/records"
  BY PageFields DEF Pages
<1> DEFINE target == CHOOSE section \in Pages : section.key = mutation.goes
<1>3. target \in Pages /\ target.key = "/activity-reward-center/records"
  BY <1>1, <1>2
<1>4. target \in Sections(p)
  BY <1>1, <1>3 DEF Sections, SharedRoutes
<1>5. p.key \in SharedKeys
  BY <1>1 DEF SharedKeys, SharedRoutes
<1>6. ASSUME NEW control \in ControlsOf(p) PROVE control.shape # "form"
  <2>1. PICK section \in Sections(p) : control \in section.controls
    BY <1>6 DEF ControlsOf
  <2>2. section \in Pages /\ section.key \in SharedKeys
    BY <1>5, SectionsListed
  <2>3. QED BY <2>1, <2>2, PagesShare DEF Shares
<1>7. QED BY <1>1, <1>3, <1>4, <1>6

-----------------------------------------------------------------------------
\* Permissions: what the console finds among somebody's codes, and what the server allows with
\* the same codes.

\* The console finds a permission among those of the codes.
Holds(codes, permission) == permission \in NormalizePermissions(codes) \cup {Anyone}
Gap(key, call) == <<key, call>> \in KnownGaps

\* The calls that need a code.
LEMMA RequirementsListed ==
  ASSUME NEW r \in Requirements, NEW call \in r[2]
  PROVE  \/ r[1] = "agent:read" /\ call \in {"listAgents", "listAgentInviteApplications"}
         \/ r[1] = "agent:write"
               /\ call \in {"createAgent", "updateAgentStatus", "createAgentInviteApplication",
                            "auditAgentInviteApplication"}
         \/ r[1] = "tenant:read" /\ call = "listTenants"
         \/ r[1] = "tenant:write" /\ call \in {"createTenant", "updateTenantStatus", "deleteTenant"}
         \/ r[1] = "brand:read" /\ call = "listBrands"
         \/ r[1] = "brand:write" /\ call \in {"createBrand", "updateBrandStatus", "deleteBrand"}
         \/ r[1] = "platform_config:read" /\ call = "listPlatformConfigs"
         \/ r[1] = "platform_config:write" /\ call \in {"createPlatformConfig", "updatePlatformConfig"}
         \/ r[1] = "invite_code:manage" /\ call \in {"listInviteCodes", "createInviteCode"}
         \/ r[1] = "player:read" /\ call = "listPlayers"
         \/ r[1] = "binding:manage" /\ call \in {"listBindings", "createBinding", "listBindingHistory"}
         \/ r[1] = "game:read" /\ call = "listGames"
         \/ r[1] = "game:write"
               /\ call \in {"createGame", "updateGame", "deleteGame", "listGameIntegrationKeys",
                            "rotateGameIntegrationKey"}
         \/ r[1] = "game:publish" /\ call = "updateGameStatus"
         \/ r[1] = "agent_game_access:read" /\ call = "listAgentGameAccess"
         \/ r[1] = "agent_game_access:write"
               /\ call \in {"upsertAgentGameAccess", "deleteAgentGameAccess"}
         \/ r[1] = "rule:read" /\ call = "listRules"
         \/ r[1] = "rule:write" /\ call = "createRule"
         \/ r[1] = "rule:publish" /\ call = "publishRule"
         \/ r[1] = "activity_reward:read"
               /\ call \in {"listActivityRewardRules", "listActivityRewardRecords"}
         \/ r[1] = "activity_reward:write"
               /\ call \in {"createActivityRewardRule", "generateActivityRewardRecord"}
         \/ r[1] = "activity_reward:publish"
               /\ call \in {"updateActivityRewardRuleStatus", "reverseActivityRewardRecord"}
         \/ r[1] = "settlement:read" /\ call \in {"listOrders", "listCommissions", "listLedger"}
         \/ r[1] = "settlement:execute" /\ call = "updateOrderProfitFacts"
         \/ r[1] = "settlement_bill:read" /\ call = "listSettlementBills"
         \/ r[1] = "settlement_bill:confirm" /\ call = "confirmSettlementBill"
         \/ r[1] = "settlement_bill:export" /\ call = "exportSettlementBill"
         \/ r[1] = "recalculation_task:read" /\ call = "listRecalculationTasks"
         \/ r[1] = "recalculation_task:create" /\ call = "createRecalculationTask"
         \/ r[1] = "withdrawal:read" /\ call = "listWithdrawalRequests"
         \/ r[1] = "withdrawal:execute" /\ call \in WithdrawalActs
         \/ r[1] = "audit:read" /\ call = "listAuditLogs"
         \/ r[1] = "risk:read" /\ call \in {"listRiskCases", "listRiskIntelligence", "reviewRiskCase"}
         \/ r[1] = "report:read"
               /\ call \in {"listAgentPerformanceReport", "listTeamPerformanceReport",
                            "listGameSettlementReport", "listSettlementProgressReport",
                            "listDataPlatformLayers", "listDataPlatformMetrics"}
         \/ r[1] = "rbac:permissions:view" /\ call = "listRbacPermissions"
         \/ r[1] = "rbac:roles:view" /\ call = "listRbacRoles"
         \/ r[1] = "rbac:users:view" /\ call = "listRbacUsers"
         \/ r[1] = "rbac:roles:write" /\ call \in SavesRole \cup {"deleteRbacRole"}
         \/ r[1] = "rbac:users:write" /\ call \in SavesUser \cup {"deleteRbacUser"}
  BY DEF Requirements

\* The codes that roles consist of.
LEMMA CodesListed ==
  RouteCodes \subseteq
    {"agent:read", "agent:write", "tenant:read", "tenant:write", "brand:read", "brand:write",
     "platform_config:read", "platform_config:write", "invite_code:manage", "player:read",
     "binding:manage", "game:read", "game:write", "game:publish", "agent_game_access:read",
     "agent_game_access:write", "rule:read", "rule:write", "rule:publish", "activity_reward:read",
     "activity_reward:write", "activity_reward:publish", "settlement:read", "settlement:execute",
     "settlement_bill:read", "settlement_bill:confirm", "settlement_bill:export",
     "recalculation_task:read", "recalculation_task:create", "withdrawal:read", "withdrawal:execute",
     "audit:read", "risk:read", "report:read", "rbac:permissions:view", "rbac:roles:view",
     "rbac:users:view", "rbac:roles:write", "rbac:users:write", "player:write", "risk:write",
     "dashboard:view"}
  BY DEF RouteCodes, Requirements

\* What a permission of the console is good for: the calls that everybody may make who holds
\* it.
GoodFor(permission, call) ==
  \/ permission = "agents:view" /\ call = "listAgents"
  \/ permission = "agents:create" /\ call = "createAgent"
  \/ permission = "agents:status:update" /\ call = "updateAgentStatus"
  \/ permission = "tenants:view" /\ call = "listTenants"
  \/ permission = "tenants:create" /\ call \in {"createTenant", "updateTenantStatus"}
  \/ permission = "tenants:status:update" /\ call = "updateTenantStatus"
  \/ permission = "tenants:delete" /\ call = "deleteTenant"
  \/ permission = "brands:view" /\ call = "listBrands"
  \/ permission = "brands:create" /\ call \in {"createBrand", "updateBrandStatus"}
  \/ permission = "brands:status:update" /\ call = "updateBrandStatus"
  \/ permission = "brands:delete" /\ call = "deleteBrand"
  \/ permission = "invite-codes:view" /\ call = "listInviteCodes"
  \/ permission = "invite-codes:create" /\ call = "createInviteCode"
  \/ permission = "users:view" /\ call = "listPlayers"
  \/ permission = "bindings:view" /\ call \in {"listBindings", "createBinding"}
  \/ permission = "binding-history:view" /\ call = "listBindingHistory"
  \/ permission = "games:view" /\ call = "listGames"
  \/ permission = "games:create" /\ call = "createGame"
  \/ permission = "games:update"
        /\ call \in {"updateGame", "listGameIntegrationKeys", "rotateGameIntegrationKey"}
  \/ permission = "games:delete" /\ call = "deleteGame"
  \/ permission = "games:status:update" /\ call = "updateGameStatus"
  \/ permission = "agent-game-access:view" /\ call = "listAgentGameAccess"
  \/ permission = "rules:view" /\ call = "listRules"
  \/ permission = "rules:create" /\ call = "createRule"
  \/ permission = "rules:publish" /\ call = "publishRule"
  \/ permission = "activity-rewards:view"
        /\ call \in {"listActivityRewardRules", "listActivityRewardRecords"}
  \/ permission = "activity-rewards:create"
        /\ call \in {"createActivityRewardRule", "generateActivityRewardRecord"}
  \/ permission = "activity-rewards:status:update"
        /\ call \in {"updateActivityRewardRuleStatus", "reverseActivityRewardRecord"}
  \/ permission = "orders:view" /\ call = "listOrders"
  \/ permission = "commissions:view" /\ call = "listCommissions"
  \/ permission = "ledger:view" /\ call = "updateOrderProfitFacts"
  \/ permission = "withdrawal-requests:view" /\ call = "listWithdrawalRequests"
  \/ permission = "withdrawal-requests:audit"
        /\ call \in {"auditWithdrawalRequest", "processWithdrawalPayout"}
  \/ permission = "settlement-bills:view" /\ call = "listSettlementBills"
  \/ permission = "settlement-bills:export" /\ call = "exportSettlementBill"
  \/ permission = "settlement-bills:confirm" /\ call = "confirmSettlementBill"
  \/ permission = "recalculation-tasks:view" /\ call = "listRecalculationTasks"
  \/ permission = "recalculation-tasks:create" /\ call = "createRecalculationTask"
  \/ permission = "audit:view" /\ call = "listAuditLogs"
  \/ permission = "platform-configs:view" /\ call = "listPlatformConfigs"
  \/ permission = "platform-configs:write"
        /\ call \in {"createPlatformConfig", "updatePlatformConfig"}
  \/ permission = "report:view"
        /\ call \in {"listAgentPerformanceReport", "listTeamPerformanceReport",
                     "listGameSettlementReport", "listSettlementProgressReport",
                     "listDataPlatformLayers", "listDataPlatformMetrics"}
  \/ permission = "rbac:permissions:view" /\ call = "listRbacPermissions"
  \/ permission = "rbac:users:view" /\ call = "listRbacUsers"
  \/ permission = "rbac:users:write"
        /\ call \in {"createRbacUser", "updateRbacUser", "deleteRbacUser"}
  \/ permission = "rbac:roles:view" /\ call = "listRbacRoles"
  \/ permission = "rbac:roles:write"
        /\ call \in {"createRbacRole", "updateRbacRole", "deleteRbacRole"}

LEMMA Allowed ==
  ASSUME NEW codes \in SUBSET RouteCodes, NEW permission, NEW call,
         Holds(codes, permission), GoodFor(permission, call)
  PROVE  MayCall(codes, call)
<1>1. call # "dashboard" /\ permission # Anyone
  BY DEF GoodFor, Anyone
<1>2. SUFFICES ASSUME NEW r \in Requirements, call \in r[2] PROVE r[1] \in codes
  BY <1>1 DEF MayCall
<1>3. PICK code \in codes, m \in Metas : m[1] = code /\ m[2] = permission
  BY <1>1 DEF Holds, NormalizePermissions, FrontendPermissions
<1>4. code = r[1]
  BY <1>2, <1>3, CodesListed, RequirementsListed
     DEF Metas, GoodFor, WithdrawalActs, SavesRole, SavesUser
<1>5. QED BY <1>3, <1>4

\* Two calls that need no permission of their own.
LEMMA AllowedBesides ==
  ASSUME NEW codes
  PROVE  /\ MayCall(codes, "listEnumDictionaries")
         /\ MayCall(codes, "listRiskCases") => MayCall(codes, "reviewRiskCase")
<1>1. MayCall(codes, "listEnumDictionaries")
  BY RequirementsListed DEF MayCall, WithdrawalActs, SavesRole, SavesUser
<1>2. ASSUME MayCall(codes, "listRiskCases") PROVE MayCall(codes, "reviewRiskCase")
  <2>1. <<"risk:read", {"listRiskCases", "listRiskIntelligence", "reviewRiskCase"}>> \in Requirements
    BY DEF Requirements
  <2>2. "risk:read" \in codes
    BY <1>2, <2>1 DEF MayCall
  <2>3. QED BY <2>2, RequirementsListed DEF MayCall, WithdrawalActs, SavesRole, SavesUser
<1>3. QED BY <1>1, <1>2

\* The gaps, one by one.
LEMMA GapsListed ==
  /\ \A key \in {"/agent-game-access", "/agent-invite-applications", "/invite-codes", "/rules",
                 "/recalculation-tasks", "/withdrawal-requests/list",
                 "/withdrawal-requests/process", "/activity-reward-center/rules",
                 "/reports/agent", "/reports/team", "/risk/cases", "/rbac/users"} :
       Gap(key, "listAgents")
  /\ \A key \in {"/agent-game-access", "/rules"} : Gap(key, "listGames")
  /\ Gap("/", "dashboard")
  /\ Gap("/bindings", "listPlayers")
  /\ Gap("/ledger", "listLedger")
  /\ Gap("/agent-invite-applications", "listAgentInviteApplications")
  /\ Gap("/risk/cases", "listRiskCases")
  /\ Gap("/risk/intelligence", "listRiskIntelligence")
  /\ Gap("/withdrawal-requests/process", "listWithdrawalRequests")
  /\ \A key \in {"/rbac/users", "/rbac/permissions"} : Gap(key, "listRbacRoles")
  /\ \A key \in {"/rbac/users", "/rbac/roles"} : Gap(key, "listRbacPermissions")
  /\ Gap("/agent-game-access", "upsertAgentGameAccess")
  /\ Gap("/agent-game-access", "deleteAgentGameAccess")
  /\ Gap("/agent-invite-applications", "createAgentInviteApplication")
  /\ Gap("/agent-invite-applications", "auditAgentInviteApplication")
  /\ Gap("/games", "rotateGameIntegrationKey")
  /\ Gap("/settlement-bills", "exportSettlementBill")
  BY DEF Gap, KnownGaps, OptionGaps, ListGaps, ControlGaps, StatusGaps

\* A call of a page is covered by what opens the page, or by what is asked for it, or it is a gap,
\* or it needs no permission.
Covered(key, opens, asks, call) ==
  GoodFor(opens, call) \/ GoodFor(asks, call) \/ Gap(key, call) \/ call = "listEnumDictionaries"

\* Every list is covered by what opens the page, by what it asks for itself, or by what opens
\* the dialog it lives in; every control by what opens the page and what it asks for, or it works
\* on the rows of a list that asks for as much.
QueriesCovered(key, opens, queries, controls) ==
  \A query \in queries :
    \/ Covered(key, opens, query.asks, query.call)
    \/ /\ query.inside # "page"
       /\ \A control \in controls : control.act = query.inside => GoodFor(control.asks, query.call)
ControlsCovered(key, opens, queries, controls) ==
  \A control \in controls :
    \/ control.shape = "viewer"
    \/ Covered(key, opens, control.asks, control.act)
    \/ /\ control.act = "reviewRiskCase"
       /\ \E query \in queries : query.root = control.row /\ query.call = "listRiskCases"

\* A call for which the status of the row matters is offered for statuses it accepts.
StatusesCovered(key, controls) ==
  \A control \in controls : control.act \in DOMAIN AcceptedStatuses =>
    \/ control.from # {} /\ control.from \subseteq AcceptedStatuses[control.act]
    \/ Gap(key, control.act)

\* The menu: the permission that each page asks for.
MenuAsks(key, permission) ==
  \/ key = "/" /\ permission = "dashboard:view"
  \/ key = "/agents" /\ permission = "agents:view"
  \/ key = "/invite-codes" /\ permission = "invite-codes:view"
  \/ key = "/users" /\ permission = "users:view"
  \/ key = "/bindings" /\ permission = "bindings:view"
  \/ key = "/binding-history" /\ permission = "binding-history:view"
  \/ key = "/agent-invite-applications" /\ permission = "agent-invite-applications:view"
  \/ key = "/tenant-brand/tenants" /\ permission = "tenants:view"
  \/ key = "/tenant-brand/brands" /\ permission = "brands:view"
  \/ key = "/platform-config-center" /\ permission = "platform-configs:view"
  \/ key = "/games" /\ permission = "games:view"
  \/ key = "/agent-game-access" /\ permission = "agent-game-access:view"
  \/ key = "/rules" /\ permission = "rules:view"
  \/ key \in {"/activity-reward-center/rules", "/activity-reward-center/records"}
        /\ permission = "activity-rewards:view"
  \/ key = "/orders" /\ permission = "orders:view"
  \/ key = "/commissions" /\ permission = "commissions:view"
  \/ key = "/settlement-bills" /\ permission = "settlement-bills:view"
  \/ key = "/recalculation-tasks" /\ permission = "recalculation-tasks:view"
  \/ key = "/ledger" /\ permission = "ledger:view"
  \/ key = "/withdrawal-requests/list" /\ permission = "withdrawal-requests:view"
  \/ key = "/withdrawal-requests/process" /\ permission = "withdrawal-requests:audit"
  \/ key = "/audit" /\ permission = "audit:view"
  \/ key \in {"/risk/cases", "/risk/intelligence"} /\ permission = "risk:view"
  \/ key \in {"/reports/agent", "/reports/team", "/reports/settlement", "/reports/progress",
              "/reports/data-platform"}
        /\ permission = "report:view"
  \/ key = "/rbac/users" /\ permission = "rbac:users:view"
  \/ key = "/rbac/roles" /\ permission = "rbac:roles:view"
  \/ key = "/rbac/permissions" /\ permission = "rbac:permissions:view"

LEMMA MenuListed ==
  ASSUME NEW item \in NavSet
  PROVE  MenuAsks(item.key, item.permission)
<1>1. DOMAIN NavItems = 1..33
  BY DEF NavItems
<1>2. \A i \in 1..33 : MenuAsks(NavItems[i].key, NavItems[i].permission)
  BY SMTT(60) DEF NavItems, Item, ItemFor, MenuAsks
<1>3. QED BY <1>1, <1>2 DEF NavSet

\* So much for what a page offers whoever the menu takes there.
Offers(key, queries, controls) ==
  \A opens : MenuAsks(key, opens) =>
    /\ QueriesCovered(key, opens, queries, controls)
    /\ ControlsCovered(key, opens, queries, controls)
    /\ StatusesCovered(key, controls)

\* Without controls there is nothing to cover but the lists.
LEMMA OffersNothing ==
  ASSUME NEW key, NEW opens, NEW queries
  PROVE  ControlsCovered(key, opens, queries, {}) /\ StatusesCovered(key, {})
  BY DEF ControlsCovered, StatusesCovered

\* The pages, one lemma each, with the permission that the menu asks for.
LEMMA DashboardOffers == Offers("/", DashboardQueries, {})
<1>1. QueriesCovered("/", "dashboard:view", DashboardQueries, {})
  BY QueryFields, GapsListed
     DEF QueriesCovered, Covered, GoodFor, DashboardQueries, ListQuery
<1>2. QED BY <1>1, OffersNothing DEF Offers, MenuAsks

LEMMA AgentsOffers == Offers("/agents", AgentsQueries, AgentsRows \cup AgentsDialogs)
<1>1. QueriesCovered("/agents", "agents:view", AgentsQueries, AgentsRows \cup AgentsDialogs)
  BY QueryFields, GapsListed
     DEF QueriesCovered, Covered, GoodFor, AgentsQueries, ListQuery
<1>2. ControlsCovered("/agents", "agents:view", AgentsQueries, AgentsRows \cup AgentsDialogs)
  BY BlockedByFields, ControlFields, RowControlFields, ScopedFields, GapsListed
     DEF ControlsCovered, Covered, GoodFor, AgentsRows, AgentsDialogs, Unblocked
<1>3. StatusesCovered("/agents", AgentsRows \cup AgentsDialogs)
  BY BlockedByFields, ControlFields, RowControlFields, ScopedFields, GapsListed
     DEF StatusesCovered, AcceptedStatuses, AgentsRows, AgentsDialogs, Unblocked
<1>4. QED BY <1>1, <1>2, <1>3 DEF Offers, MenuAsks

LEMMA InviteCodesOffers ==
  Offers("/invite-codes", InviteCodesQueries \cup InviteCodesOptions, InviteCodesDialogs)
<1>1. QueriesCovered("/invite-codes", "invite-codes:view",
                     InviteCodesQueries \cup InviteCodesOptions, InviteCodesDialogs)
  BY ControlFields, InsideFields, QueryFields, ScopedFields, GapsListed
     DEF QueriesCovered, Covered, GoodFor, InviteCodesQueries, InviteCodesOptions, ListQuery,
         AgentSelect, InviteCodesDialogs
<1>2. ControlsCovered("/invite-codes", "invite-codes:view",
                      InviteCodesQueries \cup InviteCodesOptions, InviteCodesDialogs)
  BY ControlFields, ScopedFields, GapsListed
     DEF ControlsCovered, Covered, GoodFor, InviteCodesDialogs
<1>3. StatusesCovered("/invite-codes", InviteCodesDialogs)
  BY ControlFields, ScopedFields, GapsListed
     DEF StatusesCovered, AcceptedStatuses, InviteCodesDialogs
<1>4. QED BY <1>1, <1>2, <1>3 DEF Offers, MenuAsks

LEMMA UsersOffers == Offers("/users", UsersQueries, {})
<1>1. QueriesCovered("/users", "users:view", UsersQueries, {})
  BY QueryFields, GapsListed
     DEF QueriesCovered, Covered, GoodFor, UsersQueries, ListQuery
<1>2. QED BY <1>1, OffersNothing DEF Offers, MenuAsks

LEMMA BindingsOffers == Offers("/bindings", BindingsQueries, BindingsForms)
<1>1. QueriesCovered("/bindings", "bindings:view", BindingsQueries, BindingsForms)
  BY QueryFields, GapsListed
     DEF QueriesCovered, Covered, GoodFor, BindingsQueries, ListQuery
<1>2. ControlsCovered("/bindings", "bindings:view", BindingsQueries, BindingsForms)
  BY ControlFields, ScopedFields, GapsListed
     DEF ControlsCovered, Covered, GoodFor, BindingsForms
<1>3. StatusesCovered("/bindings", BindingsForms)
  BY ControlFields, ScopedFields, GapsListed
     DEF StatusesCovered, AcceptedStatuses, BindingsForms
<1>4. QED BY <1>1, <1>2, <1>3 DEF Offers, MenuAsks

LEMMA BindingHistoryOffers == Offers("/binding-history", BindingHistoryQueries, {})
<1>1. QueriesCovered("/binding-history", "binding-history:view", BindingHistoryQueries, {})
  BY QueryFields, GapsListed
     DEF QueriesCovered, Covered, GoodFor, BindingHistoryQueries, ListQuery
<1>2. QED BY <1>1, OffersNothing DEF Offers, MenuAsks

LEMMA AgentInviteApplicationsOffers ==
  Offers("/agent-invite-applications",
         ApplicationsQueries \cup ApplicationsOptions, ApplicationsRows \cup ApplicationsForms)
<1>1. QueriesCovered("/agent-invite-applications", "agent-invite-applications:view",
                     ApplicationsQueries \cup ApplicationsOptions,
                     ApplicationsRows \cup ApplicationsForms)
  BY AskingFields, QueryFields, GapsListed
     DEF QueriesCovered, Covered, GoodFor, ApplicationsQueries, ApplicationsOptions, ListQuery,
         AgentSelect
<1>2. ControlsCovered("/agent-invite-applications", "agent-invite-applications:view",
                      ApplicationsQueries \cup ApplicationsOptions,
                      ApplicationsRows \cup ApplicationsForms)
  BY ControlFields, RowControlFields, ScopedFields, GapsListed
     DEF ControlsCovered, Covered, GoodFor, ApplicationsRows, ApplicationsForms
<1>3. StatusesCovered("/agent-invite-applications", ApplicationsRows \cup ApplicationsForms)
  BY ControlFields, RowControlFields, ScopedFields, GapsListed
     DEF StatusesCovered, AcceptedStatuses, ApplicationsRows, ApplicationsForms
<1>4. QED BY <1>1, <1>2, <1>3 DEF Offers, MenuAsks

LEMMA TenantBrandTenantsOffers ==
  Offers("/tenant-brand/tenants", TenantsQueries, TenantsRows \cup TenantsDialogs)
<1>1. QueriesCovered("/tenant-brand/tenants", "tenants:view", TenantsQueries,
                     TenantsRows \cup TenantsDialogs)
  BY AskingFields, QueryFields, GapsListed
     DEF QueriesCovered, Covered, GoodFor, TenantsQueries, ListQuery
<1>2. ControlsCovered("/tenant-brand/tenants", "tenants:view", TenantsQueries,
                      TenantsRows \cup TenantsDialogs)
  BY BlockedByFields, ControlFields, RowControlFields, GapsListed
     DEF ControlsCovered, Covered, GoodFor, TenantsRows, TenantsDialogs, Unblocked
<1>3. StatusesCovered("/tenant-brand/tenants", TenantsRows \cup TenantsDialogs)
  BY BlockedByFields, ControlFields, RowControlFields, GapsListed
     DEF StatusesCovered, AcceptedStatuses, TenantsRows, TenantsDialogs, Unblocked
<1>4. QED BY <1>1, <1>2, <1>3 DEF Offers, MenuAsks

LEMMA TenantBrandBrandsOffers ==
  Offers("/tenant-brand/brands", BrandsQueries, BrandsRows \cup BrandsDialogs)
<1>1. QueriesCovered("/tenant-brand/brands", "brands:view", BrandsQueries,
                     BrandsRows \cup BrandsDialogs)
  BY AskingFields, QueryFields, GapsListed
     DEF QueriesCovered, Covered, GoodFor, BrandsQueries, TenantsQueries, ListQuery
<1>2. ControlsCovered("/tenant-brand/brands", "brands:view", BrandsQueries,
                      BrandsRows \cup BrandsDialogs)
  BY BlockedByFields, ControlFields, RowControlFields, GapsListed
     DEF ControlsCovered, Covered, GoodFor, BrandsRows, BrandsDialogs, Unblocked
<1>3. StatusesCovered("/tenant-brand/brands", BrandsRows \cup BrandsDialogs)
  BY BlockedByFields, ControlFields, RowControlFields, GapsListed
     DEF StatusesCovered, AcceptedStatuses, BrandsRows, BrandsDialogs, Unblocked
<1>4. QED BY <1>1, <1>2, <1>3 DEF Offers, MenuAsks

LEMMA PlatformConfigCenterOffers == Offers("/platform-config-center", ConfigQueries, ConfigDialogs)
<1>1. QueriesCovered("/platform-config-center", "platform-configs:view", ConfigQueries,
                     ConfigDialogs)
  BY QueryFields, GapsListed
     DEF QueriesCovered, Covered, GoodFor, ConfigQueries, ListQuery
<1>2. ControlsCovered("/platform-config-center", "platform-configs:view", ConfigQueries,
                      ConfigDialogs)
  BY BlockedByFields, ControlFields, RowControlFields, GapsListed
     DEF ControlsCovered, Covered, GoodFor, ConfigActs, ConfigDialogs
<1>3. StatusesCovered("/platform-config-center", ConfigDialogs)
  BY BlockedByFields, ControlFields, RowControlFields, GapsListed
     DEF StatusesCovered, AcceptedStatuses, ConfigActs, ConfigDialogs
<1>4. QED BY <1>1, <1>2, <1>3 DEF Offers, MenuAsks

LEMMA GamesOffers ==
  Offers("/games", GamesQueries, GamesRows \cup GamesDialogs \cup GamesCredentials)
<1>1. QueriesCovered("/games", "games:view", GamesQueries,
                     GamesRows \cup GamesDialogs \cup GamesCredentials)
  BY BlockedByFields, ControlFields, InsideFields, QueryFields, RowControlFields, ScopedFields,
     WithinFields, GapsListed
     DEF QueriesCovered, Covered, GoodFor, GamesQueries, ListQuery, GamesRows, GamesDialogs,
         GamesCredentials, SavingGame, Unblocked
<1>2. ControlsCovered("/games", "games:view", GamesQueries,
                      GamesRows \cup GamesDialogs \cup GamesCredentials)
  BY BlockedByFields, ControlFields, RowControlFields, ScopedFields, WithinFields, GapsListed
     DEF ControlsCovered, Covered, GoodFor, GamesRows, GamesDialogs, GamesCredentials, SavingGame,
         Unblocked
<1>3. StatusesCovered("/games", GamesRows \cup GamesDialogs \cup GamesCredentials)
  BY BlockedByFields, ControlFields, RowControlFields, ScopedFields, WithinFields, GapsListed
     DEF StatusesCovered, AcceptedStatuses, GamesRows, GamesDialogs, GamesCredentials, SavingGame,
         Unblocked
<1>4. QED BY <1>1, <1>2, <1>3 DEF Offers, MenuAsks

LEMMA AgentGameAccessOffers ==
  Offers("/agent-game-access", AccessQueries \cup AccessOptions, AccessRows \cup AccessForms)
<1>1. QueriesCovered("/agent-game-access", "agent-game-access:view",
                     AccessQueries \cup AccessOptions, AccessRows \cup AccessForms)
  BY QueryFields, GapsListed
     DEF QueriesCovered, Covered, GoodFor, AccessQueries, AccessOptions, ListQuery, AgentSelect,
         GameSelect
<1>2. ControlsCovered("/agent-game-access", "agent-game-access:view",
                      AccessQueries \cup AccessOptions, AccessRows \cup AccessForms)
  BY ControlFields, RowControlFields, ScopedFields, GapsListed
     DEF ControlsCovered, Covered, GoodFor, AccessRows, AccessForms
<1>3. StatusesCovered("/agent-game-access", AccessRows \cup AccessForms)
  BY ControlFields, RowControlFields, ScopedFields, GapsListed
     DEF StatusesCovered, AcceptedStatuses, AccessRows, AccessForms
<1>4. QED BY <1>1, <1>2, <1>3 DEF Offers, MenuAsks

LEMMA RulesOffers == Offers("/rules", RulesQueries \cup RulesOptions, RulesRows \cup RulesDialogs)
<1>1. QueriesCovered("/rules", "rules:view", RulesQueries \cup RulesOptions,
                     RulesRows \cup RulesDialogs)
  BY ControlFields, FromFields, InsideFields, QueryFields, RowControlFields, ScopedFields,
     GapsListed
     DEF QueriesCovered, Covered, GoodFor, RulesQueries, RulesOptions, ListQuery, AgentSelect,
         GameSelect, RulesRows, RulesDialogs
<1>2. ControlsCovered("/rules", "rules:view", RulesQueries \cup RulesOptions,
                      RulesRows \cup RulesDialogs)
  BY ControlFields, FromFields, RowControlFields, ScopedFields, GapsListed
     DEF ControlsCovered, Covered, GoodFor, RulesRows, RulesDialogs
<1>3. StatusesCovered("/rules", RulesRows \cup RulesDialogs)
  BY ControlFields, FromFields, RowControlFields, ScopedFields, GapsListed
     DEF StatusesCovered, AcceptedStatuses, RulesRows, RulesDialogs
<1>4. QED BY <1>1, <1>2, <1>3 DEF Offers, MenuAsks

LEMMA ActivityRewardCenterRulesOffers ==
  Offers("/activity-reward-center/rules",
         RewardRulesQueries \cup RewardOptions, RewardRulesRows \cup RewardDialogs)
<1>1. QueriesCovered("/activity-reward-center/rules", "activity-rewards:view",
                     RewardRulesQueries \cup RewardOptions, RewardRulesRows \cup RewardDialogs)
  BY ControlFields, FromFields, InsideFields, QueryFields, RowControlFields, GapsListed
     DEF QueriesCovered, Covered, GoodFor, RewardRulesQueries, RewardOptions, ListQuery,
         AgentSelect, RewardRulesRows, RewardDialogs
<1>2. ControlsCovered("/activity-reward-center/rules", "activity-rewards:view",
                      RewardRulesQueries \cup RewardOptions, RewardRulesRows \cup RewardDialogs)
  BY ControlFields, FromFields, RowControlFields, GapsListed
     DEF ControlsCovered, Covered, GoodFor, RewardRulesRows, RewardDialogs
<1>3. StatusesCovered("/activity-reward-center/rules", RewardRulesRows \cup RewardDialogs)
  BY ControlFields, FromFields, RowControlFields, GapsListed
     DEF StatusesCovered, AcceptedStatuses, RewardRulesRows, RewardDialogs
<1>4. QED BY <1>1, <1>2, <1>3 DEF Offers, MenuAsks

LEMMA ActivityRewardCenterRecordsOffers ==
  Offers("/activity-reward-center/records", RewardRecordsQueries, RewardRecordsRows)
<1>1. QueriesCovered("/activity-reward-center/records", "activity-rewards:view",
                     RewardRecordsQueries, RewardRecordsRows)
  BY QueryFields, GapsListed
     DEF QueriesCovered, Covered, GoodFor, RewardRecordsQueries, ListQuery
<1>2. ControlsCovered("/activity-reward-center/records", "activity-rewards:view",
                      RewardRecordsQueries, RewardRecordsRows)
  BY FromFields, RowControlFields, GapsListed
     DEF ControlsCovered, Covered, GoodFor, RewardRecordsRows
<1>3. StatusesCovered("/activity-reward-center/records", RewardRecordsRows)
  BY FromFields, RowControlFields, GapsListed
     DEF StatusesCovered, AcceptedStatuses, RewardRecordsRows
<1>4. QED BY <1>1, <1>2, <1>3 DEF Offers, MenuAsks

LEMMA OrdersOffers == Offers("/orders", OrdersQueries, OrdersRows)
<1>1. QueriesCovered("/orders", "orders:view", OrdersQueries, OrdersRows)
  BY QueryFields, GapsListed
     DEF QueriesCovered, Covered, GoodFor, OrdersQueries, ListQuery
<1>2. ControlsCovered("/orders", "orders:view", OrdersQueries, OrdersRows)
  BY FromFields, RowControlFields, GapsListed
     DEF ControlsCovered, Covered, GoodFor, OrdersRows
<1>3. StatusesCovered("/orders", OrdersRows)
  BY FromFields, RowControlFields, GapsListed
     DEF StatusesCovered, AcceptedStatuses, OrdersRows
<1>4. QED BY <1>1, <1>2, <1>3 DEF Offers, MenuAsks

LEMMA CommissionsOffers == Offers("/commissions", CommissionsQueries, {})
<1>1. QueriesCovered("/commissions", "commissions:view", CommissionsQueries, {})
  BY QueryFields, GapsListed
     DEF QueriesCovered, Covered, GoodFor, CommissionsQueries, ListQuery
<1>2. QED BY <1>1, OffersNothing DEF Offers, MenuAsks

LEMMA SettlementBillsOffers == Offers("/settlement-bills", BillsQueries, BillsRows)
<1>1. QueriesCovered("/settlement-bills", "settlement-bills:view", BillsQueries, BillsRows)
  BY QueryFields, GapsListed
     DEF QueriesCovered, Covered, GoodFor, BillsQueries, ListQuery
<1>2. ControlsCovered("/settlement-bills", "settlement-bills:view", BillsQueries, BillsRows)
  BY FromFields, RowControlFields, GapsListed
     DEF ControlsCovered, Covered, GoodFor, BillsRows
<1>3. StatusesCovered("/settlement-bills", BillsRows)
  BY FromFields, RowControlFields, GapsListed
     DEF StatusesCovered, AcceptedStatuses, BillsRows
<1>4. QED BY <1>1, <1>2, <1>3 DEF Offers, MenuAsks

LEMMA RecalculationTasksOffers ==
  Offers("/recalculation-tasks", TasksQueries \cup TasksOptions, TasksForms)
<1>1. QueriesCovered("/recalculation-tasks", "recalculation-tasks:view",
                     TasksQueries \cup TasksOptions, TasksForms)
  BY QueryFields, GapsListed
     DEF QueriesCovered, Covered, GoodFor, TasksQueries, TasksOptions, ListQuery, AgentSelect
<1>2. ControlsCovered("/recalculation-tasks", "recalculation-tasks:view",
                      TasksQueries \cup TasksOptions, TasksForms)
  BY ControlFields, ScopedFields, GapsListed
     DEF ControlsCovered, Covered, GoodFor, TasksForms
<1>3. StatusesCovered("/recalculation-tasks", TasksForms)
  BY ControlFields, ScopedFields, GapsListed
     DEF StatusesCovered, AcceptedStatuses, TasksForms
<1>4. QED BY <1>1, <1>2, <1>3 DEF Offers, MenuAsks

LEMMA LedgerOffers == Offers("/ledger", LedgerQueries, {})
<1>1. QueriesCovered("/ledger", "ledger:view", LedgerQueries, {})
  BY QueryFields, GapsListed
     DEF QueriesCovered, Covered, GoodFor, LedgerQueries, ListQuery
<1>2. QED BY <1>1, OffersNothing DEF Offers, MenuAsks

LEMMA WithdrawalRequestsListOffers ==
  Offers("/withdrawal-requests/list", WithdrawalQueries \cup WithdrawalOptions, WithdrawalRows)
<1>1. QueriesCovered("/withdrawal-requests/list", "withdrawal-requests:view",
                     WithdrawalQueries \cup WithdrawalOptions, WithdrawalRows)
  BY QueryFields, GapsListed
     DEF QueriesCovered, Covered, GoodFor, WithdrawalQueries, WithdrawalOptions, ListQuery,
         AgentSelect
<1>2. ControlsCovered("/withdrawal-requests/list", "withdrawal-requests:view",
                      WithdrawalQueries \cup WithdrawalOptions, WithdrawalRows)
  BY BlockedByFields, FromFields, RowControlFields, GapsListed
     DEF ControlsCovered, Covered, GoodFor, WithdrawalActs, WithdrawalRows, ActionMode
<1>3. StatusesCovered("/withdrawal-requests/list", WithdrawalRows)
  BY BlockedByFields, FromFields, RowControlFields, GapsListed
     DEF StatusesCovered, AcceptedStatuses, WithdrawalActs, WithdrawalRows, ActionMode
<1>4. QED BY <1>1, <1>2, <1>3 DEF Offers, MenuAsks

LEMMA WithdrawalRequestsProcessOffers ==
  Offers("/withdrawal-requests/process", WithdrawalQueries \cup WithdrawalOptions, WithdrawalRows)
<1>1. QueriesCovered("/withdrawal-requests/process", "withdrawal-requests:audit",
                     WithdrawalQueries \cup WithdrawalOptions, WithdrawalRows)
  BY QueryFields, GapsListed
     DEF QueriesCovered, Covered, GoodFor, WithdrawalQueries, WithdrawalOptions, ListQuery,
         AgentSelect
<1>2. ControlsCovered("/withdrawal-requests/process", "withdrawal-requests:audit",
                      WithdrawalQueries \cup WithdrawalOptions, WithdrawalRows)
  BY BlockedByFields, FromFields, RowControlFields, GapsListed
     DEF ControlsCovered, Covered, GoodFor, WithdrawalActs, WithdrawalRows, ActionMode
<1>3. StatusesCovered("/withdrawal-requests/process", WithdrawalRows)
  BY BlockedByFields, FromFields, RowControlFields, GapsListed
     DEF StatusesCovered, AcceptedStatuses, WithdrawalActs, WithdrawalRows, ActionMode
<1>4. QED BY <1>1, <1>2, <1>3 DEF Offers, MenuAsks

LEMMA AuditOffers == Offers("/audit", AuditQueries, {})
<1>1. QueriesCovered("/audit", "audit:view", AuditQueries, {})
  BY QueryFields, GapsListed
     DEF QueriesCovered, Covered, GoodFor, AuditQueries
<1>2. QED BY <1>1, OffersNothing DEF Offers, MenuAsks

LEMMA RiskCasesOffers == Offers("/risk/cases", RiskCasesQueries \cup RiskOptions, RiskRows)
<1>1. QueriesCovered("/risk/cases", "risk:view", RiskCasesQueries \cup RiskOptions, RiskRows)
  BY QueryFields, GapsListed
     DEF QueriesCovered, Covered, GoodFor, RiskCasesQueries, RiskOptions, ListQuery, AgentSelect
<1>2. ControlsCovered("/risk/cases", "risk:view", RiskCasesQueries \cup RiskOptions, RiskRows)
  BY FromFields, QueryFields, RowControlFields, GapsListed
     DEF ControlsCovered, Covered, GoodFor, RiskRows, RiskCasesQueries, RiskOptions, ListQuery,
         AgentSelect
<1>3. StatusesCovered("/risk/cases", RiskRows)
  BY FromFields, RowControlFields, GapsListed
     DEF StatusesCovered, AcceptedStatuses, RiskRows
<1>4. QED BY <1>1, <1>2, <1>3 DEF Offers, MenuAsks

LEMMA RiskIntelligenceOffers == Offers("/risk/intelligence", RiskIntelligenceQueries, {})
<1>1. QueriesCovered("/risk/intelligence", "risk:view", RiskIntelligenceQueries, {})
  BY QueryFields, GapsListed
     DEF QueriesCovered, Covered, GoodFor, RiskIntelligenceQueries, ListQuery
<1>2. QED BY <1>1, OffersNothing DEF Offers, MenuAsks

LEMMA RbacUsersOffers ==
  Offers("/rbac/users", RbacQueries \cup RbacUserOptions, RbacUserRows \cup RbacUserDialogs)
<1>1. QueriesCovered("/rbac/users", "rbac:users:view", RbacQueries \cup RbacUserOptions,
                     RbacUserRows \cup RbacUserDialogs)
  BY AskingFields, BlockedByFields, ControlFields, InsideFields, QueryFields, RowControlFields,
     GapsListed
     DEF QueriesCovered, Covered, GoodFor, RbacQueries, RbacUserOptions, TenantSelect, BrandSelect,
         AgentOfFormSelect, SavesUser, ListQuery, SavesRole, RbacUserRows, RbacUserDialogs
<1>2. ControlsCovered("/rbac/users", "rbac:users:view", RbacQueries \cup RbacUserOptions,
                      RbacUserRows \cup RbacUserDialogs)
  BY BlockedByFields, ControlFields, RowControlFields, GapsListed
     DEF ControlsCovered, Covered, GoodFor, SavesRole, SavesUser, RbacUserRows, RbacUserDialogs
<1>3. StatusesCovered("/rbac/users", RbacUserRows \cup RbacUserDialogs)
  BY BlockedByFields, ControlFields, RowControlFields, GapsListed
     DEF StatusesCovered, AcceptedStatuses, SavesRole, SavesUser, RbacUserRows, RbacUserDialogs
<1>4. QED BY <1>1, <1>2, <1>3 DEF Offers, MenuAsks

LEMMA RbacRolesOffers ==
  Offers("/rbac/roles", RbacQueries \cup RbacRoleOptions, RbacRoleRows \cup RbacRoleDialogs)
<1>1. QueriesCovered("/rbac/roles", "rbac:roles:view", RbacQueries \cup RbacRoleOptions,
                     RbacRoleRows \cup RbacRoleDialogs)
  BY AskingFields, BlockedByFields, ControlFields, InsideFields, QueryFields, RowControlFields,
     GapsListed
     DEF QueriesCovered, Covered, GoodFor, RbacQueries, RbacRoleOptions, TenantSelect, BrandSelect,
         SavesRole, ListQuery, SavesUser, RbacRoleRows, RbacRoleDialogs
<1>2. ControlsCovered("/rbac/roles", "rbac:roles:view", RbacQueries \cup RbacRoleOptions,
                      RbacRoleRows \cup RbacRoleDialogs)
  BY BlockedByFields, ControlFields, RowControlFields, GapsListed
     DEF ControlsCovered, Covered, GoodFor, SavesRole, SavesUser, RbacRoleRows, RbacRoleDialogs
<1>3. StatusesCovered("/rbac/roles", RbacRoleRows \cup RbacRoleDialogs)
  BY BlockedByFields, ControlFields, RowControlFields, GapsListed
     DEF StatusesCovered, AcceptedStatuses, SavesRole, SavesUser, RbacRoleRows, RbacRoleDialogs
<1>4. QED BY <1>1, <1>2, <1>3 DEF Offers, MenuAsks

LEMMA RbacPermissionsOffers == Offers("/rbac/permissions", RbacQueries, {})
<1>1. QueriesCovered("/rbac/permissions", "rbac:permissions:view", RbacQueries, {})
  BY AskingFields, QueryFields, GapsListed
     DEF QueriesCovered, Covered, GoodFor, RbacQueries
<1>2. QED BY <1>1, OffersNothing DEF Offers, MenuAsks

LEMMA ReportsOffer ==
  ASSUME NEW path \in DOMAIN ReportQueries
  PROVE  Offers(path, ReportQueries[path] \cup ReportOptions[path], {})
<1>1. \A query \in ReportQueries[path] :
        query.call \in {"listAgentPerformanceReport", "listTeamPerformanceReport",
                        "listGameSettlementReport", "listSettlementProgressReport",
                        "listDataPlatformLayers", "listDataPlatformMetrics"}
  <2>1. CASE path = "/reports/agent"
    BY <2>1, QueryFields DEF ReportQueries, ListQuery
  <2>2. CASE path = "/reports/team"
    BY <2>2, QueryFields DEF ReportQueries, ListQuery
  <2>3. CASE path = "/reports/settlement"
    BY <2>3, QueryFields DEF ReportQueries, ListQuery
  <2>4. CASE path = "/reports/progress"
    BY <2>4, QueryFields DEF ReportQueries, ListQuery
  <2>5. CASE path = "/reports/data-platform"
    BY <2>5, QueryFields DEF ReportQueries, ListQuery
  <2>6. QED BY <2>1, <2>2, <2>3, <2>4, <2>5 DEF ReportQueries
<1>2. \A query \in ReportOptions[path] :
        query.call = "listAgents" /\ path \in {"/reports/agent", "/reports/team"}
  BY QueryFields DEF ReportOptions, AgentSelect, ListQuery
<1>3. QueriesCovered(path, "report:view", ReportQueries[path] \cup ReportOptions[path], {})
  BY <1>1, <1>2, GapsListed DEF QueriesCovered, Covered, GoodFor
<1>4. ASSUME NEW opens, MenuAsks(path, opens) PROVE opens = "report:view"
  BY <1>4 DEF ReportQueries, MenuAsks
<1>5. QED BY <1>3, <1>4, OffersNothing DEF Offers

\* Every page is covered by the permission that opens it.
LEMMA PagesOffer ==
  ASSUME NEW p \in Pages
  PROVE  Offers(p.key, p.queries, p.controls)
<1>1. ASSUME NEW key, NEW queries, NEW mutations, NEW controls, NEW filters,
             p = Page(key, queries, mutations, controls, filters), Offers(key, queries, controls)
      PROVE  Offers(p.key, p.queries, p.controls)
  BY <1>1, PageFields
<1>2. QED BY <1>1, ReportsOffer, DashboardOffers, AgentsOffers, InviteCodesOffers, UsersOffers,
             BindingsOffers, BindingHistoryOffers, AgentInviteApplicationsOffers,
             TenantBrandTenantsOffers, TenantBrandBrandsOffers, PlatformConfigCenterOffers,
             GamesOffers, AgentGameAccessOffers, RulesOffers, ActivityRewardCenterRulesOffers,
             ActivityRewardCenterRecordsOffers, OrdersOffers, CommissionsOffers,
             SettlementBillsOffers, RecalculationTasksOffers, LedgerOffers,
             WithdrawalRequestsListOffers, WithdrawalRequestsProcessOffers, AuditOffers,
             RiskCasesOffers, RiskIntelligenceOffers, RbacUsersOffers, RbacRolesOffers,
             RbacPermissionsOffers
             DEF Pages

\* A query runs; it brings its rows; a control can be used, on its rows if it has any.
Reached(codes, query, controls) ==
  /\ Holds(codes, query.asks)
  /\ \/ query.inside = "page"
     \/ \E control \in controls : control.act = query.inside /\ Holds(codes, control.asks)
Answered(codes, query) == Holds(codes, query.asks) /\ MayCall(codes, query.call)
Usable(codes, control, queries) ==
  /\ control.shape # "viewer" /\ Holds(codes, control.asks)
  /\ \A query \in queries : query.root = control.row => Answered(codes, query)

\* With these codes every query that runs on a page is answered and every control that can be
\* used starts a permitted call, but for the gaps.
OfferedIsAllowed(p, codes) ==
  /\ \A query \in p.queries :
       Reached(codes, query, p.controls) => MayCall(codes, query.call) \/ Gap(p.key, query.call)
  /\ \A control \in p.controls :
       Usable(codes, control, p.queries) => MayCall(codes, control.act) \/ Gap(p.key, control.act)

LEMMA OpeningListed ==
  ASSUME NEW p \in Pages
  PROVE  MenuAsks(p.key, Opening(p))
<1>1. p.key \in NavKeys
  BY PageConstants
<1>2. PICK item \in NavSet : item.key = p.key
  BY <1>1 DEF NavKeys
<1>3. QED BY <1>2, MenuListed DEF Opening

\* Nothing that the console offers on any page, to anybody whose codes take him there, is
\* forbidden by the server, but for the gaps listed: whatever set of codes a role consists of.
\* (permission-meta.ts:111-162, api.ts:1890-2049, the requirePermission of the routes)
THEOREM GapsAreAll ==
  \A p \in Pages, codes \in SUBSET RouteCodes :
    Opening(p) \in NormalizePermissions(codes) => OfferedIsAllowed(p, codes)
<1> SUFFICES ASSUME NEW p \in Pages, NEW codes \in SUBSET RouteCodes,
                    Opening(p) \in NormalizePermissions(codes)
             PROVE  OfferedIsAllowed(p, codes)
  OBVIOUS
<1>1. /\ QueriesCovered(p.key, Opening(p), p.queries, p.controls)
      /\ ControlsCovered(p.key, Opening(p), p.queries, p.controls)
  BY PagesOffer, OpeningListed DEF Offers
<1>2. ASSUME NEW asks, NEW call, Covered(p.key, Opening(p), asks, call), Holds(codes, asks)
      PROVE  MayCall(codes, call) \/ Gap(p.key, call)
  BY <1>2, Allowed, AllowedBesides DEF Covered, Holds
<1>3. ASSUME NEW query \in p.queries, Reached(codes, query, p.controls)
      PROVE  MayCall(codes, query.call) \/ Gap(p.key, query.call)
  <2>1. CASE Covered(p.key, Opening(p), query.asks, query.call)
    BY <1>2, <1>3, <2>1 DEF Reached
  <2>2. CASE /\ query.inside # "page"
             /\ \A control \in p.controls :
                  control.act = query.inside => GoodFor(control.asks, query.call)
    BY <1>3, <2>2, Allowed DEF Reached
  <2>3. QED BY <1>1, <2>1, <2>2 DEF QueriesCovered
<1>4. ASSUME NEW control \in p.controls, Usable(codes, control, p.queries)
      PROVE  MayCall(codes, control.act) \/ Gap(p.key, control.act)
  <2>1. CASE Covered(p.key, Opening(p), control.asks, control.act)
    BY <1>2, <1>4, <2>1 DEF Usable
  <2>2. CASE /\ control.act = "reviewRiskCase"
             /\ \E query \in p.queries : query.root = control.row /\ query.call = "listRiskCases"
    BY <1>4, <2>2, AllowedBesides DEF Usable, Answered
  <2>3. QED BY <1>1, <1>4, <2>1, <2>2 DEF ControlsCovered, Usable
<1>5. QED BY <1>3, <1>4 DEF OfferedIsAllowed

-----------------------------------------------------------------------------
\* The types of the state, and what a step does to the query cache.

\* What the controls of a page's sections are known by.
LEMMA PageSound ==
  ASSUME page \in Pages
  PROVE  Sound(page.queries, page.mutations, Controls)
  BY SectionsSound DEF Controls

\* The arguments that a key stands for.
Keyed(k) == [part \in list.args |-> k[part]]

\* What a list's answers, requests and cache entries, and the page's calls, are made of.
Answers == [args : [list.args -> 0..1], seen : Nat, overtaken : BOOLEAN]
Requests == [args : [list.args -> 0..1], sent : Nat, overtaken : BOOLEAN]
Entries == [data : Answers \cup {None}, fetch : Requests \cup {None}, failed : BOOLEAN]
Acts == {mutation.call : mutation \in page.mutations}
Calls(gens, latest) ==
  [id : 1..gens, act : Acts, gen : 1..gens,
   at : 0..latest, here : BOOLEAN, phase : {"sent", "applied", "refused"}, version : 0..latest]
Confirmations(gens, latest) ==
  [control : Controls, gen : 1..gens, at : 0..latest, here : BOOLEAN]

\* The types of the state: those of the run, and of the parts they leave open.  A form has had its
\* number since the page was first opened.
Typed ==
  /\ PagesTypeOK
  /\ page \in Pages /\ budget \in Budgets
  /\ log \in Seq(Statuses)
  /\ \A k \in DOMAIN cache : cache[k] \in Entries
  /\ pending \subseteq Calls(clicks, Latest)
  /\ applied \subseteq [gen : 1..clicks, id : 1..clicks]
  /\ form \in 0..clicks
  /\ route # None \/ confirm # None \/ pending # {} => form # 0
  /\ dialog # None => /\ dialog.at \in 0..Latest
                      /\ dialog.control.shape \in {"dialog", "guarded", "viewer"}
  /\ confirm # None => confirm \in Confirmations(clicks, Latest)
  /\ \A call \in pending : call.phase = "applied" => call.version # 0

\* The shown list's key has its arguments; None is no request and no answer.
LEMMA ListSound ==
  ASSUME page \in Pages, list \in page.queries
  PROVE  /\ list.args \subseteq list.keyed
         /\ None \notin Requests /\ None \notin Answers
  BY PagesSound, PageConstants DEF Sound, KeysCover, Requests, Answers

\* What happens to an entry: nothing, a request for its key, its answer or failure, or a change
\* that overtakes its first fetch.
RequestsEntry(k, entry) ==
  /\ k \in [list.keyed -> 0..1]
  /\ entry = [Entry(k) EXCEPT !.fetch = [args |-> Keyed(k), sent |-> Latest, overtaken |-> FALSE]]
AnswersEntry(k, entry) ==
  /\ k \in DOMAIN cache /\ cache[k].fetch # None
  /\ \E seen \in cache[k].fetch.sent..Latest :
       entry = [data |-> [args |-> cache[k].fetch.args, seen |-> seen,
                          overtaken |-> cache[k].fetch.overtaken],
                fetch |-> None, failed |-> FALSE]
FailsEntry(k, entry) ==
  /\ k \in DOMAIN cache /\ cache[k].fetch # None
  /\ entry = [cache[k] EXCEPT !.fetch = None, !.failed = TRUE]
OvertakesEntry(k, entry) ==
  /\ k \in DOMAIN cache /\ cache[k].fetch # None
  /\ entry = [cache[k] EXCEPT !.fetch.overtaken = TRUE]
EntrySteps(k, entry) ==
  \/ k \in DOMAIN cache /\ entry = cache[k]
  \/ RequestsEntry(k, entry) \/ AnswersEntry(k, entry) \/ FailsEntry(k, entry)
  \/ OvertakesEntry(k, entry)

\* A cache that has come of the one there is, one such step for every key.
ComesOf(c) == DOMAIN cache \subseteq DOMAIN c /\ \A k \in DOMAIN c : EntrySteps(k, c[k])
CacheSteps == DOMAIN cache \subseteq DOMAIN cache' /\ \A k \in DOMAIN cache' : EntrySteps(k, cache'[k])

\* An entry is one of the cache, or the empty one.
LEMMA EntryTyped ==
  ASSUME NEW k, Typed
  PROVE  Entry(k) \in Entries
  BY DEF Typed, Entry, EntryOf, Fresh, Entries

\* The key and arguments of a selection; the key holds the arguments.
LEMMA KeysTyped ==
  ASSUME NEW s \in [Parts(list) -> 0..1], page \in Pages, list \in page.queries
  PROVE  /\ Key(s) \in [list.keyed -> 0..1]
         /\ Keyed(Key(s)) = Args(s) /\ Args(s) \in [list.args -> 0..1]
<1>1. list.keyed \subseteq Parts(list) /\ list.args \subseteq Parts(list)
  BY DEF Parts
<1>2. \A part \in list.args : Key(s)[part] = s[part]
  BY ListSound DEF Key
<1>3. QED BY <1>1, <1>2, ListSound DEF Key, Keyed, Args

LEMMA SameComes == ComesOf(cache)
  BY DEF ComesOf, EntrySteps

\* A step of an entry as it is in both caches is one step more.
LEMMA PutComes ==
  ASSUME NEW c, ComesOf(c), NEW k, NEW entry, EntrySteps(k, entry)
  PROVE  ComesOf(Put(c, k, entry))
<1>1. ASSUME NEW j \in DOMAIN Put(c, k, entry) PROVE EntrySteps(j, Put(c, k, entry)[j])
  <2>1. CASE j = k
    BY <2>1 DEF Put
  <2>2. CASE j # k
    <3>1. j \in DOMAIN c /\ Put(c, k, entry)[j] = c[j]
      BY <1>1, <2>2 DEF Put
    <3>2. QED BY <3>1 DEF ComesOf
  <2>3. QED BY <2>1, <2>2
<1>2. DOMAIN cache \subseteq DOMAIN Put(c, k, entry)
  BY DEF ComesOf, Put
<1>3. QED BY <1>1, <1>2 DEF ComesOf

LEMMA WithComes ==
  ASSUME NEW k, NEW entry, EntrySteps(k, entry)
  PROVE  ComesOf(With(k, entry))
  BY SameComes, PutComes DEF With

\* A fetch for a selection is a request for its key.
LEMMA FetchRequests ==
  ASSUME Typed, NEW s \in [Parts(list) -> 0..1]
  PROVE  RequestsEntry(Key(s), Fetching(Entry(Key(s)), s))
<1>1. page \in Pages /\ list \in page.queries
  BY DEF Typed, PagesTypeOK
<1>2. QED BY <1>1, KeysTyped DEF RequestsEntry, Fetching, Fetch

\* A list that comes into view asks for the key of its selection, or has asked already.
LEMMA ShowingComes ==
  ASSUME Typed, NEW c, ComesOf(c), NEW s \in [Parts(list) -> 0..1], NEW r, NEW d,
         Appears(r, d, s) => EntryOf(c, Key(s)) = Entry(Key(s))
  PROVE  ComesOf(Showing(c, r, d, s))
<1>1. CASE Appears(r, d, s) /\ EntryOf(c, Key(s)).fetch = None
  <2>1. Showing(c, r, d, s) = Put(c, Key(s), Fetching(Entry(Key(s)), s))
    BY <1>1 DEF Showing, Observe
  <2>2. EntrySteps(Key(s), Fetching(Entry(Key(s)), s))
    BY FetchRequests DEF EntrySteps
  <2>3. QED BY <2>1, <2>2, PutComes
<1>2. CASE ~(Appears(r, d, s) /\ EntryOf(c, Key(s)).fetch = None)
  BY <1>2 DEF Showing, Observe
<1>3. QED BY <1>1, <1>2

LEMMA ShowingSteps ==
  ASSUME Typed, NEW s \in [Parts(list) -> 0..1], NEW r, NEW d
  PROVE  ComesOf(Showing(cache, r, d, s))
  BY SameComes, ShowingComes DEF Entry

\* Every part kept of a selection, or back at its default.
LEMMA KeptTyped ==
  ASSUME selection \in [Parts(list) -> 0..1], NEW parts
  PROVE  Kept(parts) \in [Parts(list) -> 0..1]
  BY DEF Kept

\* What a success does to the shown entry: it is overtaken, or asked for again.
LEMMA UpdatedComes ==
  ASSUME Typed, NEW call
  PROVE  /\ ComesOf(Updated(call))
         /\ ~Observed(route, dialog) => Updated(call) = cache
         /\ \A k : k # Key(selection) => EntryOf(Updated(call), k) = Entry(k)
<1>1. selection \in [Parts(list) -> 0..1]
  BY DEF Typed, PagesTypeOK
<1>2. CASE Owes(call) /\ ~Settles
  <2>1. Updated(call) = With(Key(selection), Overtaken)
    BY <1>2 DEF Updated
  <2>2. OvertakesEntry(Key(selection), Overtaken)
    BY <1>2 DEF OvertakesEntry, Overtaken, Settles, Shown, Entry, EntryOf, Fresh
  <2>3. ComesOf(Updated(call))
    BY <2>1, <2>2, WithComes DEF EntrySteps
  <2>4. ASSUME NEW k, k # Key(selection) PROVE EntryOf(Updated(call), k) = Entry(k)
    BY <2>1, <2>4 DEF With, Put, EntryOf, Entry
  <2>5. QED BY <1>2, <2>3, <2>4 DEF Owes
<1>3. CASE ~(Owes(call) /\ ~Settles) /\ Refreshes(call) /\ Observed(route, dialog) /\ Settles
  <2>1. Updated(call) = With(Key(selection), Fetching(Entry(Key(selection)), selection))
    BY <1>3 DEF Updated, Shown
  <2>2. ComesOf(Updated(call))
    BY <1>1, <2>1, FetchRequests, WithComes DEF EntrySteps
  <2>3. ASSUME NEW k, k # Key(selection) PROVE EntryOf(Updated(call), k) = Entry(k)
    BY <2>1, <2>3 DEF With, Put, EntryOf, Entry
  <2>4. QED BY <1>3, <2>2, <2>3
<1>4. CASE ~(Owes(call) /\ ~Settles) /\ ~(Refreshes(call) /\ Observed(route, dialog) /\ Settles)
  BY <1>4, SameComes DEF Updated, Entry
<1>5. QED BY <1>2, <1>3, <1>4

LEMMA SucceededComes ==
  ASSUME Typed, NEW call, NEW s \in [Parts(list) -> 0..1], NEW r, NEW d
  PROVE  ComesOf(Showing(Updated(call), r, d, s))
<1>1. Appears(r, d, s) => EntryOf(Updated(call), Key(s)) = Entry(Key(s))
  BY UpdatedComes DEF Appears, Entry
<1>2. QED BY <1>1, UpdatedComes, ShowingComes

\* Every step of the console does one of CacheSteps.
LEMMA CacheStepsTaken ==
  ASSUME Typed, [Next]_vars
  PROVE  CacheSteps
<1>0. ASSUME NEW c, ComesOf(c), cache' = c PROVE CacheSteps
  BY <1>0 DEF ComesOf, CacheSteps
<1>1. CASE cache' = cache
  BY <1>0, <1>1, SameComes
<1>2. selection \in [Parts(list) -> 0..1]
  BY DEF Typed, PagesTypeOK
<1>3. ASSUME NEW section \in Sections(page), Mount(section) \/ SwitchSection(section)
      PROVE  CacheSteps
  <2>1. selection' \in [Parts(list) -> 0..1]
    BY <1>2, <1>3, KeptTyped DEF Mount, SwitchSection
  <2>2. ComesOf(Showing(cache, section, None, selection'))
          /\ ComesOf(Showing(cache, section, dialog, selection'))
    BY <2>1, ShowingSteps
  <2>3. QED BY <1>0, <1>3, <2>2 DEF Mount, SwitchSection
<1>4. ASSUME NEW part \in Parts(list), Select(part) PROVE CacheSteps
  <2>1. selection' \in [Parts(list) -> 0..1]
    BY <1>2, <1>4 DEF Select
  <2>2. ComesOf(Showing(cache, route, dialog, selection'))
    BY <2>1, ShowingSteps
  <2>3. QED BY <1>0, <1>4, <2>2 DEF Select
<1>5. CASE Refresh
  <2>1. cache' = With(Key(selection), Fetching(Entry(Key(selection)), selection))
    BY <1>5 DEF Refresh, Observe, Shown, Entry, With
  <2>2. ComesOf(With(Key(selection), Fetching(Entry(Key(selection)), selection)))
    BY <1>2, FetchRequests, WithComes DEF EntrySteps
  <2>3. QED BY <1>0, <2>1, <2>2
<1>6. ASSUME NEW k \in DOMAIN cache, FetchAnswered(k) PROVE CacheSteps
  <2>1. PICK entry : cache' = With(k, entry) /\ AnswersEntry(k, entry)
    BY <1>6 DEF FetchAnswered, AnswersEntry
  <2>2. QED BY <1>0, <2>1, WithComes DEF EntrySteps
<1>7. ASSUME NEW k \in DOMAIN cache, FetchFailed(k) PROVE CacheSteps
  <2>1. PICK entry : cache' = With(k, entry) /\ FailsEntry(k, entry)
    BY <1>7 DEF FetchFailed, FailsEntry
  <2>2. QED BY <1>0, <2>1, WithComes DEF EntrySteps
<1>8. ASSUME NEW control \in Controls, Open(control) PROVE CacheSteps
  <2>1. ComesOf(Showing(cache, route, dialog', selection))
    BY <1>2, ShowingSteps
  <2>2. QED BY <1>0, <1>8, <2>1 DEF Open
<1>9. ASSUME NEW call \in pending, Succeeded(call) PROVE CacheSteps
  <2>1. selection' \in [Parts(list) -> 0..1]
    BY <1>2, <1>9, KeptTyped DEF Succeeded
  <2>2. ComesOf(Showing(Updated(call), route', dialog', selection'))
    BY <2>1, SucceededComes
  <2>3. QED BY <1>0, <1>9, <2>2 DEF Succeeded
<1>10. CASE Leave \/ Cancel \/ GiveUp \/ Submit \/ Confirm \/ OtherChange \/ UNCHANGED vars
  BY <1>1, <1>10 DEF Leave, Cancel, GiveUp, Submit, Confirm, Start, OtherChange, vars
<1>11. ASSUME NEW control \in Controls, Ask(control) \/ SubmitForm(control) \/ Press(control)
       PROVE  cache' = cache
  BY <1>11 DEF Ask, SubmitForm, Press, Start
<1>12. ASSUME NEW call \in pending, Refused(call) \/ Carried(call) \/ Returned(call)
         \/ LostAnswer(call)
      PROVE  cache' = cache
  BY <1>12 DEF Refused, Refuse, Carried, Returned, LostAnswer
<1>13. QED BY <1>1, <1>3, <1>4, <1>5, <1>6, <1>7, <1>8, <1>9, <1>10, <1>11, <1>12 DEF Next


-----------------------------------------------------------------------------
\* The log of the row, and the entries of the cache.

\* Page, list, user and bounds are chosen once.
LEMMA RoleKept ==
  ASSUME [Next]_vars
  PROVE  page' = page /\ list' = list /\ user' = user /\ budget' = budget
  BY DEF vars, role, Next, Mount, SwitchSection, Leave, Refresh, Cancel, GiveUp, Submit, Confirm,
         Start, OtherChange, Select, FetchAnswered, FetchFailed, Open, Ask, SubmitForm, Press,
         Refused, Refuse, Carried, Succeeded, Returned, LostAnswer

\* What happens to the row: nothing, or a change of its status.
LogSteps ==
  \/ log' = log
  \/ Latest < MaxVersions /\ \E status \in Statuses : log' = Append(log, status)

\* Every step of the console does one of LogSteps.
LEMMA LogStepsTaken ==
  ASSUME Typed, [Next]_vars
  PROVE  LogSteps
<1>1. "gone" \in Statuses /\ Status(Latest) \in Statuses
  <2>1. "gone" \in Statuses
    BY DEF Statuses
  <2>2. Latest \in DOMAIN log
    BY LenProperties DEF Typed, PagesTypeOK, Latest
  <2>3. QED BY <2>1, <2>2 DEF Typed, PagesTypeOK, Status
<1>2. ASSUME NEW call \in pending, Carried(call) PROVE LogSteps
  BY <1>1, <1>2 DEF Carried, LogSteps
<1>3. CASE OtherChange
  BY <1>1, <1>3 DEF OtherChange, LogSteps
<1>4. CASE Leave \/ Refresh \/ Cancel \/ GiveUp \/ Submit \/ Confirm \/ UNCHANGED vars
  BY <1>4 DEF Leave, Refresh, Cancel, GiveUp, Submit, Confirm, Start, vars, LogSteps
<1>5. ASSUME NEW section \in Sections(page), Mount(section) \/ SwitchSection(section)
      PROVE  LogSteps
  BY <1>5 DEF Mount, SwitchSection, LogSteps
<1>6. ASSUME NEW part \in Parts(list), Select(part) PROVE LogSteps
  BY <1>6 DEF Select, LogSteps
<1>7. ASSUME NEW k \in DOMAIN cache, FetchAnswered(k) \/ FetchFailed(k) PROVE LogSteps
  BY <1>7 DEF FetchAnswered, FetchFailed, LogSteps
<1>8. ASSUME NEW control \in Controls,
             Open(control) \/ Ask(control) \/ SubmitForm(control) \/ Press(control)
      PROVE  LogSteps
  BY <1>8 DEF Open, Ask, SubmitForm, Press, Start, LogSteps
<1>9. ASSUME NEW call \in pending,
             Refused(call) \/ Succeeded(call) \/ Returned(call) \/ LostAnswer(call)
      PROVE  LogSteps
  BY <1>9 DEF Refused, Refuse, Succeeded, Returned, LostAnswer, LogSteps
<1>10. QED BY <1>2, <1>3, <1>4, <1>5, <1>6, <1>7, <1>8, <1>9 DEF Next

\* The log grows by statuses, within its bound.
LEMMA LogTyped ==
  ASSUME Typed, LogSteps, page' = page, list' = list
  PROVE  /\ log' \in Seq(Statuses') /\ Latest' \in Latest..MaxVersions /\ Latest' >= 1
         /\ Latest \in Nat \ {0}
         /\ \A version \in DOMAIN log' : log'[version] \in Statuses'
<1>1. Statuses' = Statuses
  BY DEF Statuses, Controls
<1>2. log \in Seq(Statuses) /\ Latest \in 1..MaxVersions /\ MaxVersions \in Nat
  BY PageConstants DEF Typed, PagesTypeOK, Latest
<1>3. CASE log' = log
  BY <1>1, <1>2, <1>3 DEF Latest
<1>4. ASSUME Latest < MaxVersions, NEW status \in Statuses, log' = Append(log, status)
      PROVE  log' \in Seq(Statuses) /\ Latest' = Latest + 1
  BY <1>2, <1>4, AppendProperties DEF Latest
<1>5. log' \in Seq(Statuses) /\ Latest' \in Latest..MaxVersions /\ Latest' >= 1
  BY <1>2, <1>3, <1>4 DEF LogSteps, Latest
<1>6. \A version \in DOMAIN log' : log'[version] \in Statuses
  BY <1>5, ElementOfSeq, LenProperties DEF Latest
<1>7. QED BY <1>1, <1>2, <1>5, <1>6

\* An entry whose versions are ones the server has served.
EntryOK(entry) ==
  /\ entry \in Entries
  /\ entry.fetch # None => entry.fetch.sent \in 1..Latest
  /\ entry.data # None => entry.data.seen \in 1..Latest

\* The entries that a step reads are such entries.
LEMMA EntriesTyped ==
  ASSUME Typed, NEW k
  PROVE  EntryOK(Entry(k))
<1>1. EntryOK(Fresh)
  BY DEF EntryOK, Entries, Fresh
<1>2. k \in DOMAIN cache => EntryOK(cache[k])
  BY DEF Typed, PagesTypeOK, EntryOK
<1>3. QED BY <1>1, <1>2 DEF Entry, EntryOf

\* Every step keeps the entries typed: an answer is no newer than the server.
LEMMA CacheTyped ==
  ASSUME Typed, CacheSteps, LogSteps, page' = page, list' = list
  PROVE  (\A k \in DOMAIN cache : EntryOK(cache[k]))'
<1>0. page \in Pages /\ list \in page.queries
  BY DEF Typed, PagesTypeOK
<1>1. Entries' = Entries /\ Latest \in Nat \ {0} /\ Latest' \in Nat /\ Latest <= Latest'
  BY LogTyped, PageConstants DEF Entries, Requests, Answers
<1>2. ASSUME NEW k \in DOMAIN cache PROVE EntryOK(cache[k])
  BY <1>2, EntriesTyped DEF Entry, EntryOf
<1>3. ASSUME NEW k, NEW entry, RequestsEntry(k, entry) PROVE EntryOK(entry)
  <2>1. Keyed(k) \in [list.args -> 0..1]
    BY <1>0, <1>3, ListSound DEF Keyed, RequestsEntry
  <2>2. EntryOK(Entry(k))
    BY EntriesTyped
  <2>3. PICK fetch \in Requests : fetch.sent = Latest /\ entry = [Entry(k) EXCEPT !.fetch = fetch]
    BY <1>1, <1>3, <2>1 DEF RequestsEntry, Requests
  <2>4. QED BY <1>1, <2>2, <2>3 DEF EntryOK, Entries
<1>4. ASSUME NEW k, NEW entry, AnswersEntry(k, entry) PROVE EntryOK(entry)
  <2>1. cache[k].fetch \in Requests /\ cache[k].fetch.sent \in 1..Latest
    BY <1>2, <1>4 DEF AnswersEntry, EntryOK, Entries
  <2>2. QED BY <1>1, <1>4, <2>1 DEF AnswersEntry, EntryOK, Entries, Requests, Answers
<1>5. ASSUME NEW k, NEW entry, FailsEntry(k, entry) PROVE EntryOK(entry)
  BY <1>2, <1>5 DEF FailsEntry, EntryOK, Entries
<1>6. ASSUME NEW k, NEW entry, OvertakesEntry(k, entry) PROVE EntryOK(entry)
  <2>1. cache[k] \in Entries /\ cache[k].fetch \in Requests /\ cache[k].fetch.sent \in 1..Latest
        /\ (cache[k].data # None => cache[k].data.seen \in 1..Latest)
    BY <1>2, <1>6 DEF OvertakesEntry, EntryOK, Entries
  <2>2. entry = [cache[k] EXCEPT !.fetch = [cache[k].fetch EXCEPT !.overtaken = TRUE]]
    BY <1>6 DEF OvertakesEntry
  <2>3. [cache[k].fetch EXCEPT !.overtaken = TRUE] \in Requests
        /\ [cache[k].fetch EXCEPT !.overtaken = TRUE].sent = cache[k].fetch.sent
    BY <2>1 DEF Requests
  <2>4. QED BY <2>1, <2>2, <2>3 DEF EntryOK, Entries
<1>7. ASSUME NEW k \in DOMAIN cache' PROVE EntryOK(cache'[k])
  BY <1>2, <1>3, <1>4, <1>5, <1>6, <1>7 DEF CacheSteps, EntrySteps
<1>8. ASSUME NEW entry, EntryOK(entry)
      PROVE  /\ entry \in Entries'
             /\ entry.fetch # None => entry.fetch.sent \in 1..Latest'
             /\ entry.data # None => entry.data.seen \in 1..Latest'
  BY <1>1, <1>8 DEF EntryOK
<1>9. QED BY <1>7, <1>8 DEF EntryOK

\* What is in the cache under a key was asked for with the arguments of that key.
EntryFollows(k, entry) ==
  /\ entry.fetch # None => entry.fetch.args = Keyed(k)
  /\ entry.data # None => entry.data.args = Keyed(k)

FollowsKey == \A k \in DOMAIN cache : EntryFollows(k, cache[k])

\* A request takes its arguments from its key, and its answer keeps them.
LEMMA FollowsKept ==
  ASSUME Typed, FollowsKey, CacheSteps, list' = list
  PROVE  FollowsKey'
<1>1. ASSUME NEW k PROVE EntryFollows(k, Entry(k)) /\ Entry(k) \in Entries
  BY EntryTyped DEF FollowsKey, EntryFollows, Entry, EntryOf, Fresh
<1>2. ASSUME NEW k \in DOMAIN cache PROVE EntryFollows(k, cache[k]) /\ cache[k] \in Entries
  BY <1>2 DEF FollowsKey, Typed
<1>3. ASSUME NEW k, NEW entry, RequestsEntry(k, entry) PROVE EntryFollows(k, entry)
  BY <1>1, <1>3 DEF RequestsEntry, EntryFollows, Entries
<1>4. ASSUME NEW k, NEW entry, AnswersEntry(k, entry) PROVE EntryFollows(k, entry)
  BY <1>2, <1>4 DEF AnswersEntry, EntryFollows
<1>5. ASSUME NEW k, NEW entry, FailsEntry(k, entry) PROVE EntryFollows(k, entry)
  BY <1>2, <1>5 DEF FailsEntry, EntryFollows, Entries
<1>6. ASSUME NEW k, NEW entry, OvertakesEntry(k, entry) PROVE EntryFollows(k, entry)
  <2>1. cache[k] \in Entries /\ cache[k].fetch \in Requests /\ EntryFollows(k, cache[k])
    BY <1>2, <1>6 DEF OvertakesEntry, Entries
  <2>2. entry = [cache[k] EXCEPT !.fetch = [cache[k].fetch EXCEPT !.overtaken = TRUE]]
    BY <1>6 DEF OvertakesEntry
  <2>3. QED BY <1>6, <2>1, <2>2 DEF EntryFollows, Entries, Requests, OvertakesEntry
<1>7. ASSUME NEW k \in DOMAIN cache' PROVE EntryFollows(k, cache'[k])
  BY <1>2, <1>3, <1>4, <1>5, <1>6, <1>7 DEF CacheSteps, EntrySteps
<1>8. \A k : Keyed(k)' = Keyed(k)
  BY DEF Keyed
<1>9. QED BY <1>7, <1>8 DEF EntryFollows, FollowsKey

-----------------------------------------------------------------------------
\* What a call succeeded with is shown, or is being fetched.

\* What a key owes its user: the version asked for, or that of a fetch sent since; a fetch that the
\* change overtook, and its answer, are exempt.
EntryOwes(entry, version) ==
  /\ entry.fetch # None => entry.fetch.sent >= version \/ entry.fetch.overtaken
  /\ entry.fetch = None /\ ~entry.failed =>
       /\ entry.data # None
       /\ entry.data.seen >= version \/ entry.data.overtaken

\* Every key that a success had to refresh is fetched since, or shows it.
MustShown ==
  \A k \in DOMAIN must :
    k \in DOMAIN cache /\ must[k] \in 1..Latest /\ EntryOwes(cache[k], must[k])

\* The mutation that an act runs is one of the page.
LEMMA MutationRun ==
  ASSUME NEW act \in Acts
  PROVE  MutationOf(act) \in page.mutations /\ MutationOf(act).call = act
  BY DEF MutationOf, Acts

\* A success refreshes the shown list when the call changes it.
LEMMA RefreshesOwn ==
  ASSUME page \in Pages, list \in page.queries,
         NEW act \in Acts, ChangesList(act, list.root)
  PROVE  list.root \in MutationOf(act).refreshes
  BY MutationRun, PagesSound DEF Sound, RefreshesCover

\* A version is owed by an entry that was just asked for, or overtaken.
DebtMade(k, version) ==
  /\ version \in 1..Latest /\ must' = Put(must, k, version) /\ k \in DOMAIN cache'
  /\ RequestsEntry(k, cache'[k]) \/ OvertakesEntry(k, cache'[k])

\* What happens to the debts: nothing, or a success makes one.
MustSteps ==
  \/ must' = must
  \/ log' = log /\ \E k, version : DebtMade(k, version)

\* A list that comes into view leaves the entry of the key it had.
LEMMA ShowingKeeps ==
  ASSUME NEW c, NEW s, NEW r, NEW d, Observed(route, dialog), Key(selection) \in DOMAIN c
  PROVE  /\ Key(selection) \in DOMAIN Showing(c, r, d, s)
         /\ Showing(c, r, d, s)[Key(selection)] = c[Key(selection)]
<1>1. CASE Appears(r, d, s) /\ EntryOf(c, Key(s)).fetch = None
  <2>1. Showing(c, r, d, s) = Put(c, Key(s), Fetching(EntryOf(c, Key(s)), s))
    BY <1>1 DEF Showing, Observe
  <2>2. Key(s) # Key(selection)
    BY <1>1 DEF Appears
  <2>3. QED BY <2>1, <2>2 DEF Put
<1>2. CASE ~(Appears(r, d, s) /\ EntryOf(c, Key(s)).fetch = None)
  BY <1>2 DEF Showing, Observe
<1>3. QED BY <1>1, <1>2

\* Every step of the console does one of MustSteps.
LEMMA MustStepsTaken ==
  ASSUME Typed, [Next]_vars
  PROVE  MustSteps
<1>1. ASSUME NEW call \in pending, Succeeded(call) PROVE MustSteps
  <2>1. page \in Pages /\ list \in page.queries /\ selection \in [Parts(list) -> 0..1]
    BY DEF Typed, PagesTypeOK
  <2>2. /\ call.act \in Acts
        /\ call.version \in 1..Latest /\ log' = log
    <3>1. call.phase = "applied" /\ log' = log
      BY <1>1 DEF Succeeded
    <3>2. call \in Calls(clicks, Latest) /\ call.version \in 0..Latest /\ call.version # 0
      BY <3>1 DEF Typed, PagesTypeOK
    <3>3. Latest \in Nat
      BY DEF Latest, Typed, PagesTypeOK
    <3>4. QED BY <3>1, <3>2, <3>3 DEF Calls
  <2>3. CASE Owes(call)
    <3>1. Refreshes(call) /\ Observed(route, dialog)
      BY <2>1, <2>2, <2>3, RefreshesOwn DEF Refreshes, Owes
    <3>2. PICK entry : /\ Updated(call) = With(Key(selection), entry)
                       /\ RequestsEntry(Key(selection), entry)
                            \/ OvertakesEntry(Key(selection), entry)
      <4>1. CASE ~Settles
        <5>1. Updated(call) = With(Key(selection), Overtaken)
          BY <2>3, <4>1 DEF Updated
        <5>2. OvertakesEntry(Key(selection), Overtaken)
          BY <4>1 DEF OvertakesEntry, Overtaken, Settles, Shown, Entry, EntryOf, Fresh
        <5>3. QED BY <5>1, <5>2
      <4>2. CASE Settles
        <5>1. Updated(call) = With(Key(selection), Fetching(Entry(Key(selection)), selection))
          BY <2>3, <3>1, <4>2 DEF Updated, Shown
        <5>2. RequestsEntry(Key(selection), Fetching(Entry(Key(selection)), selection))
          BY <2>1, FetchRequests
        <5>3. QED BY <5>1, <5>2
      <4>3. QED BY <4>1, <4>2
    <3>3. Key(selection) \in DOMAIN Updated(call) /\ Updated(call)[Key(selection)] = entry
      BY <3>2 DEF With, Put
    <3>4. cache' = Showing(Updated(call), route', dialog', selection')
          /\ must' = Put(must, Key(selection), call.version)
      BY <1>1, <2>3 DEF Succeeded
    <3>5. Key(selection) \in DOMAIN cache' /\ cache'[Key(selection)] = entry
      BY <3>1, <3>3, <3>4, ShowingKeeps
    <3>6. DebtMade(Key(selection), call.version)
      BY <2>2, <3>2, <3>4, <3>5 DEF DebtMade
    <3>7. QED BY <2>2, <3>6 DEF MustSteps
  <2>4. QED BY <1>1, <2>3 DEF Succeeded, MustSteps
<1>2. CASE Leave \/ Refresh \/ Cancel \/ GiveUp \/ Submit \/ Confirm \/ OtherChange
             \/ UNCHANGED vars
  BY <1>2 DEF Leave, Refresh, Cancel, GiveUp, Submit, Confirm, Start, OtherChange, vars, MustSteps
<1>3. ASSUME NEW section \in Sections(page), Mount(section) \/ SwitchSection(section)
      PROVE  MustSteps
  BY <1>3 DEF Mount, SwitchSection, MustSteps
<1>4. ASSUME NEW part \in Parts(list), Select(part) PROVE MustSteps
  BY <1>4 DEF Select, MustSteps
<1>5. ASSUME NEW k \in DOMAIN cache, FetchAnswered(k) \/ FetchFailed(k) PROVE MustSteps
  BY <1>5 DEF FetchAnswered, FetchFailed, MustSteps
<1>6. ASSUME NEW control \in Controls,
             Open(control) \/ Ask(control) \/ SubmitForm(control) \/ Press(control)
      PROVE  MustSteps
  BY <1>6 DEF Open, Ask, SubmitForm, Press, Start, MustSteps
<1>7. ASSUME NEW call \in pending, Refused(call) \/ Carried(call) \/ Returned(call)
        \/ LostAnswer(call)
      PROVE  MustSteps
  BY <1>7 DEF Refused, Refuse, Carried, Returned, LostAnswer, MustSteps
<1>8. QED BY <1>1, <1>2, <1>3, <1>4, <1>5, <1>6, <1>7 DEF Next

\* An answer was sent for after the debt was made and shows that version or a later one; a new
\* request is newer than every debt.
LEMMA MustKept ==
  ASSUME Typed, MustShown, CacheSteps, MustSteps, LogSteps, page' = page, list' = list
  PROVE  MustShown'
<1>1. page \in Pages /\ list \in page.queries
  BY DEF Typed, PagesTypeOK
<1>2. Latest \in Nat \ {0} /\ Latest' \in Nat /\ Latest <= Latest'
  BY LogTyped, PageConstants
<1>3. ASSUME NEW k, k \in DOMAIN cache PROVE EntryOK(cache[k])
  BY <1>3, EntriesTyped DEF Entry, EntryOf
<1>4. ASSUME NEW k, NEW entry, RequestsEntry(k, entry), NEW version \in 1..Latest
      PROVE  EntryOwes(entry, version)
  <2>1. PICK fetch : /\ fetch = [args |-> Keyed(k), sent |-> Latest, overtaken |-> FALSE]
                     /\ entry = [Entry(k) EXCEPT !.fetch = fetch] /\ k \in [list.keyed -> 0..1]
    BY <1>4 DEF RequestsEntry
  <2>2. Keyed(k) \in [list.args -> 0..1]
    BY <1>1, <2>1, ListSound DEF Keyed
  <2>3. fetch \in Requests /\ fetch.sent = Latest
    BY <1>2, <2>1, <2>2 DEF Requests
  <2>4. Entry(k) \in Entries
    BY EntryTyped
  <2>5. entry.fetch = fetch
    BY <2>1, <2>4 DEF Entries
  <2>6. fetch # None
    BY <1>1, <2>3, ListSound
  <2>7. QED BY <1>2, <2>3, <2>5, <2>6 DEF EntryOwes
<1>5. ASSUME NEW k, NEW entry, AnswersEntry(k, entry), NEW version \in 1..Latest,
             EntryOwes(cache[k], version)
      PROVE  EntryOwes(entry, version)
  <2>1. cache[k].fetch \in Requests /\ cache[k].fetch.sent \in 1..Latest
    BY <1>3, <1>5 DEF AnswersEntry, EntryOK, Entries
  <2>2. PICK seen \in cache[k].fetch.sent..Latest :
          entry = [data |-> [args |-> cache[k].fetch.args, seen |-> seen,
                             overtaken |-> cache[k].fetch.overtaken],
                   fetch |-> None, failed |-> FALSE]
    BY <1>5 DEF AnswersEntry
  <2>3. seen \in Nat /\ (seen >= version \/ cache[k].fetch.overtaken)
    BY <1>2, <1>5, <2>1 DEF AnswersEntry, EntryOwes
  <2>4. entry.data \in Answers
    BY <2>1, <2>2, <2>3 DEF Requests, Answers
  <2>5. QED BY <1>1, <2>2, <2>3, <2>4, ListSound DEF EntryOwes
<1>6. ASSUME NEW k, NEW entry, FailsEntry(k, entry), NEW version PROVE EntryOwes(entry, version)
  BY <1>3, <1>6 DEF FailsEntry, EntryOwes, EntryOK, Entries
<1>7. ASSUME NEW k, NEW entry, OvertakesEntry(k, entry), NEW version PROVE EntryOwes(entry, version)
  <2>1. cache[k] \in Entries /\ cache[k].fetch \in Requests
    BY <1>3, <1>7 DEF OvertakesEntry, EntryOK, Entries
  <2>2. PICK fetch : /\ fetch = [cache[k].fetch EXCEPT !.overtaken = TRUE]
                     /\ entry = [cache[k] EXCEPT !.fetch = fetch]
    BY <1>7 DEF OvertakesEntry
  <2>3. fetch \in Requests /\ fetch.overtaken
    BY <2>1, <2>2 DEF Requests
  <2>4. entry.fetch = fetch
    BY <2>1, <2>2 DEF Entries
  <2>5. QED BY <1>1, <2>3, <2>4, ListSound DEF EntryOwes
<1>8. ASSUME NEW k \in DOMAIN must
      PROVE  k \in DOMAIN cache' /\ EntryOwes(cache'[k], must[k])
  <2>1. k \in DOMAIN cache /\ EntryOwes(cache[k], must[k]) /\ must[k] \in 1..Latest
    BY DEF MustShown
  <2>2. k \in DOMAIN cache' /\ EntrySteps(k, cache'[k])
    BY <2>1 DEF CacheSteps
  <2>3. QED BY <1>4, <1>5, <1>6, <1>7, <2>1, <2>2 DEF EntrySteps
<1>9. CASE must' = must
  <2>1. ASSUME NEW k \in DOMAIN must' PROVE must'[k] \in 1..Latest'
    BY <1>2, <1>9, <2>1 DEF MustShown
  <2>2. QED BY <1>8, <1>9, <2>1 DEF MustShown
<1>10. ASSUME log' = log, NEW k, NEW version, DebtMade(k, version) PROVE MustShown'
  <2>1. DOMAIN must' = DOMAIN must \cup {k} /\ must'[k] = version
        /\ \A j \in DOMAIN must : j # k => must'[j] = must[j]
    BY <1>10 DEF Put, DebtMade
  <2>2. version \in 1..Latest /\ k \in DOMAIN cache' /\ EntryOwes(cache'[k], version)
    BY <1>4, <1>7, <1>10 DEF DebtMade
  <2>3. Latest' = Latest
    BY <1>10 DEF Latest
  <2>4. ASSUME NEW j \in DOMAIN must'
        PROVE  j \in DOMAIN cache' /\ must'[j] \in 1..Latest /\ EntryOwes(cache'[j], must'[j])
    <3>1. CASE j = k
      BY <2>1, <2>2, <3>1
    <3>2. CASE j # k
      <4>1. j \in DOMAIN must /\ must'[j] = must[j]
        BY <2>1, <2>4, <3>2
      <4>2. QED BY <1>8, <4>1 DEF MustShown
    <3>3. QED BY <3>1, <3>2
  <2>5. QED BY <2>3, <2>4 DEF MustShown
<1>11. QED BY <1>9, <1>10 DEF MustSteps

\* The debts kept are those the user reads of.
LEMMA ReadsOwnWrites ==
  ASSUME Typed, MustShown
  PROVE  ReadYourWrites
  BY DEF MustShown, ReadYourWrites, EntryOwes, Shown, ShownVersion, Entry, EntryOf

\* Entries that follow their keys are of the arguments selected.
LEMMA ShowsSelection ==
  ASSUME Typed, FollowsKey
  PROVE  ShownBelongsToSelection
<1>1. page \in Pages /\ list \in page.queries /\ selection \in [Parts(list) -> 0..1]
  BY DEF Typed, PagesTypeOK
<1>2. Keyed(Key(selection)) = Args(selection)
  BY <1>1, KeysTyped
<1>3. QED BY <1>2 DEF ShownBelongsToSelection, FollowsKey, EntryFollows, Shown, Entry, EntryOf, Fresh

-----------------------------------------------------------------------------
\* The steps of the dialogs and calls, and the types of what they count.

\* The numbers of a typed state and their bounds.
LEMMA Bounds ==
  ASSUME Typed
  PROVE  /\ clicks \in 0..budget.clicks /\ form \in 0..clicks /\ budget.clicks \in Nat
         /\ moves \in 0..budget.moves /\ budget.moves \in Nat
         /\ Latest \in 1..MaxVersions /\ MaxVersions \in Nat
         /\ page \in Pages /\ list \in page.queries /\ selection \in [Parts(list) -> 0..1]
  BY PageConstants DEF Typed, PagesTypeOK, Latest

Quiet == UNCHANGED <<route, dialog, confirm, form, clicks, pending, applied, lost>>

\* The calls in flight, for nobody any more.
Gone == {[call EXCEPT !.here = FALSE] : call \in pending}

\* A call is started from the dialog, from the form, by a button, or from the confirmation.
FromDialog(control, gen, at, here) ==
  /\ dialog # None /\ control = dialog.control /\ control.shape # "viewer" /\ ~Blocked(control)
  /\ gen = dialog.gen /\ at = dialog.at /\ here = TRUE
FromForm(control, gen, at, here) ==
  /\ control.shape = "form" /\ Offered(control) /\ ~Blocked(control)
  /\ gen = form /\ at = 0 /\ here = TRUE
FromButton(control, gen, at, here) ==
  control.shape = "button" /\ Offered(control) /\ gen = clicks + 1 /\ at = RowOf(control) /\ here = TRUE
FromConfirm(control, gen, at, here) ==
  /\ confirm # None /\ control = confirm.control
  /\ gen = confirm.gen /\ at = confirm.at /\ here = confirm.here
  /\ \A call \in pending : call.gen # gen
Begins(control, gen, at, here) ==
  /\ Start(control, gen, at, here)
  /\ \/ FromDialog(control, gen, at, here) \/ FromForm(control, gen, at, here)
     \/ FromButton(control, gen, at, here) \/ FromConfirm(control, gen, at, here)
Starts == \E control \in Controls : \E gen, at, here : Begins(control, gen, at, here)

\* What happens to the dialogs and calls: nothing, or one of these actions.
CallSteps ==
  \/ Quiet \/ Leave \/ Cancel \/ GiveUp \/ Starts
  \/ \E section \in Sections(page) : Mount(section) \/ SwitchSection(section)
  \/ \E control \in Controls : Open(control) \/ Ask(control)
  \/ \E call \in pending : \/ Refused(call) \/ Carried(call) \/ Succeeded(call) \/ Returned(call)
                           \/ LostAnswer(call)

\* Every step of the console does one of CallSteps.
LEMMA CallStepsTaken ==
  ASSUME Typed, [Next]_vars
  PROVE  CallSteps
<1>1. CASE Refresh \/ OtherChange \/ UNCHANGED vars
  BY <1>1 DEF Refresh, OtherChange, vars, Quiet, CallSteps
<1>2. ASSUME NEW part \in Parts(list), Select(part) PROVE Quiet
  BY <1>2 DEF Select, Quiet
<1>3. ASSUME NEW k \in DOMAIN cache, FetchAnswered(k) \/ FetchFailed(k) PROVE Quiet
  BY <1>3 DEF FetchAnswered, FetchFailed, Quiet
<1>4. CASE Submit
  <2>1. dialog.control \in Controls
    BY <1>4 DEF Submit, Typed, PagesTypeOK
  <2>2. FromDialog(dialog.control, dialog.gen, dialog.at, TRUE)
    BY <1>4 DEF Submit, FromDialog
  <2>3. Begins(dialog.control, dialog.gen, dialog.at, TRUE)
    BY <1>4, <2>2 DEF Submit, Begins
  <2>4. QED BY <2>1, <2>3 DEF Starts, CallSteps
<1>5. CASE Confirm
  <2>1. confirm.control \in Controls
    BY <1>5 DEF Confirm, Typed, PagesTypeOK
  <2>2. FromConfirm(confirm.control, confirm.gen, confirm.at, confirm.here)
    BY <1>5 DEF Confirm, FromConfirm
  <2>3. Begins(confirm.control, confirm.gen, confirm.at, confirm.here)
    BY <1>5, <2>2 DEF Confirm, Begins
  <2>4. QED BY <2>1, <2>3 DEF Starts, CallSteps
<1>6. ASSUME NEW control \in Controls, SubmitForm(control) PROVE Starts
  <2>1. FromForm(control, form, 0, TRUE)
    BY <1>6 DEF SubmitForm, FromForm
  <2>2. Begins(control, form, 0, TRUE)
    BY <1>6, <2>1 DEF SubmitForm, Begins
  <2>3. QED BY <2>2 DEF Starts
<1>7. ASSUME NEW control \in Controls, Press(control) PROVE Starts
  <2>1. FromButton(control, clicks + 1, RowOf(control), TRUE)
    BY <1>7 DEF Press, FromButton
  <2>2. Begins(control, clicks + 1, RowOf(control), TRUE)
    BY <1>7, <2>1 DEF Press, Begins
  <2>3. QED BY <2>2 DEF Starts
<1>8. QED BY <1>1, <1>2, <1>3, <1>4, <1>5, <1>6, <1>7 DEF Next, CallSteps

\* A success leaves the user where he is, or shows another section of a page without a form.
LEMMA TargetTyped ==
  ASSUME Typed, NEW call \in pending
  PROVE  /\ MutationOf(call.act) \in page.mutations /\ MutationOf(call.act).call = call.act
         /\ \/ MutationOf(call.act).goes = Stays /\ Target(MutationOf(call.act)) = route
            \/ /\ MutationOf(call.act).goes # Stays
               /\ Target(MutationOf(call.act)) \in Sections(page)
               /\ Target(MutationOf(call.act)) # None
               /\ \A control \in Controls : control.shape # "form"
<1>1. call.act \in Acts /\ page \in Pages
  BY DEF Typed, Calls
<1>2. MutationOf(call.act) \in page.mutations /\ MutationOf(call.act).call = call.act
  BY <1>1, MutationRun
<1>3. CASE MutationOf(call.act).goes = Stays
  BY <1>2, <1>3 DEF Target
<1>4. CASE MutationOf(call.act).goes # Stays
  <2>1. Target(MutationOf(call.act)) = CHOOSE section \in Pages :
                                         section.key = MutationOf(call.act).goes
    BY <1>4 DEF Target
  <2>2. /\ Target(MutationOf(call.act)) \in Sections(page)
        /\ \A control \in Controls : control.shape # "form"
    BY <1>1, <1>2, <1>4, <2>1, TargetListed DEF Controls
  <2>3. Target(MutationOf(call.act)) # None
    BY <1>1, <2>2, SectionsListed, PageConstants
  <2>4. QED BY <1>2, <1>4, <2>2, <2>3
<1>5. QED BY <1>3, <1>4

\* Every step keeps the selection one of the list's parts.
LEMMA SelectionTyped ==
  ASSUME Typed, [Next]_vars
  PROVE  selection' \in [Parts(list) -> 0..1] /\ moves' \in 0..budget.moves
<1>1. selection \in [Parts(list) -> 0..1] /\ moves \in 0..budget.moves /\ budget.moves \in Nat
  BY Bounds
<1>2. ASSUME NEW section \in Sections(page), Mount(section) \/ SwitchSection(section)
      PROVE  selection' \in [Parts(list) -> 0..1] /\ moves' \in 0..budget.moves
  BY <1>1, <1>2, KeptTyped DEF Mount, SwitchSection
<1>3. ASSUME NEW part \in Parts(list), Select(part)
      PROVE  selection' \in [Parts(list) -> 0..1] /\ moves' \in 0..budget.moves
  BY <1>1, <1>3 DEF Select
<1>4. CASE Leave
  BY <1>1, <1>4 DEF Leave
<1>5. CASE UNCHANGED <<selection, moves>>
  BY <1>1, <1>5
<1>6. CASE Refresh \/ Cancel \/ GiveUp \/ Submit \/ Confirm \/ OtherChange \/ UNCHANGED vars
  BY <1>5, <1>6 DEF Refresh, Cancel, GiveUp, Submit, Confirm, Start, OtherChange, vars
<1>7. ASSUME NEW k \in DOMAIN cache, FetchAnswered(k) \/ FetchFailed(k)
      PROVE  UNCHANGED <<selection, moves>>
  BY <1>7 DEF FetchAnswered, FetchFailed
<1>8. ASSUME NEW control \in Controls,
             Open(control) \/ Ask(control) \/ SubmitForm(control) \/ Press(control)
      PROVE  UNCHANGED <<selection, moves>>
  BY <1>8 DEF Open, Ask, SubmitForm, Press, Start
<1>9. ASSUME NEW call \in pending,
             Refused(call) \/ Carried(call) \/ Returned(call) \/ LostAnswer(call)
      PROVE  UNCHANGED <<selection, moves>>
  BY <1>9 DEF Refused, Refuse, Carried, Returned, LostAnswer
<1>10. ASSUME NEW call \in pending, Succeeded(call)
       PROVE  selection' \in [Parts(list) -> 0..1] /\ moves' \in 0..budget.moves
  BY <1>1, <1>10, KeptTyped DEF Succeeded
<1>11. QED BY <1>2, <1>3, <1>4, <1>5, <1>6, <1>7, <1>8, <1>9, <1>10 DEF Next

\* The clicks are counted up within their bound; a form has a number since its page was opened.
CountsTyped ==
  /\ clicks' \in clicks..budget.clicks /\ form' \in 0..clicks'
  /\ route' # None \/ confirm' # None \/ pending' # {} => form' # 0

\* Every step keeps the counts so.
LEMMA CountsKept ==
  ASSUME Typed, CallSteps
  PROVE  CountsTyped
<1>1. /\ clicks \in 0..budget.clicks /\ form \in 0..clicks /\ budget.clicks \in Nat
      /\ route # None \/ confirm # None \/ pending # {} => form # 0
      /\ dialog # None => route # None
  BY Bounds DEF Typed, PagesTypeOK
<1>2. ASSUME clicks' = clicks, form' = form,
             route' # None \/ confirm' # None \/ pending' # {}
               => route # None \/ confirm # None \/ pending # {}
      PROVE  CountsTyped
  BY <1>1, <1>2 DEF CountsTyped
<1>3. CASE Quiet \/ Leave \/ Cancel \/ GiveUp
  BY <1>2, <1>3 DEF Quiet, Leave, Elsewhere, Cancel, GiveUp
<1>4. ASSUME NEW section \in Sections(page), Mount(section) \/ SwitchSection(section)
      PROVE  CountsTyped
  BY <1>1, <1>4 DEF Mount, SwitchSection, CountsTyped
<1>5. CASE Starts
  <2>1. PICK control \in Controls : \E gen, at, here : Begins(control, gen, at, here)
    BY <1>5 DEF Starts
  <2>2. PICK gen, at, here : Begins(control, gen, at, here)
    BY <2>1
  <2>3. route # None \/ confirm # None
    BY <1>1, <2>2 DEF Begins, FromDialog, FromForm, FromButton, FromConfirm, Offered
  <2>4. clicks < budget.clicks /\ clicks' = clicks + 1 /\ form' = form
    BY <2>2 DEF Begins, Start
  <2>5. QED BY <1>1, <2>3, <2>4 DEF CountsTyped
<1>6. ASSUME NEW control \in Controls, Open(control) \/ Ask(control) PROVE CountsTyped
  BY <1>1, <1>6 DEF Open, Ask, Offered, CountsTyped
<1>7. ASSUME NEW call \in pending, Succeeded(call) PROVE CountsTyped
  <2>1. call.id \in 1..clicks
    BY DEF Typed, PagesTypeOK
  <2>2. clicks' = clicks /\ form' \in {form, call.id}
    BY <1>7 DEF Succeeded
  <2>3. QED BY <1>1, <2>1, <2>2 DEF CountsTyped
<1>8. ASSUME NEW call \in pending, Refused(call) \/ Carried(call) \/ Returned(call)
        \/ LostAnswer(call)
      PROVE  CountsTyped
  BY <1>2, <1>8 DEF Refused, Refuse, Carried, Returned, LostAnswer
<1>9. QED BY <1>3, <1>4, <1>5, <1>6, <1>7, <1>8 DEF CallSteps

\* The section on show is one of the page's, or none; one who is gone awaits no call.
RouteTyped ==
  /\ route \in Sections(page) \cup {None}
  /\ \A call \in pending : call.here => route # None

LEMMA RouteKept ==
  ASSUME Typed, CallSteps, page' = page
  PROVE  RouteTyped'
<1>1. /\ RouteTyped /\ pending \subseteq Calls(clicks, Latest)
      /\ dialog # None => route # None
      /\ confirm # None => (confirm.here => route # None)
  BY DEF Typed, PagesTypeOK, RouteTyped
<1>2. \A section \in Sections(page) : section # None
  BY SectionsListed, PageConstants DEF Typed
<1>3. ASSUME route' = route, \A call \in pending' : call.here => route # None
      PROVE  RouteTyped'
  BY <1>1, <1>3 DEF RouteTyped
<1>4. CASE Quiet \/ Cancel \/ GiveUp
  BY <1>1, <1>3, <1>4 DEF Quiet, Cancel, GiveUp, RouteTyped
<1>5. CASE Leave
  <2>1. route' = None /\ \A call \in pending' : ~call.here
    BY <1>1, <1>5 DEF Leave, Calls
  <2>2. QED BY <2>1 DEF RouteTyped
<1>6. ASSUME NEW section \in Sections(page), Mount(section) \/ SwitchSection(section)
      PROVE  RouteTyped'
  BY <1>2, <1>6 DEF Mount, SwitchSection, RouteTyped
<1>7. CASE Starts
  <2>1. PICK control \in Controls : \E gen, at, here : Begins(control, gen, at, here)
    BY <1>7 DEF Starts
  <2>2. PICK gen, at, here : Begins(control, gen, at, here)
    BY <2>1
  <2>3. here => route # None
    BY <1>1, <2>2 DEF Begins, FromDialog, FromForm, FromButton, FromConfirm, Offered
  <2>4. /\ route' = route
        /\ pending' = pending \cup {[id |-> clicks + 1, act |-> control.act, gen |-> gen, at |-> at,
                                     here |-> here, phase |-> "sent", version |-> 0]}
    BY <2>2 DEF Begins, Start
  <2>5. QED BY <1>1, <1>3, <2>3, <2>4 DEF RouteTyped
<1>8. ASSUME NEW control \in Controls, Open(control) \/ Ask(control) PROVE RouteTyped'
  BY <1>1, <1>3, <1>8 DEF Open, Ask, RouteTyped
<1>9. ASSUME NEW call \in pending, Succeeded(call) PROVE RouteTyped'
  <2>1. route' = Target(MutationOf(call.act)) /\ pending' \subseteq pending
    BY <1>9 DEF Succeeded
  <2>2. route' = route \/ (route' \in Sections(page) /\ route' # None)
    BY <2>1, TargetTyped
  <2>3. QED BY <1>1, <2>1, <2>2 DEF RouteTyped
<1>10. ASSUME NEW call \in pending, Returned(call) \/ LostAnswer(call) PROVE RouteTyped'
  BY <1>1, <1>3, <1>10 DEF Returned, LostAnswer, RouteTyped
<1>11. ASSUME NEW call \in pending, Refused(call) \/ Carried(call) PROVE RouteTyped'
  <2>1. PICK next : Becomes(call, next) /\ next.here = call.here
    <3>1. CASE Refused(call)
      <4>1. [call EXCEPT !.phase = "refused"].here = call.here
        BY <1>1 DEF Calls
      <4>2. QED BY <3>1, <4>1 DEF Refused, Refuse
    <3>2. CASE Carried(call)
      <4>1. [call EXCEPT !.phase = "applied", !.version = Len(log')].here = call.here
        BY <1>1 DEF Calls
      <4>2. QED BY <3>2, <4>1 DEF Carried
    <3>3. QED BY <1>11, <3>1, <3>2
  <2>2. route' = route
    BY <1>11 DEF Refused, Refuse, Carried
  <2>3. QED BY <1>1, <1>3, <2>1, <2>2 DEF RouteTyped, Becomes
<1>12. QED BY <1>4, <1>5, <1>6, <1>7, <1>8, <1>9, <1>10, <1>11 DEF CallSteps

\* The row that a control is pressed on is one that was served.
LEMMA RowTyped ==
  ASSUME Typed, NEW control
  PROVE  RowOf(control) \in 0..Latest
<1>1. EntryOK(Shown) /\ Latest \in Nat
  BY EntriesTyped, Bounds DEF Shown
<1>2. QED BY <1>1 DEF RowOf, ShownVersion, EntryOK

\* An open dialog is of a control of the page and of a click before.
DialogTyped ==
  dialog # None =>
    /\ route # None /\ dialog.control \in Controls /\ dialog.gen \in 1..clicks
    /\ dialog.at \in 0..Latest
    /\ dialog.control.shape \in {"dialog", "guarded", "viewer"}

\* Every step keeps the dialog so.
LEMMA DialogKept ==
  ASSUME Typed, CallSteps, CountsTyped, page' = page, Latest' \in Nat, Latest <= Latest'
  PROVE  DialogTyped'
<1>1. /\ clicks \in Nat /\ Latest \in Nat /\ DialogTyped /\ clicks' \in Nat /\ clicks <= clicks'
  BY Bounds DEF Typed, PagesTypeOK, DialogTyped, CountsTyped
<1>2. CASE dialog' = None
  BY <1>2 DEF DialogTyped
<1>3. Controls' = Controls
  BY DEF Controls
<1>4. CASE dialog' = dialog /\ (route # None => route' # None)
  BY <1>1, <1>3, <1>4 DEF DialogTyped
<1>5. ASSUME NEW control \in Controls, Open(control) PROVE DialogTyped'
  <2>1. RowOf(control) \in 0..Latest
    BY RowTyped
  <2>2. /\ route' # None /\ clicks' = clicks + 1
        /\ control.shape \in {"dialog", "guarded", "viewer"}
        /\ dialog' = [control |-> control, gen |-> clicks + 1, at |-> RowOf(control)]
    BY <1>5 DEF Open, Offered
  <2>3. QED BY <1>1, <1>3, <2>1, <2>2 DEF DialogTyped
<1>6. CASE Quiet \/ Leave \/ Cancel \/ GiveUp
  BY <1>2, <1>4, <1>6 DEF Quiet, Leave, Cancel, GiveUp
<1>7. ASSUME NEW section \in Sections(page), Mount(section) \/ SwitchSection(section)
      PROVE  DialogTyped'
  <2>1. section # None
    BY SectionsListed, PageConstants DEF Typed
  <2>2. QED BY <1>4, <1>7, <2>1 DEF Mount, SwitchSection
<1>8. CASE Starts
  BY <1>4, <1>8 DEF Starts, Begins, Start
<1>9. ASSUME NEW control \in Controls, Ask(control) PROVE DialogTyped'
  BY <1>4, <1>9 DEF Ask
<1>10. ASSUME NEW call \in pending, Succeeded(call) PROVE DialogTyped'
  <2>1. dialog' \in {None, dialog} /\ route' = Target(MutationOf(call.act))
    BY <1>10 DEF Succeeded, Lowered
  <2>2. QED BY <1>2, <1>4, <2>1, TargetTyped
<1>11. ASSUME NEW call \in pending, Refused(call) \/ Carried(call) \/ Returned(call)
        \/ LostAnswer(call)
      PROVE  DialogTyped'
  BY <1>4, <1>11 DEF Refused, Refuse, Carried, Returned, LostAnswer
<1>12. QED BY <1>5, <1>6, <1>7, <1>8, <1>9, <1>10, <1>11 DEF CallSteps

\* A confirmation is of a control of the page and of a click before.
ConfirmTyped ==
  confirm # None =>
    /\ confirm \in Confirmations(clicks, Latest) /\ confirm.control.shape = "confirm"
    /\ confirm.here => route # None

\* A confirmation for nobody any more is one still.
LEMMA ElsewhereIs ==
  ASSUME Typed, confirm # None
  PROVE  /\ Elsewhere # None /\ Elsewhere \in Confirmations(clicks, Latest) /\ ~Elsewhere.here
         /\ Elsewhere.control = confirm.control /\ Elsewhere.gen = confirm.gen
         /\ Elsewhere.at = confirm.at
<1>1. confirm \in Confirmations(clicks, Latest) /\ page \in Pages /\ clicks \in Nat /\ Latest \in Nat
  BY Bounds DEF Typed
<1>2. Elsewhere = [confirm EXCEPT !.here = FALSE]
  BY DEF Elsewhere
<1>3. /\ Elsewhere \in Confirmations(clicks, Latest) /\ ~Elsewhere.here
      /\ Elsewhere.control = confirm.control /\ Elsewhere.gen = confirm.gen
      /\ Elsewhere.at = confirm.at
  BY <1>1, <1>2 DEF Confirmations
<1>4. Controls \subseteq UNION {p.controls : p \in Pages}
  <2>1. ASSUME NEW control \in Controls PROVE \E p \in Pages : control \in p.controls
    <3>1. PICK section \in Sections(page) : control \in section.controls
      BY <2>1 DEF Controls, ControlsOf
    <3>2. section \in Pages
      BY <1>1, <3>1, SectionsListed
    <3>3. QED BY <3>1, <3>2
  <2>2. QED BY <2>1
<1>5. Elsewhere \in [control : UNION {p.controls : p \in Pages}, gen : Nat, at : Nat, here : BOOLEAN]
  BY <1>1, <1>3, <1>4 DEF Confirmations
<1>6. QED BY <1>3, <1>5, PageConstants

\* Every step keeps the confirmation so.
LEMMA ConfirmKept ==
  ASSUME Typed, CallSteps, CountsTyped, page' = page, Latest' \in Nat, Latest <= Latest'
  PROVE  ConfirmTyped'
<1>1. /\ clicks \in Nat /\ Latest \in Nat /\ ConfirmTyped /\ clicks' \in Nat /\ clicks <= clicks'
  BY Bounds DEF Typed, PagesTypeOK, ConfirmTyped, CountsTyped
<1>2. Controls' = Controls
  BY DEF Controls
<1>3. Confirmations(clicks, Latest) \subseteq Confirmations(clicks', Latest')
  BY <1>1 DEF Confirmations
<1>4. CASE confirm' = None
  BY <1>4 DEF ConfirmTyped
<1>5. ASSUME confirm' \in Confirmations(clicks', Latest'), confirm'.control.shape = "confirm",
             confirm'.here => route' # None
      PROVE  ConfirmTyped'
  BY <1>2, <1>5 DEF ConfirmTyped, Confirmations
<1>6. CASE confirm' = confirm /\ (route # None => route' # None)
  BY <1>1, <1>3, <1>4, <1>5, <1>6 DEF ConfirmTyped
<1>7. ASSUME NEW control \in Controls, Ask(control) PROVE ConfirmTyped'
  <2>1. RowOf(control) \in 0..Latest
    BY RowTyped
  <2>2. /\ route' # None /\ clicks' = clicks + 1 /\ control.shape = "confirm"
        /\ confirm' = [control |-> control, gen |-> clicks + 1, at |-> RowOf(control),
                       here |-> TRUE]
    BY <1>7 DEF Ask, Offered
  <2>3. confirm' \in Confirmations(clicks', Latest')
    BY <1>1, <2>1, <2>2 DEF Confirmations
  <2>4. QED BY <1>5, <2>2, <2>3
<1>8. CASE Leave
  <2>1. confirm' = Elsewhere
    BY <1>8 DEF Leave
  <2>2. CASE confirm = None
    BY <1>4, <2>1, <2>2 DEF Elsewhere
  <2>3. CASE confirm # None
    <3>1. confirm' \in Confirmations(clicks', Latest') /\ confirm'.control = confirm.control
            /\ ~confirm'.here
      BY <1>3, <2>1, <2>3, ElsewhereIs
    <3>2. QED BY <1>1, <1>5, <2>3, <3>1 DEF ConfirmTyped
  <2>4. QED BY <2>2, <2>3
<1>9. CASE Quiet \/ Cancel \/ GiveUp
  BY <1>4, <1>6, <1>9 DEF Quiet, Cancel, GiveUp
<1>10. ASSUME NEW section \in Sections(page), Mount(section) \/ SwitchSection(section)
      PROVE  ConfirmTyped'
  <2>1. section # None
    BY SectionsListed, PageConstants DEF Typed
  <2>2. QED BY <1>6, <1>10, <2>1 DEF Mount, SwitchSection
<1>11. CASE Starts
  BY <1>6, <1>11 DEF Starts, Begins, Start
<1>12. ASSUME NEW control \in Controls, Open(control) PROVE ConfirmTyped'
  BY <1>6, <1>12 DEF Open
<1>13. ASSUME NEW call \in pending, Succeeded(call) PROVE ConfirmTyped'
  <2>1. confirm' \in {None, confirm} /\ route' = Target(MutationOf(call.act))
    BY <1>13 DEF Succeeded
  <2>2. QED BY <1>4, <1>6, <2>1, TargetTyped
<1>14. ASSUME NEW call \in pending, Refused(call) \/ Carried(call) \/ Returned(call)
        \/ LostAnswer(call)
      PROVE  ConfirmTyped'
  BY <1>6, <1>14 DEF Refused, Refuse, Carried, Returned, LostAnswer
<1>15. QED BY <1>7, <1>8, <1>9, <1>10, <1>11, <1>12, <1>13, <1>14 DEF CallSteps

-----------------------------------------------------------------------------
\* The types of the calls, and that every step keeps the types.

\* Calls stay typed as clicks and versions are counted up.
LEMMA CallsGrow ==
  ASSUME NEW g \in Nat, NEW h \in Nat, g <= h, NEW l \in Nat, NEW m \in Nat, l <= m
  PROVE  Calls(g, l) \subseteq Calls(h, m)
  BY DEF Calls

\* A call stays typed when the server applies it.
LEMMA CallApplied ==
  ASSUME NEW g \in Nat, NEW l \in Nat, NEW call \in Calls(g, l)
  PROVE  [call EXCEPT !.phase = "applied", !.version = l] \in Calls(g, l)
<1>1. [call EXCEPT !.phase = "applied"] \in Calls(g, l)
  BY DEF Calls
<1>2. ASSUME NEW c \in Calls(g, l) PROVE [c EXCEPT !.version = l] \in Calls(g, l)
  BY DEF Calls
<1>3. [call EXCEPT !.phase = "applied", !.version = l]
        = [[call EXCEPT !.phase = "applied"] EXCEPT !.version = l]
  BY DEF Calls
<1>4. QED BY <1>1, <1>2, <1>3

\* What a call is started with is of the page, and numbered by a click before or its own.
LEMMA BegunTyped ==
  ASSUME Typed, NEW control \in Controls, NEW gen, NEW at, NEW here,
         Begins(control, gen, at, here)
  PROVE  /\ control.shape # "viewer" /\ control.act \in Acts
         /\ gen \in 1..clicks + 1 /\ at \in 0..Latest /\ here \in BOOLEAN
         /\ clicks' = clicks + 1
         /\ pending' = pending \cup {[id |-> clicks + 1, act |-> control.act, gen |-> gen,
                                      at |-> at, here |-> here, phase |-> "sent", version |-> 0]}
<1>1. clicks \in Nat /\ page \in Pages /\ Latest \in Nat
  BY Bounds
<1>2. control.shape # "viewer" /\ gen \in 1..clicks + 1 /\ at \in 0..Latest /\ here \in BOOLEAN
  <2>1. CASE FromDialog(control, gen, at, here)
    BY <1>1, <2>1 DEF FromDialog, Typed, PagesTypeOK
  <2>2. CASE FromForm(control, gen, at, here)
    BY <1>1, <2>2, Bounds DEF FromForm, Offered, Typed
  <2>3. CASE FromButton(control, gen, at, here)
    BY <1>1, <2>3, RowTyped DEF FromButton
  <2>4. CASE FromConfirm(control, gen, at, here)
    <3>1. confirm \in Confirmations(clicks, Latest) /\ confirm.control.shape = "confirm"
      BY <2>4 DEF FromConfirm, Typed, PagesTypeOK
    <3>2. QED BY <1>1, <2>4, <3>1 DEF FromConfirm, Confirmations
  <2>5. QED BY <2>1, <2>2, <2>3, <2>4 DEF Begins
<1>3. \E mutation \in page.mutations : mutation.call = control.act
  BY <1>1, <1>2, PageSound DEF Sound, ControlsRun
<1>4. control.act \in Acts
  BY <1>3 DEF Acts
<1>5. QED BY <1>2, <1>4 DEF Begins, Start

\* Every step keeps the calls in flight typed.
LEMMA PendingTyped ==
  ASSUME Typed, CallSteps, CountsTyped, LogSteps, page' = page, list' = list
  PROVE  pending' \subseteq Calls(clicks', Latest')
<1>1. /\ clicks \in Nat /\ clicks' \in Nat /\ clicks <= clicks' /\ page \in Pages
      /\ Latest \in Nat \ {0} /\ Latest' \in Nat \ {0} /\ Latest <= Latest'
      /\ pending \subseteq Calls(clicks, Latest)
  BY Bounds, LogTyped DEF CountsTyped, Typed
<1>2. ASSUME NEW call \in Calls(clicks, Latest)
      PROVE  call \in Calls(clicks', Latest')
               /\ [call EXCEPT !.here = FALSE] \in Calls(clicks', Latest')
  <2>1. call \in Calls(clicks', Latest')
    BY <1>1, CallsGrow
  <2>2. [call EXCEPT !.here = FALSE] \in Calls(clicks', Latest')
    BY <2>1 DEF Calls
  <2>3. QED BY <2>1, <2>2
<1>3. CASE pending' \subseteq pending
  BY <1>1, <1>2, <1>3
<1>4. CASE Leave
  <2>1. ASSUME NEW call \in pending
        PROVE  [call EXCEPT !.here = FALSE] \in Calls(clicks', Latest')
    BY <1>1, <1>2, <2>1
  <2>2. QED BY <1>4, <2>1 DEF Leave
<1>5. CASE Quiet \/ Cancel \/ GiveUp
  BY <1>3, <1>5 DEF Quiet, Cancel, GiveUp
<1>6. ASSUME NEW section \in Sections(page), Mount(section) \/ SwitchSection(section)
      PROVE  pending' \subseteq Calls(clicks', Latest')
  BY <1>3, <1>6 DEF Mount, SwitchSection
<1>7. ASSUME NEW control \in Controls, Open(control) \/ Ask(control)
      PROVE  pending' \subseteq Calls(clicks', Latest')
  BY <1>3, <1>7 DEF Open, Ask
<1>8. CASE Starts
  <2>1. PICK control \in Controls : \E gen, at, here : Begins(control, gen, at, here)
    BY <1>8 DEF Starts
  <2>2. PICK gen, at, here : Begins(control, gen, at, here)
    BY <2>1
  <2>3. /\ control.act \in Acts
        /\ gen \in 1..clicks + 1 /\ at \in 0..Latest /\ here \in BOOLEAN
        /\ clicks' = clicks + 1
        /\ pending' = pending \cup {[id |-> clicks + 1, act |-> control.act, gen |-> gen,
                                     at |-> at, here |-> here, phase |-> "sent", version |-> 0]}
    BY <2>2, BegunTyped
  <2>4. [id |-> clicks + 1, act |-> control.act, gen |-> gen, at |-> at, here |-> here,
         phase |-> "sent", version |-> 0] \in Calls(clicks', Latest')
    BY <1>1, <2>3 DEF Calls
  <2>5. QED BY <1>1, <1>2, <2>3, <2>4
<1>9. ASSUME NEW call \in pending, Refused(call) PROVE pending' \subseteq Calls(clicks', Latest')
  <2>1. [call EXCEPT !.phase = "refused"] \in Calls(clicks', Latest')
    BY <1>1, <1>2 DEF Calls
  <2>2. QED BY <1>1, <1>2, <1>9, <2>1 DEF Refused, Refuse, Becomes
<1>10. ASSUME NEW call \in pending, Carried(call) PROVE pending' \subseteq Calls(clicks', Latest')
  <2>1. [call EXCEPT !.phase = "applied", !.version = Latest'] \in Calls(clicks', Latest')
    <3>1. call \in Calls(clicks', Latest')
      BY <1>1, <1>2
    <3>2. QED BY <1>1, <3>1, CallApplied
  <2>2. pending' = (pending \ {call}) \cup {[call EXCEPT !.phase = "applied", !.version = Latest']}
    BY <1>10 DEF Carried, Becomes, Latest
  <2>3. QED BY <1>1, <1>2, <2>1, <2>2
<1>11. ASSUME NEW call \in pending, Succeeded(call) \/ Returned(call) \/ LostAnswer(call)
       PROVE  pending' \subseteq Calls(clicks', Latest')
  BY <1>3, <1>11 DEF Succeeded, Returned, LostAnswer
<1>12. QED BY <1>4, <1>5, <1>6, <1>7, <1>8, <1>9, <1>10, <1>11 DEF CallSteps

\* An applied call knows the version it made.
Dated == \A call \in pending : call.phase = "applied" => call.version # 0

\* Every step keeps the applied calls dated.
LEMMA DatedKept ==
  ASSUME Typed, CallSteps, LogSteps, page' = page, list' = list
  PROVE  Dated'
<1>1. Dated /\ Latest' # 0 /\ pending \subseteq Calls(clicks, Latest)
  BY LogTyped DEF Typed, Dated
<1>2. CASE pending' \subseteq pending
  BY <1>1, <1>2 DEF Dated
<1>3. CASE Leave
  <2>1. ASSUME NEW call \in pending
        PROVE  [call EXCEPT !.here = FALSE].phase = call.phase
               /\ [call EXCEPT !.here = FALSE].version = call.version
    BY <1>1, <2>1 DEF Calls
  <2>2. ASSUME NEW call \in pending', call.phase = "applied" PROVE call.version # 0
    <3>1. PICK c \in pending : call = [c EXCEPT !.here = FALSE]
      BY <1>3, <2>2 DEF Leave
    <3>2. c.phase = call.phase /\ c.version = call.version
      BY <2>1, <3>1
    <3>3. QED BY <1>1, <2>2, <3>2 DEF Dated
  <2>3. QED BY <2>2 DEF Dated
<1>4. CASE Quiet \/ Cancel \/ GiveUp
  BY <1>2, <1>4 DEF Quiet, Cancel, GiveUp
<1>5. ASSUME NEW section \in Sections(page), Mount(section) \/ SwitchSection(section) PROVE Dated'
  BY <1>2, <1>5 DEF Mount, SwitchSection
<1>6. ASSUME NEW control \in Controls, Open(control) \/ Ask(control) PROVE Dated'
  BY <1>2, <1>6 DEF Open, Ask
<1>7. CASE Starts
  BY <1>1, <1>7 DEF Starts, Begins, Start, Dated
<1>8. ASSUME NEW call \in pending, Refused(call) PROVE Dated'
  BY <1>1, <1>8 DEF Refused, Refuse, Becomes, Dated, Calls
<1>9. ASSUME NEW call \in pending, Carried(call) PROVE Dated'
  BY <1>1, <1>9 DEF Carried, Becomes, Dated, Latest, Calls
<1>10. ASSUME NEW call \in pending, Succeeded(call) \/ Returned(call) \/ LostAnswer(call)
      PROVE  Dated'
  BY <1>2, <1>10 DEF Succeeded, Returned, LostAnswer
<1>11. QED BY <1>3, <1>4, <1>5, <1>6, <1>7, <1>8, <1>9, <1>10 DEF CallSteps

\* What was applied and what was lost has numbers of clicks before.
LEMMA OutcomesTyped ==
  ASSUME Typed, CallSteps, CountsTyped
  PROVE  applied' \subseteq [gen : 1..clicks', id : 1..clicks'] /\ lost' \subseteq 1..clicks'
<1>1. /\ clicks \in Nat /\ clicks' \in Nat /\ clicks <= clicks'
      /\ applied \subseteq [gen : 1..clicks, id : 1..clicks] /\ lost \subseteq 1..clicks
      /\ \A call \in pending : call.gen \in 1..clicks /\ call.id \in 1..clicks
  BY Bounds DEF CountsTyped, Typed, PagesTypeOK
<1>2. /\ applied \subseteq [gen : 1..clicks', id : 1..clicks'] /\ lost \subseteq 1..clicks'
  BY <1>1
<1>3. CASE UNCHANGED <<applied, lost>>
  BY <1>2, <1>3
<1>4. CASE Quiet \/ Leave \/ Cancel \/ GiveUp \/ Starts
  BY <1>3, <1>4 DEF Quiet, Leave, Cancel, GiveUp, Starts, Begins, Start
<1>5. ASSUME NEW section \in Sections(page), Mount(section) \/ SwitchSection(section)
      PROVE  UNCHANGED <<applied, lost>>
  BY <1>5 DEF Mount, SwitchSection
<1>6. ASSUME NEW control \in Controls, Open(control) \/ Ask(control)
      PROVE  UNCHANGED <<applied, lost>>
  BY <1>6 DEF Open, Ask
<1>7. ASSUME NEW call \in pending, Refused(call) \/ Succeeded(call) \/ Returned(call)
      PROVE  UNCHANGED <<applied, lost>>
  BY <1>7 DEF Refused, Refuse, Succeeded, Returned
<1>8. ASSUME NEW call \in pending, Carried(call) \/ LostAnswer(call)
      PROVE  applied' \subseteq [gen : 1..clicks', id : 1..clicks'] /\ lost' \subseteq 1..clicks'
  BY <1>1, <1>2, <1>8 DEF Carried, LostAnswer
<1>9. QED BY <1>3, <1>4, <1>5, <1>6, <1>7, <1>8 DEF CallSteps

\* Every step keeps the types.
LEMMA TypedKept ==
  ASSUME Typed, MustShown, MustShown', [Next]_vars
  PROVE  Typed'
<1>1. CacheSteps /\ LogSteps /\ CallSteps /\ CountsTyped
  BY CacheStepsTaken, LogStepsTaken, CallStepsTaken, CountsKept
<1>2. page' = page /\ list' = list /\ budget' = budget
  BY RoleKept
<1>3. /\ log' \in Seq(Statuses') /\ Latest' \in 1..MaxVersions /\ Latest <= Latest'
           /\ Latest' \in Nat
      /\ \A version \in DOMAIN log' : log'[version] \in Statuses'
  BY <1>1, <1>2, LogTyped, Bounds
<1>4. (\A k \in DOMAIN cache : EntryOK(cache[k]))'
  BY <1>1, <1>2, CacheTyped
<1>5. DialogTyped' /\ ConfirmTyped' /\ RouteTyped'
  BY <1>1, <1>2, <1>3, DialogKept, ConfirmKept, RouteKept
<1>6. (pending \subseteq Calls(clicks, Latest))'
  <2>1. Calls(clicks', Latest') = Calls(clicks, Latest)'
    BY <1>2 DEF Calls, Acts
  <2>2. QED BY <1>1, <1>2, <2>1, PendingTyped
<1>7. Dated'
  BY <1>1, <1>2, DatedKept
<1>8. applied' \subseteq [gen : 1..clicks', id : 1..clicks'] /\ lost' \subseteq 1..clicks'
  BY <1>1, OutcomesTyped
<1>9. selection' \in [Parts(list') -> 0..1] /\ moves' \in 0..budget'.moves
  BY <1>2, SelectionTyped DEF Parts
<1>10. /\ clicks' \in 0..budget'.clicks /\ form' \in 0..clicks' /\ form' \in 0..budget'.clicks
       /\ route' # None \/ confirm' # None \/ pending' # {} => form' # 0
  BY <1>1, <1>2, Bounds DEF CountsTyped
<1>11. list' \in page'.queries /\ page' \in Pages /\ budget' \in Budgets
  BY <1>2 DEF Typed, PagesTypeOK
<1>12. PagesTypeOK'
  <2>1. (\A k \in DOMAIN cache :
           /\ cache[k].failed \in BOOLEAN
           /\ cache[k].fetch # None => cache[k].fetch.sent \in 1..Latest
           /\ cache[k].data # None => cache[k].data.seen \in 1..Latest)'
    BY <1>4 DEF EntryOK, Entries
  <2>2. (\A k \in DOMAIN must : must[k] \in 1..Latest)'
    BY DEF MustShown
  <2>3. (\A call \in pending :
           /\ call.id \in 1..clicks /\ call.gen \in 1..clicks
           /\ call.here \in BOOLEAN /\ (call.here => route # None)
           /\ call.at \in 0..Latest /\ call.phase \in {"sent", "applied", "refused"}
           /\ call.version \in 0..Latest)'
    BY <1>5, <1>6 DEF Calls, RouteTyped
  <2>4. (\A call \in applied : call.gen \in 1..clicks /\ call.id \in 1..clicks)'
    BY <1>8
  <2>5. Len(log') \in 1..MaxVersions /\ {log'[version] : version \in DOMAIN log'} \subseteq Statuses'
    BY <1>3 DEF Latest
  <2>6. (confirm # None =>
           /\ confirm.control \in Controls /\ confirm.control.shape = "confirm"
           /\ confirm.gen \in 1..clicks /\ confirm.here \in BOOLEAN
           /\ (confirm.here => route # None))'
    BY <1>5 DEF ConfirmTyped, Confirmations
  <2>7. (dialog # None =>
           /\ route # None /\ dialog.control \in Controls /\ dialog.control.shape # "confirm"
           /\ dialog.gen \in 1..clicks)'
    BY <1>5 DEF DialogTyped
  <2>8. route' \in (Sections(page) \cup {None})'
    BY <1>5 DEF RouteTyped
  <2>9. QED BY <1>8, <1>9, <1>10, <1>11, <2>1, <2>2, <2>3, <2>4, <2>5, <2>6, <2>7, <2>8
            DEF PagesTypeOK
<1>13. QED BY <1>3, <1>4, <1>5, <1>6, <1>7, <1>8, <1>10, <1>11, <1>12
           DEF Typed, DialogTyped, ConfirmTyped, Dated, EntryOK

-----------------------------------------------------------------------------
\* Which call belongs to which opening of a dialog, and who awaits it.

\* No two calls in flight share a number, or what they were started from.
Distinct == \A c, d \in pending : c.id = d.id \/ c.gen = d.gen => c = d

\* The dialog, the confirmation and the form have numbers of their own; that of a call is none of
\* them, and that of a form's call is not that of an opening that was ever acted on.
NumbersApart ==
  /\ dialog # None => dialog.gen # form
  /\ confirm # None => confirm.gen # form /\ (dialog # None => confirm.gen # dialog.gen)
  /\ \A call \in pending : /\ call.id # form
                           /\ dialog # None => call.id # dialog.gen
                           /\ confirm # None => call.id # confirm.gen

FormOf(p, act) == \E control \in ControlsOf(p) : control.act = act /\ control.shape = "form"
HasForm(p) == \E control \in ControlsOf(p) : control.shape = "form"

FormsApart ==
  \A call \in pending :
    FormOf(page, call.act) =>
          (\A other \in pending : other.gen # call.id) /\ (\A a \in applied : a.gen # call.id)

\* The form of a page is on show in any of its sections.
FormUp == route # None /\ HasForm(page)

\* A call in flight for the open dialog, or for the form as it is, is one
\* that its button waits for.
AwaitedHere ==
  \A call \in pending :
    /\ dialog # None /\ dialog.gen = call.gen => call.here /\ call.act = dialog.control.act
    /\ FormUp /\ form = call.gen => call.here /\ FormOf(page, call.act)

\* What the open dialog, the confirmation or the form was already applied for is still awaited.
Current(gen) == \/ dialog # None /\ dialog.gen = gen
                \/ confirm # None /\ confirm.gen = gen
                \/ FormUp /\ form = gen

Awaited(a) == \E call \in pending : call.id = a.id /\ call.gen = a.gen /\ call.phase = "applied"

AppliedAwaited == \A a \in applied : Current(a.gen) => a.gen \in lost \/ Awaited(a)

\* A call in flight is the only one of its opening applied.
AppliedAlone ==
  \A a \in applied, call \in pending : a.gen = call.gen => a.id = call.id \/ a.gen \in lost

\* A dialog that guards its closing is open as long as its call is awaited.
GuardOf(p, act) == \E control \in ControlsOf(p) : control.act = act /\ control.shape = "guarded"

GuardedOpen ==
  \A call \in pending :
    call.here /\ GuardOf(page, call.act) =>
      dialog # None /\ dialog.control.act = call.act /\ dialog.gen = call.gen

CallsOK ==
  /\ Distinct /\ NumbersApart /\ FormsApart /\ AwaitedHere
  /\ AppliedAwaited /\ AppliedAlone /\ AppliedOnce /\ GuardedOpen

\* Whether a call is the form's, by its act.
LEMMA OfFormIs ==
  ASSUME NEW call
  PROVE  OfForm(call) <=> FormOf(page, call.act)
  BY DEF OfForm, FormOf, Controls

\* What a control of a page is known by.
LEMMA ControlSound ==
  ASSUME page \in Pages, NEW control \in Controls
  PROVE  /\ control.shape \in {"dialog", "guarded", "form"} => control.act \in control.blockedBy
         /\ control.act # "page"
         /\ control.inside # "page" => control.shape \in {"button", "confirm"}
         /\ FormOf(page, control.act) <=> control.shape = "form"
         /\ control.shape = "form" => HasForm(page)
         /\ GuardOf(page, control.act) <=> control.shape = "guarded"
<1>1. ControlsRun(page.mutations, Controls) /\ Controls = ControlsOf(page)
  BY PageSound DEF Sound, Controls
<1>2. QED BY <1>1 DEF ControlsRun, FormOf, HasForm, GuardOf

\* A page has one form.
LEMMA OneForm ==
  ASSUME page \in Pages, NEW a, NEW b, FormOf(page, a), FormOf(page, b)
  PROVE  a = b
<1>1. ControlsRun(page.mutations, Controls) /\ Controls = ControlsOf(page)
  BY PageSound DEF Sound, Controls
<1>2. QED BY <1>1 DEF ControlsRun, FormOf

\* A call's success closes its own dialog.
LEMMA ClosesItsOwn ==
  ASSUME page \in Pages, NEW act \in Acts
  PROVE  act \in MutationOf(act).closes
  BY MutationRun, PageSound DEF Sound, ClosesOwn

\* A guarded dialog is closed by its own act.
LEMMA GuardedCloses ==
  ASSUME page \in Pages, NEW act \in Acts, NEW guarded, GuardOf(page, guarded),
         guarded \in MutationOf(act).closes \cup MutationOf(act).sameRow
  PROVE  act = guarded
<1>1. ControlsRun(page.mutations, Controls) /\ Controls = ControlsOf(page)
  BY PageSound DEF Sound, Controls
<1>2. MutationOf(act) \in page.mutations /\ MutationOf(act).call = act
  BY MutationRun
<1>3. QED BY <1>1, <1>2 DEF ControlsRun, GuardOf

\* What the numbers of a typed state are bounded by.
LEMMA Numbered ==
  ASSUME Typed
  PROVE  /\ clicks \in Nat /\ form \in Nat /\ form <= clicks /\ page \in Pages
         /\ \A call \in pending : /\ call.id \in Nat /\ call.gen \in Nat /\ call.act \in Acts
                                  /\ call.id <= clicks /\ call.gen <= clicks
         /\ \A a \in applied : a.gen \in Nat /\ a.gen <= clicks
         /\ dialog # None => /\ route # None /\ dialog.gen \in Nat /\ dialog.gen <= clicks
                             /\ dialog.control \in Controls
         /\ confirm # None => /\ confirm.gen \in Nat /\ confirm.gen <= clicks
                              /\ confirm.control \in Controls
                              /\ confirm.control.shape = "confirm"
  BY Bounds DEF Typed, PagesTypeOK, Calls

\* A section on show is one.
LEMMA SectionThere ==
  ASSUME page \in Pages, NEW section \in Sections(page)
  PROVE  section # None
  BY SectionsListed, PageConstants

\* A call whose page was left is the one it was, and nobody is here for it.
LEMMA GoneFields ==
  ASSUME Typed, NEW call \in Gone
  PROVE  \E c \in pending : /\ call.id = c.id /\ call.gen = c.gen /\ call.act = c.act /\ ~call.here
                            /\ call.phase = c.phase /\ call = [c EXCEPT !.here = FALSE]
<1>1. PICK c \in pending : call = [c EXCEPT !.here = FALSE]
  BY DEF Gone
<1>2. c \in Calls(clicks, Latest)
  BY DEF Typed
<1>3. QED BY <1>1, <1>2 DEF Calls

\* A step that leaves dialogs and calls alone.
LEMMA QuietCalls ==
  ASSUME CallsOK, Quiet, page' = page
  PROVE  CallsOK'
  BY DEF CallsOK, Quiet, Distinct, NumbersApart, FormsApart, AwaitedHere, FormUp, AppliedAwaited,
         Current, Awaited, AppliedAlone, AppliedOnce, GuardedOpen

\* The page is opened: its form is new and awaits nothing.
LEMMA MountCalls ==
  ASSUME Typed, CallsOK, NEW section \in Sections(page), Mount(section), page' = page
  PROVE  CallsOK'
<1>1. /\ dialog = None /\ dialog' = dialog /\ confirm' = confirm /\ form' = clicks + 1
      /\ pending' = pending /\ applied' = applied /\ lost' = lost
  BY Numbered DEF Mount
<1>2. Distinct' /\ FormsApart' /\ AppliedAlone' /\ AppliedOnce'
  BY <1>1 DEF CallsOK, Distinct, FormsApart, AppliedAlone, AppliedOnce
<1>3. NumbersApart'
  BY <1>1, Numbered DEF CallsOK, NumbersApart
<1>4. AwaitedHere'
  BY <1>1, Numbered DEF AwaitedHere
<1>5. AppliedAwaited'
  BY <1>1, Numbered DEF CallsOK, AppliedAwaited, Current, Awaited
<1>6. GuardedOpen'
  BY <1>1 DEF CallsOK, GuardedOpen
<1>7. QED BY <1>2, <1>3, <1>4, <1>5, <1>6 DEF CallsOK

\* Another section is shown: the dialog, the form and the calls are kept.
LEMMA SwitchCalls ==
  ASSUME Typed, CallsOK, NEW section \in Sections(page), SwitchSection(section), page' = page
  PROVE  CallsOK'
<1>1. /\ dialog' = dialog /\ confirm' = confirm /\ form' = form
      /\ pending' = pending /\ applied' = applied /\ lost' = lost
  BY DEF SwitchSection
<1>2. FormUp' <=> FormUp
  BY SectionThere, Numbered DEF SwitchSection, FormUp
<1>3. Distinct' /\ FormsApart' /\ AppliedAlone' /\ AppliedOnce' /\ NumbersApart' /\ GuardedOpen'
  BY <1>1 DEF CallsOK, Distinct, FormsApart, AppliedAlone, AppliedOnce, NumbersApart, GuardedOpen
<1>4. AwaitedHere' /\ AppliedAwaited'
  BY <1>1, <1>2 DEF CallsOK, AwaitedHere, AppliedAwaited, Current, Awaited
<1>5. QED BY <1>3, <1>4 DEF CallsOK

\* The user leaves the page: the calls go on, the confirmation stays.
LEMMA LeaveCalls ==
  ASSUME Typed, CallsOK, Leave, page' = page
  PROVE  CallsOK'
<1>1. /\ route' = None /\ dialog' = None /\ confirm' = Elsewhere /\ pending' = Gone
      /\ form' = form /\ applied' = applied /\ lost' = lost
  BY DEF Leave, Gone
<1>2. confirm' # None => confirm # None /\ confirm'.gen = confirm.gen
  BY <1>1, ElsewhereIs DEF Elsewhere
<1>3. \A call \in pending' :
        \E c \in pending : /\ call.id = c.id /\ call.gen = c.gen /\ call.act = c.act /\ ~call.here
                           /\ call.phase = c.phase /\ call = [c EXCEPT !.here = FALSE]
  BY <1>1, GoneFields
<1>4. Distinct'
  <2>1. SUFFICES ASSUME NEW c \in pending', NEW d \in pending', c.id = d.id \/ c.gen = d.gen
                 PROVE  c = d
    BY DEF Distinct
  <2>2. PICK b \in pending : c.id = b.id /\ c.gen = b.gen /\ c = [b EXCEPT !.here = FALSE]
    BY <1>3
  <2>3. PICK e \in pending : d.id = e.id /\ d.gen = e.gen /\ d = [e EXCEPT !.here = FALSE]
    BY <1>3
  <2>4. b = e
    BY <2>1, <2>2, <2>3 DEF CallsOK, Distinct
  <2>5. QED BY <2>2, <2>3, <2>4
<1>5. NumbersApart'
  BY <1>1, <1>2, <1>3 DEF NumbersApart, CallsOK
<1>6. AwaitedHere' /\ AppliedOnce'
  BY <1>1 DEF AwaitedHere, FormUp, AppliedOnce, CallsOK
<1>7. FormsApart' /\ AppliedAlone' /\ GuardedOpen'
  BY <1>1, <1>3 DEF FormsApart, AppliedAlone, GuardedOpen, CallsOK
<1>8. AppliedAwaited'
  <2>1. SUFFICES ASSUME NEW a \in applied, Current(a.gen)', a.gen \notin lost PROVE Awaited(a)'
    BY <1>1 DEF AppliedAwaited
  <2>2. Current(a.gen)
    BY <1>1, <1>2, <2>1 DEF Current, FormUp
  <2>3. PICK c \in pending : c.id = a.id /\ c.gen = a.gen /\ c.phase = "applied"
    BY <2>1, <2>2 DEF CallsOK, AppliedAwaited, Awaited
  <2>4. [c EXCEPT !.here = FALSE] \in pending'
    BY <1>1 DEF Gone
  <2>5. c \in Calls(clicks, Latest)
    BY DEF Typed
  <2>6. /\ [c EXCEPT !.here = FALSE].id = a.id /\ [c EXCEPT !.here = FALSE].gen = a.gen
        /\ [c EXCEPT !.here = FALSE].phase = "applied"
    BY <2>3, <2>5 DEF Calls
  <2>7. QED BY <2>4, <2>6 DEF Awaited
<1>9. QED BY <1>4, <1>5, <1>6, <1>7, <1>8 DEF CallsOK

\* The dialog is cancelled: one that guards its closing awaits nothing.
LEMMA CancelCalls ==
  ASSUME Typed, CallsOK, Cancel, page' = page
  PROVE  CallsOK'
<1>1. /\ dialog # None /\ dialog' = None /\ confirm' = confirm /\ route' = route /\ form' = form
      /\ pending' = pending /\ applied' = applied /\ lost' = lost
  BY DEF Cancel
<1>2. Distinct' /\ FormsApart' /\ AppliedAlone' /\ AppliedOnce' /\ NumbersApart' /\ AwaitedHere'
  BY <1>1 DEF CallsOK, Distinct, FormsApart, AppliedAlone, AppliedOnce, NumbersApart, AwaitedHere,
              FormUp
<1>3. AppliedAwaited'
  BY <1>1 DEF CallsOK, AppliedAwaited, Current, FormUp, Awaited
<1>4. GuardedOpen'
  <2>1. SUFFICES ASSUME NEW call \in pending, call.here, GuardOf(page, call.act) PROVE FALSE
    BY <1>1 DEF GuardedOpen
  <2>2. dialog.control.act = call.act /\ dialog.control \in Controls /\ page \in Pages
    BY <1>1, <2>1, Numbered DEF CallsOK, GuardedOpen
  <2>3. dialog.control.shape = "guarded" /\ dialog.control.act \in dialog.control.blockedBy
    BY <2>1, <2>2, ControlSound
  <2>4. QED BY <2>1, <2>2, <2>3 DEF Cancel, Blocked
<1>5. QED BY <1>2, <1>3, <1>4 DEF CallsOK

\* The confirmation is given up: its call, if any, goes on.
LEMMA GiveUpCalls ==
  ASSUME Typed, CallsOK, GiveUp, page' = page
  PROVE  CallsOK'
<1>1. /\ dialog' = dialog /\ confirm' = None /\ route' = route /\ form' = form
      /\ pending' = pending /\ applied' = applied /\ lost' = lost
  BY DEF GiveUp
<1>2. Distinct' /\ FormsApart' /\ AppliedAlone' /\ AppliedOnce' /\ NumbersApart' /\ GuardedOpen'
  BY <1>1 DEF CallsOK, Distinct, FormsApart, AppliedAlone, AppliedOnce, NumbersApart, GuardedOpen
<1>3. AwaitedHere' /\ AppliedAwaited'
  BY <1>1 DEF CallsOK, AwaitedHere, AppliedAwaited, Current, FormUp, Awaited
<1>4. QED BY <1>2, <1>3 DEF CallsOK

\* A dialog is opened: its number is new.
LEMMA OpenCalls ==
  ASSUME Typed, CallsOK, NEW control \in Controls, Open(control), page' = page
  PROVE  CallsOK'
<1>1. dialog = None
  <2>1. page \in Pages /\ (dialog # None => dialog.control \in Controls)
    BY Numbered
  <2>2. control.inside = "page"
    BY <2>1, ControlSound DEF Open
  <2>3. dialog # None => dialog.control.act # "page"
    BY <2>1, ControlSound
  <2>4. QED BY <2>2, <2>3 DEF Open, Offered
<1>2. /\ dialog' = [control |-> control, gen |-> clicks + 1, at |-> RowOf(control)]
      /\ confirm' = confirm /\ confirm = None /\ route' = route /\ form' = form
      /\ pending' = pending /\ applied' = applied /\ lost' = lost
  BY DEF Open, Offered
<1>3. dialog'.gen = clicks + 1
  BY <1>2
<1>4. Distinct' /\ FormsApart' /\ AppliedAlone' /\ AppliedOnce'
  BY <1>2 DEF CallsOK, Distinct, FormsApart, AppliedAlone, AppliedOnce
<1>5. NumbersApart' /\ AwaitedHere'
  BY <1>2, <1>3, Numbered DEF CallsOK, NumbersApart, AwaitedHere, FormUp
<1>6. AppliedAwaited'
  BY <1>2, <1>3, Numbered DEF CallsOK, AppliedAwaited, Current, FormUp, Awaited
<1>7. GuardedOpen'
  BY <1>1, <1>2 DEF CallsOK, GuardedOpen
<1>8. QED BY <1>4, <1>5, <1>6, <1>7 DEF CallsOK

\* A confirmation is asked for: its number is new.
LEMMA AskCalls ==
  ASSUME Typed, CallsOK, NEW control \in Controls, Ask(control), page' = page
  PROVE  CallsOK'
<1>1. /\ confirm' = [control |-> control, gen |-> clicks + 1, at |-> RowOf(control), here |-> TRUE]
      /\ dialog' = dialog /\ route' = route /\ form' = form
      /\ pending' = pending /\ applied' = applied /\ lost' = lost
  BY DEF Ask
<1>2. confirm'.gen = clicks + 1
  BY <1>1
<1>3. Distinct' /\ FormsApart' /\ AppliedAlone' /\ AppliedOnce' /\ GuardedOpen'
  BY <1>1 DEF CallsOK, Distinct, FormsApart, AppliedAlone, AppliedOnce, GuardedOpen
<1>4. NumbersApart' /\ AwaitedHere'
  BY <1>1, <1>2, Numbered DEF CallsOK, NumbersApart, AwaitedHere, FormUp
<1>5. AppliedAwaited'
  BY <1>1, <1>2, Numbered DEF CallsOK, AppliedAwaited, Current, FormUp, Awaited
<1>6. QED BY <1>3, <1>4, <1>5 DEF CallsOK

-----------------------------------------------------------------------------
\* A call is started for something that awaits no call yet.

\* What a call is started for is not in flight already, and not applied unless an answer was lost.
Anew(control, gen) ==
  /\ gen \in Nat /\ gen <= clicks + 1
  /\ \A call \in pending : call.gen # gen /\ call.id # gen
  /\ \A a \in applied : a.gen = gen => a.gen \in lost
  /\ FormUp /\ form = gen => FormOf(page, control.act)
  /\ dialog # None /\ dialog.gen = gen => control.act = dialog.control.act
  /\ FormOf(page, control.act) => gen <= clicks
  /\ GuardOf(page, control.act) =>
       dialog # None /\ dialog.control.act = control.act /\ dialog.gen = gen

LEMMA StartsAnew ==
  ASSUME Typed, CallsOK, NEW control \in Controls, NEW gen, NEW at, NEW here,
         Begins(control, gen, at, here)
  PROVE  /\ Anew(control, gen)
         /\ FromConfirm(control, gen, at, here) \/ here = TRUE
         /\ FromConfirm(control, gen, at, here) =>
              /\ ~(FormUp /\ form = gen) /\ ~(dialog # None /\ dialog.gen = gen)
              /\ ~FormOf(page, control.act) /\ ~GuardOf(page, control.act)
<1>1. page \in Pages /\ clicks \in Nat
  BY Numbered
<1>2. CASE FromDialog(control, gen, at, here)
  <2>1. /\ dialog # None /\ control = dialog.control /\ gen = dialog.gen /\ control.shape # "viewer"
        /\ control.shape \in {"dialog", "guarded", "viewer"}
        /\ gen \in Nat /\ gen <= clicks /\ dialog.gen # form /\ ~Blocked(control) /\ here = TRUE
    BY <1>2, Numbered DEF FromDialog, Typed, CallsOK, NumbersApart
  <2>2. control.act \in control.blockedBy
    BY <1>1, <2>1, ControlSound
  <2>3. \A call \in pending : call.gen # gen
    BY <2>1, <2>2 DEF CallsOK, AwaitedHere, Blocked
  <2>4. \A call \in pending : call.id # gen
    BY <2>1 DEF CallsOK, NumbersApart
  <2>5. \A a \in applied : a.gen = gen => a.gen \in lost
    BY <2>1, <2>3 DEF CallsOK, AppliedAwaited, Awaited, Current
  <2>6. confirm # None => confirm.gen # gen
    BY <2>1 DEF CallsOK, NumbersApart
  <2>7. FormOf(page, control.act) => FALSE
    BY <1>1, <2>1, ControlSound
  <2>8. Anew(control, gen)
    BY <1>1, <2>1, <2>3, <2>4, <2>5, <2>7 DEF Anew
  <2>9. ~FromConfirm(control, gen, at, here)
    BY <2>1, <2>6 DEF FromConfirm
  <2>10. QED BY <2>1, <2>8, <2>9
<1>3. CASE FromForm(control, gen, at, here)
  <2>1. /\ route # None /\ control.shape = "form" /\ gen = form /\ gen \in Nat /\ gen <= clicks
        /\ ~Blocked(control) /\ here = TRUE
    BY <1>3, Numbered DEF FromForm, Offered
  <2>2. /\ control.act \in control.blockedBy /\ FormOf(page, control.act) /\ FormUp
        /\ ~GuardOf(page, control.act)
    BY <1>1, <2>1, ControlSound DEF FormUp
  <2>3. \A call \in pending : call.gen # gen
    BY <1>1, <2>1, <2>2, OneForm DEF CallsOK, AwaitedHere, Blocked
  <2>4. /\ \A call \in pending : call.id # gen
        /\ dialog # None => dialog.gen # gen
        /\ confirm # None => confirm.gen # gen
    BY <2>1 DEF CallsOK, NumbersApart
  <2>5. \A a \in applied : a.gen = gen => a.gen \in lost
    BY <2>1, <2>2, <2>3 DEF CallsOK, AppliedAwaited, Awaited, Current
  <2>6. Anew(control, gen)
    BY <1>1, <2>1, <2>2, <2>3, <2>4, <2>5 DEF Anew
  <2>7. ~FromConfirm(control, gen, at, here)
    BY <2>4 DEF FromConfirm
  <2>8. QED BY <2>1, <2>6, <2>7
<1>4. CASE FromButton(control, gen, at, here)
  <2>1. control.shape = "button" /\ gen = clicks + 1 /\ here = TRUE
    BY <1>4 DEF FromButton
  <2>2. ~FormOf(page, control.act) /\ ~GuardOf(page, control.act)
    BY <1>1, <2>1, ControlSound
  <2>3. Anew(control, gen)
    BY <1>1, <2>1, <2>2, Numbered DEF Anew
  <2>4. ~FromConfirm(control, gen, at, here)
    BY <2>1, Numbered DEF FromConfirm
  <2>5. QED BY <2>1, <2>3, <2>4
<1>5. CASE FromConfirm(control, gen, at, here)
  <2>1. /\ confirm # None /\ control.shape = "confirm" /\ gen = confirm.gen
        /\ gen \in Nat /\ gen <= clicks /\ \A call \in pending : call.gen # gen
    BY <1>5, Numbered DEF FromConfirm
  <2>2. ~FormOf(page, control.act) /\ ~GuardOf(page, control.act)
    BY <1>1, <2>1, ControlSound
  <2>3. /\ \A call \in pending : call.id # gen
        /\ dialog # None => dialog.gen # gen
        /\ form # gen
    BY <2>1 DEF CallsOK, NumbersApart
  <2>4. \A a \in applied : a.gen = gen => a.gen \in lost
    BY <2>1 DEF CallsOK, AppliedAwaited, Awaited, Current
  <2>5. QED BY <1>1, <1>5, <2>1, <2>2, <2>3, <2>4 DEF Anew
<1>6. QED BY <1>2, <1>3, <1>4, <1>5 DEF Begins

\* A call is sent: it is the only one in flight for what it was started from.
LEMMA StartCalls ==
  ASSUME Typed, CallsOK, Starts, page' = page
  PROVE  CallsOK'
<1>1. PICK control \in Controls : \E gen, at, here : Begins(control, gen, at, here)
  BY DEF Starts
<1>2. PICK gen, at, here : Begins(control, gen, at, here)
  BY <1>1
<1> DEFINE new == [id |-> clicks + 1, act |-> control.act, gen |-> gen, at |-> at, here |-> here,
                   phase |-> "sent", version |-> 0]
<1>3. /\ route' = route /\ dialog' = dialog /\ confirm' = confirm /\ form' = form
      /\ applied' = applied /\ lost' = lost /\ pending' = pending \cup {new}
  BY <1>2 DEF Begins, Start
<1>4. new.id = clicks + 1 /\ new.gen = gen /\ new.act = control.act /\ new.here = here
  OBVIOUS
<1> HIDE DEF new
<1>5. /\ Anew(control, gen)
      /\ FromConfirm(control, gen, at, here) \/ here = TRUE
      /\ FromConfirm(control, gen, at, here) =>
           /\ ~(FormUp /\ form = gen) /\ ~(dialog # None /\ dialog.gen = gen)
           /\ ~FormOf(page, control.act) /\ ~GuardOf(page, control.act)
  BY <1>2, StartsAnew
<1>6. Distinct'
  BY <1>3, <1>4, <1>5, Numbered DEF CallsOK, Distinct, Anew
<1>7. NumbersApart'
  BY <1>3, <1>4, Numbered DEF CallsOK, NumbersApart
<1>8. FormsApart'
  BY <1>3, <1>4, <1>5, Numbered DEF CallsOK, FormsApart, Anew
<1>9. AwaitedHere'
  BY <1>3, <1>4, <1>5 DEF CallsOK, AwaitedHere, FormUp, Anew
<1>10. AppliedAwaited'
  BY <1>3 DEF CallsOK, AppliedAwaited, Current, FormUp, Awaited
<1>11. AppliedAlone' /\ AppliedOnce'
  BY <1>3, <1>4, <1>5 DEF CallsOK, AppliedAlone, AppliedOnce, Anew
<1>12. GuardedOpen'
  BY <1>3, <1>4, <1>5 DEF CallsOK, GuardedOpen, Anew
<1>13. QED BY <1>6, <1>7, <1>8, <1>9, <1>10, <1>11, <1>12 DEF CallsOK

\* A call's new phase: what it was started for stays.
LEMMA BecomesCalls ==
  ASSUME Typed, CallsOK, NEW call \in pending, NEW next, call.phase = "sent",
         pending' = (pending \ {call}) \cup {next},
         next.id = call.id, next.gen = call.gen, next.act = call.act, next.here = call.here,
         UNCHANGED <<route, dialog, confirm, form, lost, page>>
  PROVE  /\ Distinct' /\ NumbersApart' /\ AwaitedHere' /\ GuardedOpen'
         /\ \A a \in applied : Awaited(a) => Awaited(a)'
<1>1. Distinct'
  BY DEF CallsOK, Distinct
<1>2. NumbersApart'
  BY DEF CallsOK, NumbersApart
<1>3. AwaitedHere'
  BY DEF CallsOK, AwaitedHere, FormUp
<1>4. GuardedOpen'
  BY DEF CallsOK, GuardedOpen
<1>5. \A a \in applied : Awaited(a) => Awaited(a)'
  BY DEF Awaited
<1>6. QED BY <1>1, <1>2, <1>3, <1>4, <1>5

\* The server refuses a call: it stays in flight until its answer.
LEMMA RefusedCalls ==
  ASSUME Typed, CallsOK, NEW call \in pending, Refused(call), page' = page
  PROVE  CallsOK'
<1> DEFINE next == [call EXCEPT !.phase = "refused"]
<1>1. call \in Calls(clicks, Latest)
  BY DEF Typed
<1>2. next.id = call.id /\ next.gen = call.gen /\ next.act = call.act /\ next.here = call.here
  BY <1>1 DEF Calls
<1>3. /\ call.phase = "sent" /\ pending' = (pending \ {call}) \cup {next}
      /\ UNCHANGED <<route, dialog, confirm, form, lost, applied>>
  BY DEF Refused, Refuse, Becomes
<1> HIDE DEF next
<1>4. /\ Distinct' /\ NumbersApart' /\ AwaitedHere' /\ GuardedOpen'
      /\ \A a \in applied : Awaited(a) => Awaited(a)'
  BY <1>2, <1>3, BecomesCalls
<1>5. FormsApart' /\ AppliedAlone' /\ AppliedOnce'
  BY <1>2, <1>3 DEF CallsOK, FormsApart, AppliedAlone, AppliedOnce
<1>6. AppliedAwaited'
  BY <1>3, <1>4 DEF CallsOK, AppliedAwaited, Current, FormUp, Awaited
<1>7. QED BY <1>4, <1>5, <1>6 DEF CallsOK

\* The server applies a call: nothing else was applied for its opening, unless an answer was
\* lost.
LEMMA CarriedCalls ==
  ASSUME Typed, CallsOK, NEW call \in pending, Carried(call), page' = page
  PROVE  CallsOK'
<1> DEFINE next == [call EXCEPT !.phase = "applied", !.version = Len(log')]
           new == [gen |-> call.gen, id |-> call.id]
<1>1. call \in Calls(clicks, Latest)
  BY DEF Typed
<1>2. /\ next.id = call.id /\ next.gen = call.gen /\ next.act = call.act /\ next.here = call.here
      /\ next.phase = "applied" /\ new.gen = call.gen /\ new.id = call.id
  BY <1>1 DEF Calls
<1>3. /\ call.phase = "sent" /\ pending' = (pending \ {call}) \cup {next}
      /\ applied' = applied \cup {new}
      /\ UNCHANGED <<route, dialog, confirm, form, lost>>
  BY DEF Carried, Becomes
<1> HIDE DEF next, new
<1>4. /\ Distinct' /\ NumbersApart' /\ AwaitedHere' /\ GuardedOpen'
      /\ \A a \in applied : Awaited(a) => Awaited(a)'
  BY <1>2, <1>3, BecomesCalls
<1>5. FormsApart'
  BY <1>2, <1>3 DEF CallsOK, FormsApart
<1>6. AppliedAlone'
  BY <1>2, <1>3 DEF CallsOK, AppliedAlone, Distinct
<1>7. AppliedOnce'
  BY <1>2, <1>3 DEF CallsOK, AppliedOnce, AppliedAlone
<1>8. AppliedAwaited'
  <2>1. Awaited(new)'
    BY <1>2, <1>3 DEF Awaited
  <2>2. QED BY <1>3, <1>4, <2>1 DEF CallsOK, AppliedAwaited, Current, FormUp, Awaited
<1>9. QED BY <1>4, <1>5, <1>6, <1>7, <1>8 DEF CallsOK

\* A refusal or a lost answer ends a call: the lost one is remembered.
LEMMA ReturnedCalls ==
  ASSUME Typed, CallsOK, NEW call \in pending, Returned(call) \/ LostAnswer(call), page' = page
  PROVE  CallsOK'
<1>1. /\ UNCHANGED <<route, dialog, confirm, form, applied>>
      /\ pending' = pending \ {call} /\ lost \subseteq lost'
      /\ call.phase = "refused" \/ call.gen \in lost'
  BY DEF Returned, LostAnswer
<1>2. Distinct' /\ NumbersApart' /\ FormsApart' /\ AwaitedHere'
  BY <1>1 DEF CallsOK, Distinct, NumbersApart, FormsApart, AwaitedHere, FormUp
<1>3. AppliedAlone' /\ AppliedOnce' /\ GuardedOpen'
  BY <1>1 DEF CallsOK, AppliedAlone, AppliedOnce, GuardedOpen
<1>4. AppliedAwaited'
  BY <1>1 DEF CallsOK, AppliedAwaited, Current, FormUp, Awaited
<1>5. QED BY <1>2, <1>3, <1>4 DEF CallsOK

-----------------------------------------------------------------------------
\* The answer of a call; the invariant and what follows from it.

\* A success ends a call, closes its dialog or its confirmation and renews its form, so that
\* nothing open was applied already.
LEMMA SucceededCalls ==
  ASSUME Typed, CallsOK, NEW call \in pending, Succeeded(call), page' = page
  PROVE  CallsOK'
<1>1. /\ call.act \in Acts /\ page \in Pages
  BY Numbered
<1>2. /\ dialog' \in Lowered(call) /\ pending' = pending \ {call}
      /\ confirm' = IF confirm # None /\ confirm.gen = call.gen THEN None ELSE confirm
      /\ form' = IF FormOf(page, call.act) /\ call.here THEN call.id ELSE form
      /\ applied' = applied /\ lost' = lost /\ route' = Target(MutationOf(call.act))
  BY OfFormIs DEF Succeeded
<1>3. dialog' \in {None, dialog}
  BY <1>2 DEF Lowered
<1>4. FormUp' <=> FormUp
  <2>1. CASE route' = route
    BY <2>1 DEF FormUp
  <2>2. CASE \A control \in Controls : control.shape # "form"
    BY <2>2 DEF FormUp, HasForm, Controls
  <2>3. QED BY <1>2, <2>1, <2>2, TargetTyped
<1>5. form' = form \/ (form' = call.id /\ FormOf(page, call.act))
  BY <1>2
<1>6. dialog # None /\ dialog.gen = call.gen => dialog' = None
  <2>1. SUFFICES ASSUME dialog # None, dialog.gen = call.gen PROVE dialog' = None
    OBVIOUS
  <2>2. call.here /\ call.act = dialog.control.act
    BY <2>1 DEF CallsOK, AwaitedHere
  <2>3. call.act \in MutationOf(call.act).closes
    BY <1>1, ClosesItsOwn
  <2>4. QED BY <1>2, <2>1, <2>2, <2>3 DEF Lowered
<1>7. FormUp /\ form = call.gen => form' = call.id
  BY <1>2 DEF CallsOK, AwaitedHere
<1>8. Distinct' /\ AppliedAlone' /\ AppliedOnce'
  BY <1>2 DEF CallsOK, Distinct, AppliedAlone, AppliedOnce
<1>9. FormsApart'
  BY <1>2 DEF CallsOK, FormsApart
<1>10. NumbersApart'
  BY <1>2, <1>3, <1>5 DEF CallsOK, NumbersApart, Distinct
<1>11. AwaitedHere'
  BY <1>2, <1>3, <1>4, <1>5 DEF CallsOK, AwaitedHere, FormsApart
<1>12. AppliedAwaited'
  <2>1. SUFFICES ASSUME NEW a \in applied, Current(a.gen)', a.gen \notin lost PROVE Awaited(a)'
    BY <1>2 DEF AppliedAwaited
  <2>2. Current(a.gen) /\ a.gen # call.gen
    <3>1. CASE dialog' # None /\ dialog'.gen = a.gen
      BY <1>3, <1>6, <3>1 DEF Current
    <3>2. CASE confirm' # None /\ confirm'.gen = a.gen
      BY <1>2, <3>2 DEF Current
    <3>3. CASE FormUp' /\ form' = a.gen
      <4>1. form' = form
        BY <1>5, <3>3 DEF CallsOK, FormsApart
      <4>2. form' # call.id
        BY <4>1 DEF CallsOK, NumbersApart
      <4>3. QED BY <1>4, <1>7, <3>3, <4>1, <4>2 DEF Current
    <3>4. QED BY <2>1, <3>1, <3>2, <3>3 DEF Current
  <2>3. QED BY <1>2, <2>1, <2>2 DEF CallsOK, AppliedAwaited, Awaited
<1>13. GuardedOpen'
  <2>1. SUFFICES ASSUME NEW c \in pending, c # call, c.here, GuardOf(page, c.act)
                 PROVE  dialog' # None /\ dialog'.control.act = c.act /\ dialog'.gen = c.gen
    BY <1>2 DEF GuardedOpen
  <2>2. dialog # None /\ dialog.control.act = c.act /\ dialog.gen = c.gen
    BY <2>1 DEF CallsOK, GuardedOpen
  <2>3. ASSUME dialog' = None PROVE FALSE
    <3>1. call.here /\ dialog.control.act \in MutationOf(call.act).closes
                                                \cup MutationOf(call.act).sameRow
      BY <1>2, <2>2, <2>3 DEF Lowered
    <3>2. call.act = c.act
      BY <1>1, <2>1, <2>2, <3>1, GuardedCloses
    <3>3. dialog.gen = call.gen
      BY <2>1, <3>1, <3>2 DEF CallsOK, GuardedOpen
    <3>4. QED BY <2>1, <2>2, <3>3 DEF CallsOK, Distinct
  <2>4. QED BY <1>3, <2>2, <2>3
<1>14. QED BY <1>8, <1>9, <1>10, <1>11, <1>12, <1>13 DEF CallsOK

\* Every step keeps the calls so.
LEMMA CallsKept ==
  ASSUME Typed, CallsOK, CallSteps, page' = page
  PROVE  CallsOK'
<1>1. CASE Quiet \/ Leave \/ Cancel \/ GiveUp \/ Starts
  BY <1>1, QuietCalls, LeaveCalls, CancelCalls, GiveUpCalls, StartCalls
<1>2. ASSUME NEW section \in Sections(page), Mount(section) \/ SwitchSection(section)
      PROVE  CallsOK'
  BY <1>2, MountCalls, SwitchCalls
<1>3. ASSUME NEW control \in Controls, Open(control) \/ Ask(control) PROVE CallsOK'
  BY <1>3, OpenCalls, AskCalls
<1>4. ASSUME NEW call \in pending,
             Refused(call) \/ Carried(call) \/ Succeeded(call) \/ Returned(call) \/ LostAnswer(call)
      PROVE  CallsOK'
  BY <1>4, RefusedCalls, CarriedCalls, SucceededCalls, ReturnedCalls
<1>5. QED BY <1>1, <1>2, <1>3, <1>4 DEF CallSteps

\* The inductive invariant.
IInv == Typed /\ FollowsKey /\ MustShown /\ CallsOK

\* It holds when the console starts.
LEMMA InitOK == Init => IInv
<1>1. SUFFICES ASSUME Init PROVE IInv
  OBVIOUS
<1>2. /\ page \in Pages /\ list \in page.queries /\ budget \in Budgets
      /\ route = None /\ moves = 0 /\ DOMAIN cache = {} /\ DOMAIN must = {}
      /\ dialog = None /\ confirm = None
      /\ form = 0 /\ clicks = 0 /\ pending = {} /\ applied = {} /\ lost = {}
      /\ selection \in [Parts(list) -> 0..1]
  <2>1. /\ page \in Pages /\ list \in page.queries /\ budget \in Budgets
        /\ route = None /\ moves = 0 /\ dialog = None /\ confirm = None
        /\ form = 0 /\ clicks = 0 /\ pending = {} /\ applied = {} /\ lost = {}
    BY <1>1 DEF Init
  <2>2. DOMAIN cache = {} /\ DOMAIN must = {}
    <3>1. cache = <<>> /\ must = <<>>
      BY <1>1 DEF Init
    <3>2. QED BY <3>1
  <2>3. selection \in [Parts(list) -> 0..1]
    <3>1. selection = [part \in Parts(list) |-> IF part \in Scope THEN 1 ELSE 0]
      BY <1>1 DEF Init
    <3>2. QED BY <3>1
  <2>4. QED BY <2>1, <2>2, <2>3
<1>3. PICK status \in Statuses : log = <<status>>
  <2>1. log \in {<<status>> : status \in Statuses \ {"gone"}}
    BY <1>1 DEF Init
  <2>2. QED BY <2>1
<1>4. log \in Seq(Statuses) /\ Latest = 1 /\ \A version \in DOMAIN log : log[version] \in Statuses
  BY <1>3 DEF Latest
<1>5. budget.clicks \in Nat /\ budget.moves \in Nat /\ MaxVersions \in Nat \ {0}
  BY <1>2, PageConstants
<1>6. PagesTypeOK
  <2>1. moves \in 0..budget.moves /\ clicks \in 0..budget.clicks /\ form \in 0..budget.clicks
    BY <1>2, <1>5
  <2>2. Len(log) \in 1..MaxVersions
    BY <1>4, <1>5 DEF Latest
  <2>3. QED BY <1>2, <1>4, <2>1, <2>2 DEF PagesTypeOK
<1>7. Typed
  BY <1>2, <1>4, <1>6 DEF Typed
<1>8. FollowsKey /\ MustShown
  BY <1>2 DEF FollowsKey, MustShown
<1>9. CallsOK
  BY <1>2
     DEF CallsOK, Distinct, NumbersApart, FormsApart, AwaitedHere, AppliedAwaited, AppliedAlone,
              AppliedOnce, GuardedOpen, FormUp
<1>10. QED BY <1>7, <1>8, <1>9 DEF IInv

\* Every step keeps it.
LEMMA StepOK == IInv /\ [Next]_vars => IInv'
<1>1. SUFFICES ASSUME IInv, [Next]_vars PROVE IInv'
  OBVIOUS
<1>2. Typed /\ FollowsKey /\ MustShown /\ CallsOK
  BY <1>1 DEF IInv
<1>3. page' = page /\ list' = list
  BY <1>1, RoleKept
<1>4. CacheSteps /\ LogSteps /\ CallSteps /\ MustSteps
  BY <1>1, <1>2, CacheStepsTaken, LogStepsTaken, CallStepsTaken, MustStepsTaken
<1>5. MustShown'
  BY <1>2, <1>3, <1>4, MustKept
<1>6. Typed'
  BY <1>1, <1>2, <1>5, TypedKept
<1>7. FollowsKey'
  BY <1>2, <1>3, <1>4, FollowsKept
<1>8. CallsOK'
  BY <1>2, <1>3, <1>4, CallsKept
<1>9. QED BY <1>5, <1>6, <1>7, <1>8 DEF IInv

\* The invariant holds in every state, on every page and for every user: the inductive
\* invariant of the other theorems.
THEOREM Invariance == Spec => []IInv
  BY InitOK, StepOK, PTL DEF Spec

\* The state of a page stays typed, in whichever section of its component the user is and whatever
\* was left open: the versions shown, asked for and applied are ones the server has served, a dialog
\* is of a component on show, a confirmation may outlive it, and calls, dialogs and confirmations
\* have the numbers of clicks (useQuery, useMutation and the state of every page).
THEOREM TypeCorrect == Spec => []PagesTypeOK
<1>1. IInv => PagesTypeOK
  BY DEF IInv, Typed
<1>2. QED BY Invariance, <1>1, PTL

\* What a page shows belongs to what its filters select: no answer of an earlier selection is
\* shown under a later one (the query keys of the pages).
THEOREM SelectionShown == Spec => []ShownBelongsToSelection
<1>1. IInv => ShownBelongsToSelection
  BY ShowsSelection DEF IInv
<1>2. QED BY Invariance, <1>1, PTL

\* After a call has succeeded, the list on show that it changed shows that change, or is loading, or
\* has failed; or what it shows is the answer to a first fetch that was in flight when the call
\* succeeded, and that is the one case in which it can be without the change (invalidateQueries and
\* refetch in the pages' onSuccess).
THEOREM OwnWritesRead == Spec => []ReadYourWrites
<1>1. IInv => ReadYourWrites
  BY ReadsOwnWrites DEF IInv
<1>2. QED BY Invariance, <1>1, PTL

\* What a dialog, a confirmation or a form was opened for is applied once however often its button
\* is pressed, unless an answer was lost (confirmLoading and loading of the pages' buttons).
THEOREM AppliesOnce == Spec => []AppliedOnce
<1>1. IInv => AppliedOnce
  BY DEF IInv, CallsOK
<1>2. QED BY Invariance, <1>1, PTL

\* The step in which a guarded dialog closes while its page stays.
LEMMA GuardedClosesByOwn ==
  ASSUME Typed, CallsOK, CallSteps,
         dialog # None, dialog.control.shape = "guarded", dialog' = None, route' # None
  PROVE  ByOwn(dialog)
<1>1. SUFFICES ASSUME NEW call \in pending \ pending', call.phase = "applied"
               PROVE  call.gen = dialog.gen
  BY DEF ByOwn
<1>2. route # None /\ dialog.control \in Controls /\ page \in Pages
  BY Numbered
<1>3. CASE Quiet \/ Leave \/ Cancel \/ GiveUp
  BY <1>1, <1>3 DEF Quiet, Leave, Cancel, GiveUp
<1>4. CASE Starts
  <2>1. dialog' = dialog
    BY <1>4 DEF Starts, Begins, Start
  <2>2. QED BY <2>1
<1>5. ASSUME NEW section \in Sections(page), Mount(section) \/ SwitchSection(section) PROVE FALSE
  BY <1>5 DEF Mount, SwitchSection
<1>6. ASSUME NEW control \in Controls, Open(control) \/ Ask(control) PROVE FALSE
  BY <1>1, <1>6 DEF Open, Ask
<1>7. ASSUME NEW own \in pending, Refused(own) \/ Carried(own) \/ Returned(own) \/ LostAnswer(own)
      PROVE  FALSE
  BY <1>7 DEF Refused, Refuse, Carried, Returned, LostAnswer
<1>8. ASSUME NEW own \in pending, Succeeded(own) PROVE call.gen = dialog.gen
  <2>1. dialog' \in Lowered(own) /\ pending' = pending \ {own}
    BY <1>8 DEF Succeeded
  <2>2. call = own
    BY <1>1, <2>1
  <2>3. own.here /\ dialog.control.act \in MutationOf(own.act).closes \cup MutationOf(own.act).sameRow
    BY <2>1 DEF Lowered
  <2>4. GuardOf(page, dialog.control.act) /\ own.act \in Acts
    BY <1>2, ControlSound, Numbered
  <2>5. own.act = dialog.control.act
    BY <1>2, <2>3, <2>4, GuardedCloses
  <2>6. QED BY <2>2, <2>3, <2>4, <2>5 DEF CallsOK, GuardedOpen
<1>9. QED BY <1>3, <1>4, <1>5, <1>6, <1>7, <1>8 DEF CallSteps

\* The step in which a confirmation closes, wherever the user is.
LEMMA ConfirmClosesByOwn ==
  ASSUME Typed, CallSteps, confirm # None, confirm' = None
  PROVE  ByOwn(confirm)
<1>1. SUFFICES ASSUME NEW call \in pending \ pending', call.phase = "applied"
               PROVE  call.gen = confirm.gen
  BY DEF ByOwn
<1>2. CASE Quiet \/ Leave \/ Cancel \/ GiveUp
  BY <1>1, <1>2, ElsewhereIs DEF Quiet, Leave, Cancel, GiveUp
<1>3. CASE Starts
  <2>1. confirm' = confirm
    BY <1>3 DEF Starts, Begins, Start
  <2>2. QED BY <2>1
<1>4. ASSUME NEW section \in Sections(page), Mount(section) \/ SwitchSection(section) PROVE FALSE
  BY <1>4 DEF Mount, SwitchSection
<1>5. ASSUME NEW control \in Controls, Open(control) \/ Ask(control) PROVE FALSE
  BY <1>5 DEF Open, Ask, Offered
<1>6. ASSUME NEW own \in pending, Refused(own) \/ Carried(own) \/ Returned(own) \/ LostAnswer(own)
      PROVE  FALSE
  BY <1>6 DEF Refused, Refuse, Carried, Returned, LostAnswer
<1>7. ASSUME NEW own \in pending, Succeeded(own) PROVE call.gen = confirm.gen
  <2>1. pending' = pending \ {own} /\ confirm.gen = own.gen
    BY <1>7 DEF Succeeded
  <2>2. QED BY <1>1, <2>1
<1>8. QED BY <1>2, <1>3, <1>4, <1>5, <1>6, <1>7 DEF CallSteps

\* A guarded dialog that closes while its page stays, and a confirmation that closes wherever the user
\* is, are closed by the user or by the success of the call made from them, never by that of an
\* earlier opening (the closing handlers that return while a call is pending, and the promise of
\* Modal.confirm's onOk).
THEOREM ClosesByOwn == Spec => ClosingHeld
<1>1. IInv /\ [Next]_vars => [ClosedByOwn]_vars
  <2>1. SUFFICES ASSUME IInv, [Next]_vars PROVE ClosedByOwn
    OBVIOUS
  <2>2. Typed /\ CallsOK /\ CallSteps
    BY <2>1, CallStepsTaken DEF IInv
  <2>3. QED BY <2>2, GuardedClosesByOwn, ConfirmClosesByOwn DEF ClosedByOwn
<1>2. QED BY Invariance, <1>1, PTL DEF Spec, ClosingHeld

-----------------------------------------------------------------------------
\* Refusals: what runs and what can be clicked is what a section of the page offers its user.

\* The list runs in a section that the user is admitted to.
ReachedOn(section) ==
  /\ Admitted(section) /\ list \in section.queries /\ list.asks \in user.permissions
  /\ \/ list.inside = "page"
     \/ \E control \in section.controls :
          control.act = list.inside /\ control.asks \in user.permissions
ListReached == \E section \in Sections(page) : ReachedOn(section)

\* A control was offered to the user in a section, on a row, if it is on one, whose status it is for.
OfferedAt(section, statuses, control, at) ==
  /\ Admitted(section) /\ control \in section.controls /\ control.asks \in user.permissions
  /\ \A query \in section.queries :
       query.root = control.row => query.asks \in user.permissions /\ query.call \in user.calls
  /\ at # 0 => statuses[at] # "gone" /\ (control.from = {} \/ statuses[at] \in control.from)
Given(statuses, control, at) ==
  \E section \in Sections(page) : OfferedAt(section, statuses, control, at)

\* What the server refuses of that is among the gaps.
OffersKnown ==
  \A section \in Sections(page) :
    /\ ReachedOn(section) => list.call \in user.calls \/ Gap(section.key, list.call)
    /\ \A control \in section.controls :
         control.shape # "viewer" /\ OfferedAt(section, log, control, 0)
           => control.act \in user.calls \/ Gap(section.key, control.act)
    /\ StatusesCovered(section.key, section.controls)

KnownGap(call) == \E section \in Sections(page) : Gap(section.key, call)

RouteOpen == route # None => Admitted(route)
FetchedReached == \A k \in DOMAIN cache : cache[k].fetch # None => ListReached
OpenGiven == dialog # None => Given(log, dialog.control, dialog.at)
ConfirmGiven == confirm # None => Given(log, confirm.control, confirm.at)
CallGiven(statuses, call) ==
  \E control \in Controls :
    control.act = call.act /\ control.shape # "viewer" /\ Given(statuses, control, call.at)
CallsGiven == \A call \in pending : CallGiven(log, call)

OfferInv ==
  /\ OffersKnown /\ RouteOpen /\ FetchedReached
  /\ OpenGiven /\ ConfirmGiven /\ CallsGiven /\ RefusalsKnown

\* Every role of a page consists of codes of routes, for which each section it opens is sound.
LEMMA RolesAllowed ==
  ASSUME NEW p \in Pages, NEW codes \in RolesOf(p), NEW section \in Sections(p),
         Opening(section) \in UserOf(p, codes).permissions
  PROVE  OfferedIsAllowed(section, codes)
<1>1. codes \in SUBSET RouteCodes
  BY DEF RolesOf
<1>2. section \in Pages
  BY SectionsListed
<1>3. Opening(section) # Anyone
  BY <1>2, OpeningListed DEF MenuAsks, Anyone
<1>4. Opening(section) \in NormalizePermissions(codes)
  BY <1>3 DEF UserOf
<1>5. QED BY <1>1, <1>2, <1>4, GapsAreAll

\* The user of a behaviour has one of the roles.
LEMMA InitOffers == Init => OfferInv
<1> SUFFICES ASSUME Init PROVE OfferInv
  OBVIOUS
<1>1. /\ page \in Pages /\ list \in page.queries /\ route = None
      /\ dialog = None /\ confirm = None /\ pending = {} /\ refusals = {} /\ DOMAIN cache = {}
  <2>1. cache = <<>>
    BY DEF Init
  <2>2. DOMAIN cache = {}
    BY <2>1
  <2>3. QED BY <2>2 DEF Init
<1>2. PICK codes \in RolesOf(page) : user = UserOf(page, codes)
  BY DEF Init
<1>3. ASSUME NEW section \in Sections(page), Admitted(section)
      PROVE  /\ ReachedOn(section) => list.call \in user.calls \/ Gap(section.key, list.call)
             /\ \A control \in section.controls :
                  control.shape # "viewer" /\ OfferedAt(section, log, control, 0)
                    => control.act \in user.calls \/ Gap(section.key, control.act)
  <2>1. OfferedIsAllowed(section, codes)
    BY <1>1, <1>2, <1>3, RolesAllowed DEF Admitted
  <2>2. ASSUME NEW control \in section.controls
        PROVE  /\ control.asks \in user.permissions <=> Holds(codes, control.asks)
               /\ control.act \in user.calls <=> MayCall(codes, control.act)
    <3>1. control \in ControlsOf(page)
      BY <2>2 DEF ControlsOf
    <3>2. QED BY <1>2, <3>1 DEF UserOf, Holds
  <2>3. ASSUME NEW query \in section.queries
        PROVE  /\ query.asks \in user.permissions <=> Holds(codes, query.asks)
               /\ query.call \in user.calls <=> MayCall(codes, query.call)
    <3>1. query \in QueriesOf(page)
      BY <2>3 DEF QueriesOf
    <3>2. QED BY <1>2, <3>1 DEF UserOf, Holds
  <2>4. ASSUME ReachedOn(section) PROVE list.call \in user.calls \/ Gap(section.key, list.call)
    <3>1. list \in section.queries /\ Reached(codes, list, section.controls)
      BY <2>2, <2>3, <2>4 DEF ReachedOn, Reached
    <3>2. QED BY <2>1, <2>3, <3>1 DEF OfferedIsAllowed
  <2>5. ASSUME NEW control \in section.controls, control.shape # "viewer",
               OfferedAt(section, log, control, 0)
        PROVE  control.act \in user.calls \/ Gap(section.key, control.act)
    <3>1. Usable(codes, control, section.queries)
      BY <2>2, <2>3, <2>5 DEF OfferedAt, Usable, Answered
    <3>2. QED BY <2>1, <2>2, <3>1 DEF OfferedIsAllowed
  <2>6. QED BY <2>4, <2>5
<1>4. ASSUME NEW section \in Sections(page) PROVE StatusesCovered(section.key, section.controls)
  <2>1. section \in Pages
    BY <1>1, SectionsListed
  <2>2. QED BY <2>1, PagesOffer, OpeningListed DEF Offers
<1>5. OffersKnown
  BY <1>3, <1>4 DEF OffersKnown, ReachedOn, OfferedAt
<1>6. QED
  BY <1>1, <1>5 DEF OfferInv, RouteOpen, FetchedReached, OpenGiven, ConfirmGiven, CallsGiven,
                    RefusalsKnown

-----------------------------------------------------------------------------
\* What was offered stays so.

\* The statuses served stay where they are.
LEMMA ServedStays ==
  ASSUME Typed, LogSteps
  PROVE  \A at \in 1..Latest : log'[at] = log[at]
<1>1. log \in Seq(Statuses)
  BY DEF Typed
<1>2. ASSUME NEW status \in Statuses, log' = Append(log, status)
      PROVE  \A at \in 1..Latest : log'[at] = log[at]
  BY <1>1, <1>2, AppendProperties DEF Latest
<1>3. QED BY <1>2 DEF LogSteps

LEMMA GivenStays ==
  ASSUME Typed, LogSteps, NEW control, NEW at \in 0..Latest, Given(log, control, at)
  PROVE  Given(log', control, at)
<1>1. PICK section \in Sections(page) : OfferedAt(section, log, control, at)
  BY DEF Given
<1>2. OfferedAt(section, log', control, at)
  BY <1>1, ServedStays, Bounds DEF OfferedAt
<1>3. QED BY <1>2 DEF Given

\* A control that is offered now is, on the row that it would work on.
LEMMA OfferedNow ==
  ASSUME Typed, RouteOpen, NEW control, Offered(control)
  PROVE  Given(log, control, RowOf(control)) /\ Given(log, control, 0)
<1>1. route \in Sections(page)
  BY DEF Offered, Typed, PagesTypeOK
<1>2. OfferedAt(route, log, control, RowOf(control)) /\ OfferedAt(route, log, control, 0)
  BY DEF Offered, OfferedAt, Rendered, RowOf, Status, RouteOpen
<1>3. QED BY <1>1, <1>2 DEF Given

\* The user and the page are the same after a step.
LEMMA SameGiven ==
  ASSUME page' = page, list' = list, user' = user
  PROVE  /\ Controls' = Controls /\ ListReached' = ListReached /\ OffersKnown' = OffersKnown
         /\ \A control, at : Given(log, control, at)' <=> Given(log', control, at)
         /\ \A call : CallGiven(log, call)' <=> CallGiven(log', call)
         /\ \A section : Admitted(section)' <=> Admitted(section)
         /\ \A call : KnownGap(call)' <=> KnownGap(call)
<1>1. Controls' = Controls
  BY DEF Controls
<1>2. \A section : Admitted(section)' <=> Admitted(section)
  BY DEF Admitted
<1>3. \A section : ReachedOn(section)' <=> ReachedOn(section)
  BY <1>2 DEF ReachedOn
<1>4. ASSUME NEW section, NEW control
      PROVE  OfferedAt(section, log, control, 0)' <=> OfferedAt(section, log, control, 0)
  BY <1>2 DEF OfferedAt
<1>5. \A control, at : Given(log, control, at)' <=> Given(log', control, at)
  BY <1>2 DEF Given, OfferedAt
<1>6. ListReached' = ListReached
  BY <1>3 DEF ListReached, ReachedOn, Admitted
<1>7. OffersKnown' = OffersKnown
  BY DEF OffersKnown, ReachedOn, OfferedAt, Admitted, Gap, StatusesCovered
<1>8. \A call : CallGiven(log, call)' <=> CallGiven(log', call)
  BY <1>1, <1>5 DEF CallGiven
<1>9. \A call : KnownGap(call)' <=> KnownGap(call)
  BY DEF KnownGap, Gap
<1>10. QED BY <1>1, <1>2, <1>5, <1>6, <1>7, <1>8, <1>9

\* A dialog that was offered lets the list in it run, in its section.
DialogGiven(d) ==
  d # None => \E section \in Sections(page) :
                /\ Admitted(section) /\ d.control \in section.controls
                /\ d.control.asks \in user.permissions
RouteGiven(r) == r = None \/ (r \in Sections(page) /\ Admitted(r))

LEMMA ObservedReached ==
  ASSUME Typed, NEW r, NEW d, Observed(r, d), RouteGiven(r), DialogGiven(d)
  PROVE  ListReached
<1>1. /\ r # None /\ list.asks \in user.permissions /\ r \in Sections(page) /\ Admitted(r)
      /\ page \in Pages /\ list \in page.queries
  BY Bounds DEF Observed, RouteGiven
<1>2. CASE list.inside = "page"
  BY <1>1, <1>2 DEF Observed, ListReached, ReachedOn
<1>3. CASE list.inside # "page"
  <2>1. d # None /\ d.control.act = list.inside
    BY <1>3 DEF Observed
  <2>2. PICK section \in Sections(page) :
          /\ Admitted(section) /\ d.control \in section.controls
          /\ d.control.asks \in user.permissions
    BY <2>1 DEF DialogGiven
  <2>3. section = page
    BY <1>1, <1>3, <2>1, <2>2, HostedAtHome
  <2>4. ReachedOn(section)
    BY <1>1, <2>1, <2>2, <2>3 DEF ReachedOn
  <2>5. QED BY <2>4 DEF ListReached
<1>4. QED BY <1>2, <1>3

\* The route and the dialog there are, and none, are such.
LEMMA WasGiven ==
  ASSUME Typed, OfferInv
  PROVE  RouteGiven(route) /\ DialogGiven(dialog) /\ DialogGiven(None)
  BY DEF Typed, PagesTypeOK, OfferInv, RouteOpen, RouteGiven, OpenGiven, Given, OfferedAt, DialogGiven

\* The section that a success shows asks for the permission that opens the call's own.
LEMMA TargetOpen ==
  ASSUME Typed, OfferInv, NEW call \in pending
  PROVE  RouteGiven(Target(MutationOf(call.act)))
<1> DEFINE mutation == MutationOf(call.act)
           target == Target(mutation)
<1>1. CASE mutation.goes = Stays
  BY <1>1, WasGiven DEF Target
<1>2. CASE mutation.goes # Stays
  <2>1. page \in Pages /\ mutation \in page.mutations
    BY Bounds, TargetTyped
  <2>2. target = CHOOSE section \in Pages : section.key = mutation.goes
    BY <1>2 DEF Target
  <2>3. /\ target \in Sections(page) /\ target.key = "/activity-reward-center/records"
        /\ page.key \in {"/activity-reward-center/rules", "/activity-reward-center/records"}
    BY <1>2, <2>1, <2>2, TargetListed
  <2>4. PICK section \in Sections(page) : Admitted(section)
    BY DEF OfferInv, CallsGiven, CallGiven, Given, OfferedAt
  <2>5. section.key \in {"/activity-reward-center/rules", "/activity-reward-center/records"}
    BY <2>3, <2>4 DEF Sections, SharedRoutes, ReportQueries
  <2>6. target \in Pages /\ section \in Pages
    BY <2>1, <2>3, <2>4, SectionsListed
  <2>7. Opening(target) = "activity-rewards:view" /\ Opening(section) = "activity-rewards:view"
    BY <2>3, <2>5, <2>6, OpeningListed DEF MenuAsks
  <2>8. QED BY <2>3, <2>4, <2>7 DEF Admitted, RouteGiven
<1>3. QED BY <1>1, <1>2

LEMMA RouteStays ==
  ASSUME Typed, OfferInv, CallSteps
  PROVE  RouteGiven(route')
<1>1. CASE route' = route \/ route' = None
  BY <1>1, WasGiven DEF RouteGiven
<1>2. ASSUME NEW section \in Sections(page), Mount(section) \/ SwitchSection(section)
      PROVE  RouteGiven(route')
  BY <1>2 DEF Mount, SwitchSection, RouteGiven
<1>3. ASSUME NEW call \in pending, Succeeded(call) PROVE RouteGiven(route')
  BY <1>3, TargetOpen DEF Succeeded
<1>4. CASE Starts
  BY <1>1, <1>4 DEF Starts, Begins, Start
<1>5. CASE Quiet \/ Leave \/ Cancel \/ GiveUp
  BY <1>1, <1>5 DEF Quiet, Leave, Cancel, GiveUp
<1>6. ASSUME NEW control \in Controls, Open(control) \/ Ask(control) PROVE route' = route
  BY <1>6 DEF Open, Ask
<1>7. ASSUME NEW call \in pending, \/ Refused(call) \/ Carried(call) \/ Returned(call)
                                   \/ LostAnswer(call)
      PROVE  route' = route
  BY <1>7 DEF Refused, Refuse, Carried, Returned, LostAnswer
<1>8. QED BY <1>1, <1>2, <1>3, <1>4, <1>5, <1>6, <1>7 DEF CallSteps

-----------------------------------------------------------------------------
\* The list is fetched only where it runs.

FetchGiven(entry) == entry.fetch # None => ListReached
AllGiven(c) == \A j \in DOMAIN c : FetchGiven(c[j])

LEMMA PutGiven ==
  ASSUME NEW c, AllGiven(c), NEW k, NEW entry, FetchGiven(entry)
  PROVE  AllGiven(Put(c, k, entry))
  BY DEF AllGiven, Put

LEMMA ShowingGiven ==
  ASSUME Typed, NEW c, AllGiven(c), NEW r, NEW d, NEW s, RouteGiven(r), DialogGiven(d)
  PROVE  AllGiven(Showing(c, r, d, s))
<1>1. CASE Appears(r, d, s)
  <2>1. ListReached
    BY <1>1, ObservedReached DEF Appears
  <2>2. Showing(c, r, d, s) \in {c, Put(c, Key(s), Fetching(EntryOf(c, Key(s)), s))}
    BY DEF Showing, Observe
  <2>3. QED BY <2>1, <2>2, PutGiven DEF FetchGiven
<1>2. CASE ~Appears(r, d, s)
  BY <1>2 DEF Showing
<1>3. QED BY <1>1, <1>2

LEMMA UpdatedGiven ==
  ASSUME Typed, OfferInv, AllGiven(cache), NEW call
  PROVE  AllGiven(Updated(call))
<1>1. CASE Observed(route, dialog)
  <2>1. ListReached
    BY <1>1, WasGiven, ObservedReached
  <2>2. Updated(call) \in {cache, With(Key(selection), Overtaken),
                           With(Key(selection), Fetching(Shown, selection))}
    BY DEF Updated
  <2>3. QED BY <2>1, <2>2, PutGiven DEF With, FetchGiven
<1>2. CASE ~Observed(route, dialog)
  BY <1>2 DEF Updated, Owes
<1>3. QED BY <1>1, <1>2

\* Every step fetches the list only where it runs.
LEMMA FetchesGiven ==
  ASSUME Typed, OfferInv, [Next]_vars, DialogGiven(dialog')
  PROVE  AllGiven(cache')
<1>1. /\ AllGiven(cache) /\ RouteGiven(route) /\ DialogGiven(dialog) /\ DialogGiven(None)
      /\ RouteGiven(route')
  BY WasGiven, RouteStays, CallStepsTaken DEF OfferInv, FetchedReached, AllGiven, FetchGiven
<1>2. CASE cache' = cache
  BY <1>1, <1>2
<1>3. ASSUME NEW section \in Sections(page), Mount(section) \/ SwitchSection(section)
      PROVE  AllGiven(cache')
  <2>1. RouteGiven(section)
    BY <1>3 DEF Mount, SwitchSection, RouteGiven
  <2>2. cache' \in {Showing(cache, section, None, selection'), Showing(cache, section, dialog, selection')}
    BY <1>3 DEF Mount, SwitchSection
  <2>3. QED BY <1>1, <2>1, <2>2, ShowingGiven
<1>4. ASSUME NEW part \in Parts(list), Select(part) PROVE AllGiven(cache')
  BY <1>1, <1>4, ShowingGiven DEF Select
<1>5. CASE Refresh
  <2>1. ListReached
    BY <1>1, <1>5, ObservedReached DEF Refresh
  <2>2. cache' \in {cache, Put(cache, Key(selection),
                               Fetching(EntryOf(cache, Key(selection)), selection))}
    BY <1>5 DEF Refresh, Observe
  <2>3. QED BY <1>1, <2>1, <2>2, PutGiven DEF FetchGiven
<1>6. ASSUME NEW k \in DOMAIN cache, FetchAnswered(k) PROVE AllGiven(cache')
  <2>1. PICK entry : cache' = With(k, entry) /\ entry.fetch = None
    BY <1>6 DEF FetchAnswered
  <2>2. QED BY <1>1, <2>1, PutGiven DEF With, FetchGiven
<1>7. ASSUME NEW k \in DOMAIN cache, FetchFailed(k) PROVE AllGiven(cache')
  <2>1. [cache[k] EXCEPT !.fetch = None, !.failed = TRUE].fetch = None
    BY DEF Typed, Entries
  <2>2. QED BY <1>1, <1>7, <2>1, PutGiven DEF FetchFailed, With, FetchGiven
<1>8. ASSUME NEW control \in Controls, Open(control) PROVE AllGiven(cache')
  BY <1>1, <1>8, ShowingGiven DEF Open
<1>9. ASSUME NEW call \in pending, Succeeded(call) PROVE AllGiven(cache')
  <2>1. AllGiven(Updated(call))
    BY <1>1, UpdatedGiven
  <2>2. cache' = Showing(Updated(call), route', dialog', selection')
    BY <1>9 DEF Succeeded
  <2>3. QED BY <1>1, <2>1, <2>2, ShowingGiven
<1>10. CASE Leave \/ Cancel \/ GiveUp \/ Submit \/ Confirm \/ OtherChange \/ UNCHANGED vars
  BY <1>2, <1>10 DEF Leave, Cancel, GiveUp, Submit, Confirm, Start, OtherChange, vars
<1>11. ASSUME NEW control \in Controls, Ask(control) \/ SubmitForm(control) \/ Press(control)
       PROVE  cache' = cache
  BY <1>11 DEF Ask, SubmitForm, Press, Start
<1>12. ASSUME NEW call \in pending, Refused(call) \/ Carried(call) \/ Returned(call)
         \/ LostAnswer(call)
      PROVE  cache' = cache
  BY <1>12 DEF Refused, Refuse, Carried, Returned, LostAnswer
<1>13. QED BY <1>2, <1>3, <1>4, <1>5, <1>6, <1>7, <1>8, <1>9, <1>10, <1>11, <1>12 DEF Next

-----------------------------------------------------------------------------
\* Dialogs, confirmations and calls are of controls that were offered.

LEMMA OpenStays ==
  ASSUME Typed, OfferInv, CallSteps, LogSteps
  PROVE  dialog' # None => Given(log', dialog'.control, dialog'.at)
<1> DEFINE Fine == dialog' # None => Given(log', dialog'.control, dialog'.at)
<1>1. ASSUME dialog # None
      PROVE  Given(log', dialog.control, dialog.at)
  <2>1. dialog.at \in 0..Latest
    BY <1>1 DEF Typed
  <2>2. QED BY <1>1, <2>1, GivenStays DEF OfferInv, OpenGiven
<1>2. CASE dialog' = None \/ dialog' = dialog
  BY <1>1, <1>2
<1>3. ASSUME NEW control \in Controls, Open(control) PROVE Fine
  <2>1. dialog' = [control |-> control, gen |-> clicks + 1, at |-> RowOf(control)]
    BY <1>3 DEF Open
  <2>2. Given(log', control, RowOf(control))
    BY <1>3, OfferedNow, GivenStays, RowTyped DEF Open, OfferInv
  <2>3. QED BY <2>1, <2>2
<1>4. CASE Quiet \/ Leave \/ Cancel \/ GiveUp
  BY <1>2, <1>4 DEF Quiet, Leave, Cancel, GiveUp
<1>5. CASE Starts
  BY <1>2, <1>5 DEF Starts, Begins, Start
<1>6. ASSUME NEW section \in Sections(page), Mount(section) \/ SwitchSection(section)
      PROVE  dialog' = dialog
  BY <1>6 DEF Mount, SwitchSection
<1>7. ASSUME NEW control \in Controls, Ask(control) PROVE dialog' = dialog
  BY <1>7 DEF Ask
<1>8. ASSUME NEW call \in pending, \/ Refused(call) \/ Carried(call) \/ Succeeded(call)
                                   \/ Returned(call) \/ LostAnswer(call)
      PROVE  dialog' = None \/ dialog' = dialog
  BY <1>8 DEF Refused, Refuse, Carried, Succeeded, Lowered, Returned, LostAnswer
<1>9. QED BY <1>2, <1>3, <1>4, <1>5, <1>6, <1>7, <1>8 DEF CallSteps

LEMMA ConfirmStays ==
  ASSUME Typed, OfferInv, CallSteps, LogSteps
  PROVE  confirm' # None => Given(log', confirm'.control, confirm'.at)
<1> DEFINE Fine == confirm' # None => Given(log', confirm'.control, confirm'.at)
<1>1. ASSUME confirm # None
      PROVE  Given(log', confirm.control, confirm.at)
  <2>1. confirm.at \in 0..Latest
    BY <1>1 DEF Typed, Confirmations
  <2>2. QED BY <1>1, <2>1, GivenStays DEF OfferInv, ConfirmGiven
<1>2. CASE confirm' = None \/ confirm' = confirm
  BY <1>1, <1>2
<1>3. ASSUME NEW control \in Controls, Ask(control) PROVE Fine
  <2>1. confirm' = [control |-> control, gen |-> clicks + 1, at |-> RowOf(control), here |-> TRUE]
    BY <1>3 DEF Ask
  <2>2. Given(log', control, RowOf(control))
    BY <1>3, OfferedNow, GivenStays, RowTyped DEF Ask, OfferInv
  <2>3. QED BY <2>1, <2>2
<1>4. CASE Leave
  <2>1. confirm' = Elsewhere
    BY <1>4 DEF Leave
  <2>2. CASE confirm = None
    BY <2>1, <2>2 DEF Elsewhere
  <2>3. CASE confirm # None
    BY <1>1, <2>1, <2>3, ElsewhereIs
  <2>4. QED BY <2>2, <2>3
<1>5. CASE Quiet \/ Cancel \/ GiveUp
  BY <1>2, <1>5 DEF Quiet, Cancel, GiveUp
<1>6. CASE Starts
  BY <1>2, <1>6 DEF Starts, Begins, Start
<1>7. ASSUME NEW section \in Sections(page), Mount(section) \/ SwitchSection(section)
      PROVE  confirm' = confirm
  BY <1>7 DEF Mount, SwitchSection
<1>8. ASSUME NEW control \in Controls, Open(control) PROVE confirm' = confirm
  BY <1>8 DEF Open
<1>9. ASSUME NEW call \in pending, \/ Refused(call) \/ Carried(call) \/ Succeeded(call)
                                   \/ Returned(call) \/ LostAnswer(call)
      PROVE  confirm' = None \/ confirm' = confirm
  BY <1>9 DEF Refused, Refuse, Carried, Succeeded, Returned, LostAnswer
<1>10. QED BY <1>2, <1>3, <1>4, <1>5, <1>6, <1>7, <1>8, <1>9 DEF CallSteps

LEMMA StartIsGiven ==
  ASSUME Typed, OfferInv, NEW control \in Controls, NEW gen, NEW at, NEW here,
         Begins(control, gen, at, here), NEW call \in pending'
  PROVE  call \in pending \/ (call.at \in 0..Latest /\ CallGiven(log, call))
<1>1. call \in pending \/ (call.act = control.act /\ call.at = at)
  <2> DEFINE new == [id |-> clicks + 1, act |-> control.act, gen |-> gen, at |-> at,
                     here |-> here, phase |-> "sent", version |-> 0]
  <2>1. pending' = pending \cup {new}
    BY DEF Begins, Start
  <2>2. new.act = control.act /\ new.at = at
    OBVIOUS
  <2> HIDE DEF new
  <2>3. QED BY <2>1, <2>2
<1>2. control.shape # "viewer" /\ at \in 0..Latest
  BY BegunTyped
<1>3. Given(log, control, at)
  <2>1. CASE FromDialog(control, gen, at, here)
    BY <2>1 DEF FromDialog, OfferInv, OpenGiven
  <2>2. CASE FromForm(control, gen, at, here)
    BY <2>2, OfferedNow DEF FromForm, OfferInv
  <2>3. CASE FromButton(control, gen, at, here)
    BY <2>3, OfferedNow DEF FromButton, OfferInv
  <2>4. CASE FromConfirm(control, gen, at, here)
    BY <2>4 DEF FromConfirm, OfferInv, ConfirmGiven
  <2>5. QED BY <2>1, <2>2, <2>3, <2>4 DEF Begins
<1>4. QED BY <1>1, <1>2, <1>3 DEF CallGiven

\* A step leaves the act and the row of a call as they are.
SameCalls == \A call \in pending' : \E c \in pending : call.act = c.act /\ call.at = c.at

LEMMA CallsAreSame ==
  ASSUME Typed, CallSteps
  PROVE  Starts \/ SameCalls
<1>1. CASE pending' \subseteq pending
  BY <1>1 DEF SameCalls
<1>2. CASE Leave
  <2>1. ASSUME NEW call \in Gone PROVE \E c \in pending : call.act = c.act /\ call.at = c.at
    <3>1. PICK c \in pending : call = [c EXCEPT !.here = FALSE]
      BY <2>1 DEF Gone
    <3>2. c \in Calls(clicks, Latest)
      BY DEF Typed
    <3>3. QED BY <3>1, <3>2 DEF Calls
  <2>2. QED BY <1>2, <2>1 DEF Leave, Gone, SameCalls
<1>3. CASE Quiet \/ Cancel \/ GiveUp
  BY <1>1, <1>3 DEF Quiet, Cancel, GiveUp
<1>4. ASSUME NEW section \in Sections(page), Mount(section) \/ SwitchSection(section)
      PROVE  pending' = pending
  BY <1>4 DEF Mount, SwitchSection
<1>5. ASSUME NEW control \in Controls, Open(control) \/ Ask(control) PROVE pending' = pending
  BY <1>5 DEF Open, Ask
<1>6. ASSUME NEW call \in pending, Refused(call) \/ Carried(call) PROVE SameCalls
  <2>1. call \in Calls(clicks, Latest)
    BY DEF Typed
  <2> DEFINE refused == [call EXCEPT !.phase = "refused"]
             carried == [call EXCEPT !.phase = "applied", !.version = Len(log')]
  <2>2. /\ refused.act = call.act /\ refused.at = call.at
        /\ carried.act = call.act /\ carried.at = call.at
    BY <2>1 DEF Calls
  <2>3. pending' = (pending \ {call}) \cup {refused} \/ pending' = (pending \ {call}) \cup {carried}
    BY <1>6 DEF Refused, Refuse, Carried, Becomes
  <2> HIDE DEF refused, carried
  <2>4. QED BY <2>2, <2>3 DEF SameCalls
<1>7. ASSUME NEW call \in pending, Succeeded(call) \/ Returned(call) \/ LostAnswer(call)
      PROVE  pending' \subseteq pending
  BY <1>7 DEF Succeeded, Returned, LostAnswer
<1>8. QED BY <1>1, <1>2, <1>3, <1>4, <1>5, <1>6, <1>7 DEF CallSteps

LEMMA CallsStay ==
  ASSUME Typed, OfferInv, CallSteps, LogSteps, NEW call \in pending'
  PROVE  CallGiven(log', call)
<1>1. ASSUME NEW c \in pending PROVE c.at \in 0..Latest /\ CallGiven(log, c)
  BY <1>1 DEF Typed, Calls, OfferInv, CallsGiven
<1>2. call.at \in 0..Latest /\ CallGiven(log, call)
  <2>1. CASE Starts
    <3>1. PICK control \in Controls : \E gen, at, here : Begins(control, gen, at, here)
      BY <2>1 DEF Starts
    <3>2. PICK gen, at, here : Begins(control, gen, at, here)
      BY <3>1
    <3>3. QED BY <1>1, <3>2, StartIsGiven
  <2>2. CASE SameCalls
    BY <1>1, <2>2 DEF SameCalls, CallGiven
  <2>3. QED BY <2>1, <2>2, CallsAreSame
<1>3. PICK control \in Controls :
        control.act = call.act /\ control.shape # "viewer" /\ Given(log, control, call.at)
  BY <1>2 DEF CallGiven
<1>4. Given(log', control, call.at)
  BY <1>2, <1>3, GivenStays
<1>5. QED BY <1>3, <1>4 DEF CallGiven

-----------------------------------------------------------------------------
\* A call that is refused, where it counts, has a gap.
LEMMA RefusedHasGap ==
  ASSUME Typed, OfferInv, NEW call \in pending,
         \/ call.act \notin user.calls
         \/ call.at = Latest /\ ~Accepts(call.act, Status(Latest))
  PROVE  KnownGap(call.act)
<1>1. PICK control \in Controls :
        control.act = call.act /\ control.shape # "viewer" /\ Given(log, control, call.at)
  BY DEF OfferInv, CallsGiven, CallGiven
<1>2. PICK section \in Sections(page) : OfferedAt(section, log, control, call.at)
  BY <1>1 DEF Given
<1>3. control \in section.controls
  BY <1>2 DEF OfferedAt
<1>4. CASE call.act \notin user.calls
  <2>1. OfferedAt(section, log, control, 0)
    BY <1>2 DEF OfferedAt
  <2>2. Gap(section.key, control.act)
    BY <1>1, <1>3, <1>4, <2>1 DEF OfferInv, OffersKnown
  <2>3. QED BY <1>1, <2>2 DEF KnownGap
<1>5. CASE call.at = Latest /\ ~Accepts(call.act, Status(Latest))
  <2>1. call.at # 0
    BY <1>5, Bounds
  <2>2. log[Latest] # "gone" /\ (control.from = {} \/ log[Latest] \in control.from)
    BY <1>2, <1>5, <2>1 DEF OfferedAt
  <2>3. /\ call.act \in DOMAIN AcceptedStatuses
        /\ log[Latest] \notin AcceptedStatuses[call.act]
    BY <1>5, <2>2 DEF Accepts, Status
  <2>4. StatusesCovered(section.key, section.controls)
    BY DEF OfferInv, OffersKnown
  <2>5. \/ control.from # {} /\ control.from \subseteq AcceptedStatuses[control.act]
        \/ Gap(section.key, control.act)
    BY <1>1, <1>3, <2>3, <2>4 DEF StatusesCovered
  <2>6. Gap(section.key, control.act)
    BY <1>1, <2>2, <2>3, <2>5
  <2>7. QED BY <1>1, <2>6 DEF KnownGap
<1>6. QED BY <1>4, <1>5

LEMMA RefusalsStay ==
  ASSUME Typed, OfferInv, [Next]_vars
  PROVE  \A call \in refusals' : KnownGap(call)
<1> DEFINE Known == \A call \in refusals' : KnownGap(call)
<1>1. \A call \in refusals : KnownGap(call)
  BY DEF OfferInv, RefusalsKnown, KnownGap, Gap
<1>2. ASSUME refusals' = refusals PROVE Known
  BY <1>1, <1>2
<1>3. ASSUME NEW k \in DOMAIN cache, FetchFailed(k) PROVE Known
  <2>1. ListReached
    BY <1>3 DEF FetchFailed, OfferInv, FetchedReached
  <2>2. list.call \in user.calls \/ KnownGap(list.call)
    BY <2>1 DEF OfferInv, OffersKnown, ListReached, KnownGap
  <2>3. QED BY <1>1, <1>3, <2>2 DEF FetchFailed
<1>4. ASSUME NEW call \in pending, Refused(call) PROVE Known
  <2>1. \/ refusals' = refusals
        \/ /\ refusals' = refusals \cup {call.act}
           /\ \/ call.act \notin user.calls
              \/ call.at = Latest /\ ~Accepts(call.act, Status(Latest))
    BY <1>4 DEF Refused
  <2>2. QED BY <1>1, <2>1, RefusedHasGap
<1>5. CASE Leave \/ Refresh \/ Cancel \/ GiveUp \/ Submit \/ Confirm \/ OtherChange \/ UNCHANGED vars
  BY <1>2, <1>5 DEF Leave, Refresh, Cancel, GiveUp, Submit, Confirm, Start, OtherChange, vars
<1>6. ASSUME NEW section \in Sections(page), Mount(section) \/ SwitchSection(section)
      PROVE  refusals' = refusals
  BY <1>6 DEF Mount, SwitchSection
<1>7. ASSUME NEW part \in Parts(list), Select(part) PROVE refusals' = refusals
  BY <1>7 DEF Select
<1>8. ASSUME NEW k \in DOMAIN cache, FetchAnswered(k) PROVE refusals' = refusals
  BY <1>8 DEF FetchAnswered
<1>9. ASSUME NEW control \in Controls,
             Open(control) \/ Ask(control) \/ SubmitForm(control) \/ Press(control)
      PROVE  refusals' = refusals
  BY <1>9 DEF Open, Ask, SubmitForm, Press, Start
<1>10. ASSUME NEW call \in pending,
              Carried(call) \/ Succeeded(call) \/ Returned(call) \/ LostAnswer(call)
       PROVE  refusals' = refusals
  BY <1>10 DEF Carried, Succeeded, Returned, LostAnswer
<1>11. QED BY <1>2, <1>3, <1>4, <1>5, <1>6, <1>7, <1>8, <1>9, <1>10 DEF Next

LEMMA StepOffers == IInv /\ OfferInv /\ [Next]_vars => OfferInv'
<1>1. SUFFICES ASSUME IInv, OfferInv, [Next]_vars PROVE OfferInv'
  OBVIOUS
<1>2. Typed /\ page' = page /\ list' = list /\ user' = user
  BY <1>1, RoleKept DEF IInv
<1>3. CallSteps /\ LogSteps
  BY <1>1, <1>2, CallStepsTaken, LogStepsTaken
<1>4. /\ dialog' # None => Given(log', dialog'.control, dialog'.at)
      /\ confirm' # None => Given(log', confirm'.control, confirm'.at)
      /\ \A call \in pending' : CallGiven(log', call)
  BY <1>1, <1>2, <1>3, OpenStays, ConfirmStays, CallsStay
<1>5. OffersKnown'
  BY <1>1, <1>2, SameGiven DEF OfferInv
<1>6. RouteOpen'
  BY <1>1, <1>2, <1>3, RouteStays, SameGiven DEF RouteGiven, RouteOpen
<1>7. FetchedReached'
  <2>1. DialogGiven(dialog')
    BY <1>4 DEF Given, OfferedAt, DialogGiven
  <2>2. AllGiven(cache')
    BY <1>1, <1>2, <2>1, FetchesGiven
  <2>3. QED BY <1>2, <2>2, SameGiven DEF AllGiven, FetchGiven, FetchedReached
<1>8. OpenGiven' /\ ConfirmGiven' /\ CallsGiven'
  BY <1>2, <1>4, SameGiven DEF OpenGiven, ConfirmGiven, CallsGiven
<1>9. RefusalsKnown'
  <2>1. \A call \in refusals' : KnownGap(call)
    BY <1>1, <1>2, RefusalsStay
  <2>2. QED BY <1>2, <2>1 DEF RefusalsKnown, KnownGap, Gap
<1>10. QED BY <1>5, <1>6, <1>7, <1>8, <1>9 DEF OfferInv

\* Whatever a section of a page offers its user on what it shows, the server accepts, but for the
\* gaps that are listed, however the rows change, and wherever in the component the user goes,
\* before the call is made, arrives and is answered (permission-meta, the route guards and the
\* conditions of the controls, against router_metadata and the handlers).
THEOREM OnlyGapsRefused == Spec => []RefusalsKnown
<1>1. OfferInv => RefusalsKnown
  BY DEF OfferInv
<1>2. QED BY <1>1, InitOffers, StepOffers, Invariance, PTL DEF Spec
=============================================================================
