---------------------------- MODULE PlatformScope ----------------------------
(***************************************************************************)
(* The tenant and brand the console works in: PlatformScopeProvider with   *)
(* its two queries, its five effects, the localStorage keys they write,    *)
(* and the selects of the header.                                          *)
(*                                                                         *)
(* Effects run after a commit, all on the values that commit rendered, and *)
(* what they set makes the next commit: a pass is one step, and clicks and *)
(* answers may come between two passes.                                    *)
(***************************************************************************)
EXTENDS Naturals, FiniteSets

CONSTANTS Tenants, Brands,
          Owner,      \* [Brands -> Tenants]
          Users,      \* profiles [level, tenant, brand, seesTenants, seesBrands]
          None,
          MaxMoves    \* bound: clicks, loads, sign-ins, refetches and deletions

Levels == {"platform", "tenant", "brand", "agent"}

ASSUME ScopeConstants ==
  /\ Owner \in [Brands -> Tenants]
  /\ Users \subseteq [level : Levels, tenant : Tenants \cup {None}, brand : Brands \cup {None},
                      seesTenants : BOOLEAN, seesBrands : BOOLEAN]
  /\ \A u \in Users : None \notin {u.tenant, u.brand} => Owner[u.brand] = u.tenant
  /\ None \notin Tenants \cup Brands \cup Users
  /\ MaxMoves \in Nat

VARIABLES
  who,           \* the profile signed in, or None
  activeTenant, activeBrand,
  storedTenant, storedBrand,
  tenantCache,   \* the answer held, or None
  brandCache,    \* the answer held for each active tenant, or None
  tenantFetch, brandFetch,   \* whose request is in flight, or None
  ran,           \* what the last effect pass rendered, or None before the first
  serverTenants, serverBrands,
  moves

active == <<activeTenant, activeBrand>>
stored == <<storedTenant, storedBrand>>
queries == <<tenantCache, brandCache, tenantFetch, brandFetch>>
serverScope == <<serverTenants, serverBrands>>
scopeVars == <<who, active, stored, queries, ran, serverScope, moves>>

BrandKeys == Tenants \cup {None}

Level == IF who = None THEN "platform" ELSE who.level
LockedTenant == IF who = None THEN None ELSE who.tenant
LockedBrand == IF who = None THEN None ELSE who.brand
TenantLocked == Level # "platform"
BrandLocked == Level \in {"brand", "agent"}
ScopeLocked == TenantLocked \/ BrandLocked
CanLoadTenants == who # None /\ ~TenantLocked /\ who.seesTenants
CanLoadBrands == who # None /\ Level # "agent" /\ who.seesBrands

Held(answer) == IF answer = None THEN {} ELSE answer
TenantList == IF ~TenantLocked THEN Held(tenantCache) ELSE {LockedTenant} \ {None}
BrandList == IF ~BrandLocked THEN Held(brandCache[activeTenant])
             ELSE IF None \in {LockedBrand, LockedTenant} THEN {} ELSE {LockedBrand}

\* What the effects and the query observers depend on.
Rendered == [tenant |-> activeTenant, brand |-> activeBrand,
             lock |-> <<TenantLocked, BrandLocked, LockedTenant, LockedBrand>>,
             tenants |-> TenantList, brands |-> BrandList,
             loads |-> <<CanLoadTenants, CanLoadBrands>>]

Settled == ran # None /\ ran = Rendered
Changed(parts) == ran = None \/ \E part \in parts : ran[part] # Rendered[part]

-----------------------------------------------------------------------------
\* One pass: the observers fetch what they now look at, then the effects, in
\* their order: persist the tenant, persist the brand, apply the lock, drop a
\* tenant that is not in the list, drop a brand that is not in the list.

\* A query already in flight is not sent again, whoever sent it.
Sent(fetch, wanted) == IF wanted /\ fetch = None THEN who ELSE fetch

FetchObserved ==
  /\ tenantFetch' = Sent(tenantFetch, CanLoadTenants /\ (ran = None \/ ~ran.loads[1]))
  /\ brandFetch' =
       [brandFetch EXCEPT ![activeTenant] =
          Sent(@, CanLoadBrands /\ (ran = None \/ ~ran.loads[2] \/ ran.tenant # activeTenant))]

\* Mutant: the lock is looked at when the provider mounts, and never again.
AppliesAtMount == ScopeLocked /\ ran = None

Applies == ScopeLocked /\ Changed({"lock"})

\* Mutant: the lock leaves the stored scope where it is.
PersistUnlocked ==
  /\ storedTenant' = IF ~TenantLocked /\ Changed({"tenant", "lock"}) THEN activeTenant
                     ELSE storedTenant
  /\ storedBrand' = IF ~BrandLocked /\ Changed({"brand", "lock"}) THEN activeBrand
                    ELSE storedBrand

PersistScope ==
  /\ storedTenant' = IF Applies THEN None
                     ELSE IF ~TenantLocked /\ Changed({"tenant", "lock"}) THEN activeTenant
                     ELSE storedTenant
  /\ storedBrand' = IF Applies /\ BrandLocked THEN None
                    ELSE IF ~BrandLocked /\ Changed({"brand", "lock"}) THEN activeBrand
                    ELSE storedBrand

TenantGone ==
  /\ ~TenantLocked /\ Changed({"tenant", "tenants", "lock"})
  /\ activeTenant # None /\ activeTenant \notin TenantList

BrandGone ==
  /\ ~BrandLocked /\ Changed({"brand", "brands", "lock"})
  /\ activeBrand # None /\ activeBrand \notin BrandList

CorrectScope ==
  /\ activeTenant' = IF Applies THEN LockedTenant ELSE IF TenantGone THEN None ELSE activeTenant
  /\ activeBrand' = IF TenantGone \/ BrandGone THEN None
                    ELSE IF Applies /\ BrandLocked THEN LockedBrand ELSE activeBrand

Pass ==
  /\ ~Settled
  /\ FetchObserved
  /\ PersistScope
  /\ CorrectScope
  /\ ran' = Rendered
  /\ UNCHANGED <<who, tenantCache, brandCache, serverScope, moves>>

-----------------------------------------------------------------------------
\* Queries.  An answer shows the server of the moment it is given, and only
\* what lies in the scope of the account that asked.

Listed(u) == {b \in serverBrands : u.tenant \in {None, Owner[b]} /\ u.brand \in {None, b}}

\* Mutant: the answer's envelope is taken for the list.
TenantsUnwrapped ==
  /\ tenantFetch # None
  /\ tenantCache' = {serverTenants}
  /\ tenantFetch' = None
  /\ UNCHANGED <<who, active, stored, brandCache, brandFetch, ran, serverScope, moves>>

TenantsAnswered ==
  /\ tenantFetch # None
  /\ tenantCache' = serverTenants
  /\ tenantFetch' = None
  /\ UNCHANGED <<who, active, stored, brandCache, brandFetch, ran, serverScope, moves>>

BrandsAnswered(key) ==
  /\ brandFetch[key] # None
  /\ brandCache' = [brandCache EXCEPT ![key] =
                      {b \in Listed(brandFetch[key]) : key \in {None, Owner[b]}}]
  /\ brandFetch' = [brandFetch EXCEPT ![key] = None]
  /\ UNCHANGED <<who, active, stored, tenantCache, tenantFetch, ran, serverScope, moves>>

\* A failed fetch keeps the data there was.
TenantsFailed ==
  /\ tenantFetch # None /\ tenantFetch' = None
  /\ UNCHANGED <<who, active, stored, tenantCache, brandCache, brandFetch, ran, serverScope, moves>>

BrandsFailed(key) ==
  /\ brandFetch[key] # None /\ brandFetch' = [brandFetch EXCEPT ![key] = None]
  /\ UNCHANGED <<who, active, stored, tenantCache, brandCache, tenantFetch, ran, serverScope, moves>>

Move == moves < MaxMoves /\ moves' = moves + 1

\* The window gets the focus back: what is observed is fetched again.
Focus ==
  /\ Move
  /\ tenantFetch' = Sent(tenantFetch, CanLoadTenants)
  /\ brandFetch' = [brandFetch EXCEPT ![activeTenant] = Sent(@, CanLoadBrands)]
  /\ UNCHANGED <<who, active, stored, tenantCache, brandCache, ran, serverScope>>

\* Another administrator deletes a brand, or a tenant without brands.
Deleted ==
  /\ Move
  /\ \/ \E b \in serverBrands : serverBrands' = serverBrands \ {b} /\ UNCHANGED serverTenants
     \/ \E t \in serverTenants : /\ \A b \in serverBrands : Owner[b] # t
                                 /\ serverTenants' = serverTenants \ {t}
                                 /\ UNCHANGED serverBrands
  /\ UNCHANGED <<who, active, stored, queries, ran>>

-----------------------------------------------------------------------------
\* Sessions and clicks.

SetActiveTenantId(t) ==
  /\ activeTenant' = IF TenantLocked THEN activeTenant ELSE t
  /\ activeBrand' = IF TenantLocked THEN activeBrand ELSE None

SetActiveBrandId(b) ==
  /\ activeBrand' = IF BrandLocked THEN activeBrand ELSE b
  /\ UNCHANGED activeTenant

\* The selects of the header are disabled for a locked scope, the brand's also
\* without a tenant; clearing a select gives None.  What can be picked has
\* been rendered, and the effects have seen it.
PickScope ==
  /\ Move /\ who # None /\ ~ScopeLocked
  /\ \/ \E t \in ran.tenants \cup {None} : SetActiveTenantId(t)
     \/ activeTenant # None /\ \E b \in ran.brands \cup {None} : SetActiveBrandId(b)
     \/ SetActiveTenantId(None)   \* clearScope
  /\ UNCHANGED <<who, stored, queries, ran, serverScope>>

\* The provider outlives the session: only the profile changes.  A profile
\* comes with an answer of the server, by when the effects have seen that
\* nobody is signed in.
SignIn(u) ==
  /\ Move /\ who = None /\ ~Changed({"lock"})
  /\ who' = u
  /\ UNCHANGED <<active, stored, queries, ran, serverScope>>

SignOut ==
  /\ Move /\ who # None
  /\ who' = None
  /\ UNCHANGED <<active, stored, queries, ran, serverScope>>

\* A load: the first render reads the stored scope and knows no profile yet.
Load ==
  /\ Move
  /\ who' = None
  /\ activeTenant' = storedTenant /\ activeBrand' = storedBrand
  /\ tenantCache' = None /\ brandCache' = [key \in BrandKeys |-> None]
  /\ tenantFetch' = None /\ brandFetch' = [key \in BrandKeys |-> None]
  /\ ran' = None
  /\ UNCHANGED <<stored, serverScope>>

ScopeInit ==
  /\ who = None
  /\ activeTenant = None /\ activeBrand = None
  /\ storedTenant = None /\ storedBrand = None
  /\ tenantCache = None /\ brandCache = [key \in BrandKeys |-> None]
  /\ tenantFetch = None /\ brandFetch = [key \in BrandKeys |-> None]
  /\ ran = None
  /\ serverTenants = Tenants /\ serverBrands = Brands
  /\ moves = 0

\* What happens around a page: all but the passes, the header and what ends it.
ScopeNext ==
  \/ TenantsAnswered \/ TenantsFailed
  \/ \E key \in BrandKeys : BrandsAnswered(key) \/ BrandsFailed(key)
  \/ Focus \/ Deleted
  \/ \E u \in Users : SignIn(u)

-----------------------------------------------------------------------------
\* Properties of the scope.

\* Every part of the scope has its type (PlatformScopeProvider).
ScopeTypeOK ==
  /\ who \in Users \cup {None}
  /\ activeTenant \in Tenants \cup {None} /\ activeBrand \in Brands \cup {None}
  /\ storedTenant \in Tenants \cup {None} /\ storedBrand \in Brands \cup {None}
  /\ tenantCache = None \/ tenantCache \subseteq Tenants
  /\ \A key \in BrandKeys : brandCache[key] = None \/ brandCache[key] \subseteq Brands
  /\ tenantFetch \in Users \cup {None} /\ brandFetch \in [BrandKeys -> Users \cup {None}]
  /\ moves \in 0..MaxMoves

\* Once the effects have settled, a locked account works in its own tenant and
\* brand whatever was selected before it signed in, an account that chooses
\* works in a tenant of its list, and the active brand belongs to the active
\* tenant (the effects and setters of PlatformScopeProvider).
ScopeValid ==
  Settled /\ who # None =>
    /\ TenantLocked => activeTenant = LockedTenant
    /\ BrandLocked => activeBrand = LockedBrand
    /\ ~TenantLocked => activeTenant \in TenantList \cup {None}
    /\ activeTenant # None /\ activeBrand # None => Owner[activeBrand] = activeTenant

\* Once settled, the storage holds the scope that an account has chosen and
\* nothing of a locked one (the persistence effects).
StoredFollows ==
  Settled =>
    /\ storedTenant = IF TenantLocked THEN None ELSE activeTenant
    /\ storedBrand = IF BrandLocked THEN None ELSE activeBrand

=============================================================================
