------------------------- MODULE ConfigCenterProofs -------------------------
(***************************************************************************)
(* Proofs about ConfigCenter, and with it about PlatformScope, for every   *)
(* set of tenants, brands, accounts, keys and texts, and any number of     *)
(* moves and saved configs.                                                *)
(***************************************************************************)
EXTENDS ConfigCenter, TLAPS

-----------------------------------------------------------------------------
\* The templates.

\* A template has three fields, whose bounds are numbers.
Wellformed(template) ==
  /\ DOMAIN template.fields = 1..3
  /\ \A i \in 1..3 : template.fields[i].min \subseteq Int /\ template.fields[i].max \subseteq Int

LEMMA TemplatesWellformed == \A template \in OperatingParamTemplates : Wellformed(template)
  BY SMTT(60) DEF OperatingParamTemplates, Template, Field, Percent, Amount, Whole, Unbounded, Wellformed

\* Values whose numbers are numbers, whatever else they hold.
Numeric(text) ==
  text.parse = "object" => \A key \in DOMAIN text.object : text.object[key].tenths \in Int

LEMMA DefaultsNumeric ==
    ASSUME NEW template \in OperatingParamTemplates
    PROVE  Numeric(JsonObject(BuildOperatingParamDefaults(template)))
  <1> DEFINE object == BuildOperatingParamDefaults(template)
  <1>1. SUFFICES ASSUME NEW key \in FieldKeys(template) PROVE object[key].tenths \in Int
    BY DEF Numeric, JsonObject, BuildOperatingParamDefaults
  <1> DEFINE i == CHOOSE j \in DOMAIN template.fields : template.fields[j].key = key
             min == template.fields[i].min
  <1>2. i \in 1..3
    BY TemplatesWellformed DEF FieldKeys, Wellformed
  <1>3. min \subseteq Int
    BY <1>2, TemplatesWellformed DEF Wellformed
  <1>4. object[key] = Num(IF min = Unbounded THEN 0 ELSE CHOOSE bound \in min : TRUE)
    BY DEF BuildOperatingParamDefaults
  <1>5. (IF min = Unbounded THEN 0 ELSE CHOOSE bound \in min : TRUE) \in Int
    <2>1. CASE min = {}
      BY <2>1 DEF Unbounded
    <2>2. CASE min # {}
      <3>1. (CHOOSE bound \in min : TRUE) \in min
        BY <2>2
      <3>2. QED BY <1>3, <2>2, <3>1 DEF Unbounded
    <2>3. QED BY <2>1, <2>2
  <1>6. QED BY <1>4, <1>5 DEF Num

LEMMA EnabledNumeric == Numeric(EnabledText)
  BY DEF Numeric, EnabledText, JsonObject, True

\* A value of a template, with a number in range for each field: what
\* SavedTemplateValid asks of a row.
Fits(template, text) ==
  /\ text.parse = "object"
  /\ \A i \in DOMAIN template.fields :
       LET field == template.fields[i]
       IN  /\ field.key \in DOMAIN text.object
           /\ IsNumber(text.object[field.key])
           /\ InRange(field, text.object[field.key])

LEMMA NoIssueFits ==
    ASSUME NEW template \in OperatingParamTemplates, NEW text, Numeric(text),
           Issues(template.key, text) = {}
    PROVE  Fits(template, text)
  <1> DEFINE found == IF text.parse # "object" THEN {"objectRequired"}
                      ELSE ValidateOperatingConfig(template, text.object)
  <1>1. found = {}
    <2>1. template \in FindOperatingTemplate(template.key)
      BY DEF FindOperatingTemplate
    <2>2. found \subseteq Issues(template.key, text)
      BY <2>1 DEF Issues
    <2>3. QED BY <2>2
  <1>2. text.parse = "object"
    BY <1>1
  <1>3. ASSUME NEW i \in DOMAIN template.fields
        PROVE  LET field == template.fields[i]
               IN  /\ field.key \in DOMAIN text.object
                   /\ IsNumber(text.object[field.key])
                   /\ InRange(field, text.object[field.key])
    <2> DEFINE field == template.fields[i]
               v == text.object[field.key]
    <2>1. FieldIssues(field, text.object) = {}
      BY <1>1, <1>2 DEF ValidateOperatingConfig
    <2>2. ~Absent(text.object, field.key)
      BY <2>1 DEF FieldIssues
    <2>3. IsNumber(v) /\ ~(field.type = "integer" /\ v.tenths % 10 # 0)
      BY <2>1, <2>2 DEF FieldIssues
    <2>4. ~Under(v, field.min) /\ ~Over(v, field.max)
      <3>1. FieldIssues(field, text.object)
              = {issue \in {"min", "max"} : \/ issue = "min" /\ Under(v, field.min)
                                            \/ issue = "max" /\ Over(v, field.max)}
        BY <2>2, <2>3 DEF FieldIssues
      <3>2. QED BY <2>1, <3>1
    <2>5. field.key \in DOMAIN text.object /\ v.tenths \in Int
      BY <1>2, <2>2 DEF Absent, Numeric
    <2>6. field.min \subseteq Int /\ field.max \subseteq Int
      BY TemplatesWellformed DEF Wellformed
    <2>7. InRange(field, v)
      BY <2>3, <2>4, <2>5, <2>6 DEF InRange, Under, Over
    <2>8. QED BY <2>3, <2>5, <2>7
  <1>4. QED BY <1>2, <1>3 DEF Fits

-----------------------------------------------------------------------------
\* What is saved.

\* Every value that may be saved has numbers for numbers: what is typed, what
\* the dialog was opened with and what is stored.
TextsNumeric ==
  /\ "text" \in DOMAIN form
  /\ form.text # None => Numeric(form.text)
  /\ dialog \notin {None, Create} => Numeric(dialog.text)
  /\ \A row \in configs : Numeric(row.text)

SavedFit ==
  \A row \in configs, template \in OperatingParamTemplates :
    row.key = template.key => Fits(template, row.text)

LEMMA SavedFitIsValid == SavedFit <=> SavedTemplateValid
  BY DEF SavedFit, SavedTemplateValid, Fits

LEMMA InitTexts == Init => TextsNumeric /\ SavedFit
  BY DEF Init, EmptyForm, TextsNumeric, SavedFit

LEMMA FormEffectTexts ==
    ASSUME TextsNumeric, FormEffect, UNCHANGED configs
    PROVE  TextsNumeric'
  <1>1. CASE dialog = None
    BY <1>1 DEF TextsNumeric, FormEffect
  <1>2. CASE dialog # None /\ dialog = Create
    BY <1>2, EnabledNumeric DEF TextsNumeric, FormEffect
  <1>3. CASE dialog # None /\ dialog # Create
    BY <1>3 DEF TextsNumeric, FormEffect
  <1>4. QED BY <1>1, <1>2, <1>3

LEMMA OpenTexts ==
    ASSUME TextsNumeric, NEW target, Open(target), UNCHANGED form,
           target \in configs \cup {Create}
    PROVE  TextsNumeric'
  BY DEF TextsNumeric, Open

LEMMA FilledTexts ==
    ASSUME TextsNumeric, NEW template \in OperatingParamTemplates
    PROVE  "text" \in DOMAIN Filled(template) /\ Numeric(Filled(template).text)
  <1>1. Filled(template).text = JsonObject(BuildOperatingParamDefaults(template))
    BY DEF Filled, TextsNumeric
  <1>2. DOMAIN Filled(template) = DOMAIN form
    BY DEF Filled
  <1>3. QED BY <1>1, <1>2, DefaultsNumeric DEF TextsNumeric

LEMMA SubmitTexts ==
    ASSUME TextsNumeric, SavedFit, Submit
    PROVE  TextsNumeric' /\ SavedFit'
  <1>1. form.text # None /\ Numeric(form.text) /\ Issues(form.key.name, form.text) = {}
    BY DEF Submit, Submittable, TextsNumeric
  <1>2. Payload.key = form.key.name /\ Payload.text = form.text
    BY DEF Payload
  <1>3. configs' \subseteq configs \cup {Payload} /\ form' = EmptyForm /\ dialog' = None
    BY DEF Submit
  <1>4. TextsNumeric'
    BY <1>1, <1>2, <1>3 DEF TextsNumeric, EmptyForm
  <1>5. ASSUME NEW template \in OperatingParamTemplates, Payload.key = template.key
        PROVE  Fits(template, Payload.text)
    BY <1>1, <1>2, <1>5, NoIssueFits
  <1>6. QED BY <1>3, <1>4, <1>5 DEF SavedFit

LEMMA NextTexts ==
    ASSUME TextsNumeric, SavedFit, [Next]_vars
    PROVE  TextsNumeric' /\ SavedFit'
  <1>1. CASE UNCHANGED <<formVars, configs>>
    BY <1>1 DEF TextsNumeric, SavedFit, formVars
  <1>2. CASE Effects
    <2>1. UNCHANGED configs
      BY <1>2 DEF Effects
    <2>2. TextsNumeric'
      BY <1>1, <1>2, <2>1, FormEffectTexts DEF Effects
    <2>3. QED BY <2>1, <2>2 DEF SavedFit
  <1>3. CASE ClosePage /\ UNCHANGED configs
    BY <1>3 DEF ClosePage, EmptyForm, TextsNumeric, SavedFit
  <1>4. CASE OpenPage \/ CancelDialog
    BY <1>4 DEF OpenPage, CancelDialog, TextsNumeric, SavedFit
  <1>5. CASE HandleCreate \/ HandleEdit
    <2>1. PICK target \in configs \cup {Create} : Open(target) /\ UNCHANGED form
      BY <1>5 DEF HandleCreate, HandleEdit, ListedConfigs
    <2>2. TextsNumeric'
      BY <2>1, OpenTexts
    <2>3. QED BY <2>1, <2>2 DEF Open, SavedFit
  <1>6. ASSUME NEW template \in OperatingParamTemplates, UseTemplate(template)
        PROVE  TextsNumeric' /\ SavedFit'
    <2>1. CASE \E row \in ListedConfigs : Open(row) /\ UNCHANGED form
      <3>1. PICK target \in configs : Open(target) /\ UNCHANGED form
        BY <2>1 DEF ListedConfigs
      <3>2. TextsNumeric'
        BY <3>1, OpenTexts
      <3>3. QED BY <3>1, <3>2 DEF Open, SavedFit
    <2>2. CASE /\ Open(Create)
               /\ form' = [Filled(template) EXCEPT !.tenant = activeTenant, !.brand = activeBrand]
      <3>1. form'.text = Filled(template).text /\ DOMAIN form' = DOMAIN Filled(template)
        BY <2>2, FilledTexts
      <3>2. QED BY <2>2, <3>1, FilledTexts DEF Open, TextsNumeric, SavedFit
    <2>3. QED BY <1>6, <2>1, <2>2 DEF UseTemplate
  <1>7. CASE HandleTemplateChange
    <2>1. UNCHANGED <<dialog, configs>>
      BY <1>7 DEF HandleTemplateChange
    <2>2. CASE \E template \in OperatingParamTemplates : form' = Filled(template)
      BY <2>1, <2>2, FilledTexts DEF TextsNumeric, SavedFit
    <2>3. CASE form' = [form EXCEPT !.key = NoKey, !.text = EnabledText]
      BY <2>1, <2>3, EnabledNumeric DEF TextsNumeric, SavedFit
    <2>4. QED BY <1>7, <2>2, <2>3 DEF HandleTemplateChange
  <1>8. CASE TypeIn
    BY <1>8, CenterConstants DEF TypeIn, Numeric, TextsNumeric, SavedFit
  <1>9. CASE PickTenant \/ PickBrand
    BY <1>9 DEF PickTenant, PickBrand, TextsNumeric, SavedFit
  <1>10. CASE Submit
    BY <1>10, SubmitTexts
  <1>11. QED
    BY <1>1, <1>2, <1>3, <1>4, <1>5, <1>6, <1>7, <1>8, <1>9, <1>10 DEF Next, vars

\* Whatever is typed, picked from a template or changed half-way, a saved
\* config with the key of a template has a number in range for each of its
\* fields.  (platform-config-center, handleSubmit)
THEOREM SavedTemplateCorrect == Spec => []SavedTemplateValid
  <1>1. Init => TextsNumeric /\ SavedFit
    BY InitTexts
  <1>2. TextsNumeric /\ SavedFit /\ [Next]_vars => (TextsNumeric /\ SavedFit)'
    BY NextTexts
  <1>3. TextsNumeric /\ SavedFit => SavedTemplateValid
    BY SavedFitIsValid
  <1>4. QED BY <1>1, <1>2, <1>3, PTL DEF Spec

-----------------------------------------------------------------------------
\* The scope: what a pass leaves, and which steps there are.

Lock == <<TenantLocked, BrandLocked, LockedTenant, LockedBrand>>

LEMMA LockLevels == BrandLocked => TenantLocked
  BY DEF BrandLocked, TenantLocked

LEMMA SnapshotFacts ==
    /\ Rendered.tenant = activeTenant /\ Rendered.brand = activeBrand /\ Rendered.lock = Lock
    /\ Rendered.tenants = TenantList /\ Rendered.brands = BrandList
    /\ Lock[1] = TenantLocked /\ Lock[2] = BrandLocked
    /\ Lock[3] = LockedTenant /\ Lock[4] = LockedBrand
  BY DEF Rendered, Lock

LEMMA ChangedFacts ==
    /\ ran = None => \A parts : Changed(parts)
    /\ \A parts : ~Changed(parts) => ran # None /\ \A part \in parts : ran[part] = Rendered[part]
  BY DEF Changed

LEMMA LockKept ==
    ASSUME who' = who
    PROVE  Lock' = Lock /\ TenantLocked' = TenantLocked /\ BrandLocked' = BrandLocked
           /\ LockedTenant' = LockedTenant /\ LockedBrand' = LockedBrand
  BY DEF Lock, TenantLocked, BrandLocked, LockedTenant, LockedBrand, Level

\* Only a signed-in account has the page open, and only the page a dialog.
PageOfSession == (onPage => who # None) /\ (dialog # None => onPage)

\* A pick of a tenant or brand, in the header or in the dialog.
Picked ==
  /\ Move /\ who # None
  /\ UNCHANGED <<who, stored, queries, ran, serverScope>>
  /\ IF TenantLocked THEN UNCHANGED activeTenant
     ELSE activeTenant' \in ran.tenants \cup {None, activeTenant}
  /\ IF BrandLocked THEN UNCHANGED activeBrand
     ELSE activeBrand' \in ran.brands \cup {None, activeBrand}

LEMMA Picks ==
    ASSUME PageOfSession, PickScope \/ PickTenant \/ PickBrand
    PROVE  Picked
  <1>1. CASE PickScope
    BY <1>1, LockLevels DEF PickScope, SetActiveTenantId, SetActiveBrandId, ScopeLocked, Picked
  <1>2. CASE PickTenant
    BY <1>2, LockLevels DEF PickTenant, Creating, InDialog, PageOfSession, Picked
  <1>3. CASE PickBrand
    BY <1>3 DEF PickBrand, SetActiveBrandId, Creating, InDialog, PageOfSession, Picked
  <1>4. QED BY <1>1, <1>2, <1>3

LEMMA ScopeSteps ==
    ASSUME PageOfSession, [Next]_vars
    PROVE  UNCHANGED scopeVars \/ Pass \/ ScopeNext \/ SignOut \/ Load \/ Picked
  <1>1. CASE Effects
    BY <1>1 DEF Effects
  <1>2. CASE OpenPage \/ CancelDialog \/ HandleTemplateChange \/ TypeIn \/ Submit
    BY <1>2 DEF OpenPage, CancelDialog, HandleTemplateChange, TypeIn, Submit
  <1>3. CASE HandleCreate \/ HandleEdit \/ \E template \in OperatingParamTemplates : UseTemplate(template)
    BY <1>3 DEF HandleCreate, HandleEdit, UseTemplate, Open
  <1>4. CASE PickScope \/ PickTenant \/ PickBrand
    BY <1>4, Picks
  <1>5. QED BY <1>1, <1>2, <1>3, <1>4 DEF Next, vars

LEMMA NextPage ==
    ASSUME PageOfSession, [Next]_vars
    PROVE  PageOfSession'
  <1>1. CASE UNCHANGED <<who, formVars>>
    BY <1>1 DEF PageOfSession, formVars
  <1>2. CASE Effects
    <2>1. who' = who
      BY <1>2 DEF Effects, Pass, scopeVars
    <2>2. UNCHANGED <<onPage, dialog>>
      BY <1>2 DEF Effects, FormEffect, formVars
    <2>3. QED BY <2>1, <2>2 DEF PageOfSession
  <1>3. CASE ClosePage
    BY <1>3 DEF ClosePage, PageOfSession
  <1>4. CASE ScopeNext /\ UNCHANGED formVars
    <2>1. CASE \E u \in Users : SignIn(u)
      BY <1>4, <2>1 DEF SignIn, formVars, PageOfSession
    <2>2. CASE ~\E u \in Users : SignIn(u)
      BY <1>1, <1>4, <2>2 DEF ScopeNext, TenantsAnswered, TenantsFailed, BrandsAnswered, BrandsFailed,
                              Focus, Deleted
    <2>3. QED BY <2>1, <2>2
  <1>5. CASE OpenPage \/ CancelDialog \/ HandleTemplateChange \/ TypeIn \/ Submit
    BY <1>5 DEF OpenPage, CancelDialog, HandleTemplateChange, TypeIn, Submit, scopeVars, PageOfSession
  <1>6. CASE HandleCreate \/ HandleEdit \/ \E template \in OperatingParamTemplates : UseTemplate(template)
    BY <1>6 DEF HandleCreate, HandleEdit, UseTemplate, Open, scopeVars, PageOfSession
  <1>7. CASE PickTenant \/ PickBrand
    <2>1. UNCHANGED <<who, onPage, dialog>>
      BY <1>7 DEF PickTenant, PickBrand
    <2>2. QED BY <2>1 DEF PageOfSession
  <1>8. CASE PickScope /\ UNCHANGED formVars
    BY <1>1, <1>8 DEF PickScope
  <1>9. CASE UNCHANGED vars
    BY <1>1, <1>9 DEF vars, scopeVars
  <1>10. CASE Next
    <2>1. \/ Effects \/ ClosePage \/ (ScopeNext /\ UNCHANGED formVars)
          \/ (PickScope /\ UNCHANGED formVars) \/ OpenPage \/ HandleCreate \/ HandleEdit
          \/ (\E template \in OperatingParamTemplates : UseTemplate(template))
          \/ CancelDialog \/ HandleTemplateChange \/ TypeIn \/ Submit \/ PickTenant \/ PickBrand
      BY <1>10 DEF Next
    <2>2. QED BY <2>1, <1>2, <1>3, <1>4, <1>5, <1>6, <1>7, <1>8
  <1>11. QED BY <1>9, <1>10

-----------------------------------------------------------------------------
\* Types.

HasRun == ran # None \/ who # None

ScopeTyped ==
  /\ ScopeTypeOK
  /\ brandCache \in [BrandKeys -> {None} \cup SUBSET Brands]
  /\ serverTenants \subseteq Tenants /\ serverBrands \subseteq Brands
  /\ HasRun => ran.tenants \subseteq Tenants /\ ran.brands \subseteq Brands

LEMMA ListsTyped ==
    ASSUME ScopeTyped
    PROVE  /\ LockedTenant \in Tenants \cup {None} /\ LockedBrand \in Brands \cup {None}
           /\ TenantList \subseteq Tenants /\ BrandList \subseteq Brands
  <1>1. LockedTenant \in Tenants \cup {None} /\ LockedBrand \in Brands \cup {None}
    BY ScopeConstants DEF ScopeTyped, ScopeTypeOK, LockedTenant, LockedBrand
  <1>2. TenantList \subseteq Tenants
    BY <1>1 DEF ScopeTyped, ScopeTypeOK, TenantList, Held
  <1>3. Held(brandCache[activeTenant]) \subseteq Brands
    BY DEF ScopeTyped, ScopeTypeOK, BrandKeys, Held
  <1>4. QED BY <1>1, <1>2, <1>3 DEF BrandList

LEMMA SentTyped ==
    ASSUME ScopeTyped, NEW fetch \in Users \cup {None}, NEW wanted
    PROVE  Sent(fetch, wanted) \in Users \cup {None}
  BY DEF Sent, ScopeTyped, ScopeTypeOK

LEMMA MoveTyped ==
    ASSUME moves \in 0..MaxMoves, Move
    PROVE  moves' \in 0..MaxMoves
  BY ScopeConstants DEF Move

LEMMA PassTyped ==
    ASSUME ScopeTyped, Pass
    PROVE  ScopeTyped'
  <1>1. /\ UNCHANGED <<who, tenantCache, brandCache, serverTenants, serverBrands, moves>>
        /\ ran'.tenants = TenantList /\ ran'.brands = BrandList
    BY SnapshotFacts DEF Pass, serverScope
  <1>2. activeTenant' \in Tenants \cup {None} /\ activeBrand' \in Brands \cup {None}
    BY ListsTyped DEF Pass, CorrectScope, ScopeTyped, ScopeTypeOK
  <1>3. storedTenant' \in Tenants \cup {None} /\ storedBrand' \in Brands \cup {None}
    BY DEF Pass, PersistScope, ScopeTyped, ScopeTypeOK
  <1>4. tenantFetch' \in Users \cup {None} /\ brandFetch' \in [BrandKeys -> Users \cup {None}]
    BY SentTyped DEF Pass, FetchObserved, ScopeTyped, ScopeTypeOK, BrandKeys
  <1>5. QED BY <1>1, <1>2, <1>3, <1>4, ListsTyped DEF ScopeTyped, ScopeTypeOK

LEMMA ScopeNextTyped ==
    ASSUME ScopeTyped, ScopeNext
    PROVE  ScopeTyped'
  <1>1. CASE TenantsAnswered \/ TenantsFailed
    BY <1>1 DEF TenantsAnswered, TenantsFailed, active, stored, serverScope,
                ScopeTyped, ScopeTypeOK, HasRun
  <1>2. ASSUME NEW key \in BrandKeys, BrandsAnswered(key) PROVE ScopeTyped'
    <2>1. \A u : Listed(u) \subseteq Brands
      BY DEF Listed, ScopeTyped
    <2>2. brandCache' \in [BrandKeys -> {None} \cup SUBSET Brands]
      BY <1>2, <2>1 DEF BrandsAnswered, ScopeTyped
    <2>3. brandFetch' \in [BrandKeys -> Users \cup {None}]
      BY <1>2 DEF BrandsAnswered, ScopeTyped, ScopeTypeOK
    <2>4. \A k \in BrandKeys : brandCache'[k] = None \/ brandCache'[k] \subseteq Brands
      BY <2>2
    <2>5. QED
      BY <1>2, <2>2, <2>3, <2>4 DEF BrandsAnswered, active, stored, serverScope,
                                    ScopeTyped, ScopeTypeOK, HasRun
  <1>3. ASSUME NEW key \in BrandKeys, BrandsFailed(key) PROVE ScopeTyped'
    BY <1>3 DEF BrandsFailed, active, stored, serverScope, ScopeTyped, ScopeTypeOK, HasRun
  <1>4. CASE Focus
    <2>1. moves' \in 0..MaxMoves
      BY <1>4, MoveTyped DEF Focus, ScopeTyped, ScopeTypeOK
    <2>2. tenantFetch' \in Users \cup {None} /\ brandFetch' \in [BrandKeys -> Users \cup {None}]
      BY <1>4, SentTyped DEF Focus, ScopeTyped, ScopeTypeOK, BrandKeys
    <2>3. QED
      BY <1>4, <2>1, <2>2 DEF Focus, active, stored, serverScope, ScopeTyped, ScopeTypeOK, HasRun
  <1>5. CASE Deleted
    <2>1. moves' \in 0..MaxMoves
      BY <1>5, MoveTyped DEF Deleted, ScopeTyped, ScopeTypeOK
    <2>2. serverTenants' \subseteq Tenants /\ serverBrands' \subseteq Brands
      BY <1>5 DEF Deleted, ScopeTyped
    <2>3. QED
      BY <1>5, <2>1, <2>2 DEF Deleted, active, stored, queries, ScopeTyped, ScopeTypeOK, HasRun
  <1>6. ASSUME NEW u \in Users, SignIn(u) PROVE ScopeTyped'
    <2>1. moves' \in 0..MaxMoves
      BY <1>6, MoveTyped DEF SignIn, ScopeTyped, ScopeTypeOK
    <2>2. ran # None
      BY <1>6, ChangedFacts DEF SignIn
    <2>3. QED
      BY <1>6, <2>1, <2>2 DEF SignIn, active, stored, queries, serverScope, ScopeTyped, ScopeTypeOK, HasRun
  <1>7. QED BY <1>1, <1>2, <1>3, <1>4, <1>5, <1>6 DEF ScopeNext

LEMMA NextTyped ==
    ASSUME ScopeTyped, PageOfSession, [Next]_vars
    PROVE  ScopeTyped'
  <1>1. CASE UNCHANGED scopeVars
    BY <1>1 DEF scopeVars, active, stored, queries, serverScope, ScopeTyped, ScopeTypeOK, HasRun
  <1>2. CASE Picked
    <2>1. moves' \in 0..MaxMoves
      BY <1>2, MoveTyped DEF Picked, ScopeTyped, ScopeTypeOK
    <2>2. activeTenant' \in Tenants \cup {None} /\ activeBrand' \in Brands \cup {None}
      BY <1>2 DEF Picked, ScopeTyped, ScopeTypeOK, HasRun
    <2>3. QED
      BY <1>2, <2>1, <2>2 DEF Picked, stored, queries, serverScope, ScopeTyped, ScopeTypeOK, HasRun
  <1>3. CASE SignOut
    <2>1. moves' \in 0..MaxMoves
      BY <1>3, MoveTyped DEF SignOut, ScopeTyped, ScopeTypeOK
    <2>2. QED
      BY <1>3, <2>1 DEF SignOut, active, stored, queries, serverScope, ScopeTyped, ScopeTypeOK, HasRun
  <1>4. CASE Load
    <2>1. moves' \in 0..MaxMoves
      BY <1>4, MoveTyped DEF Load, ScopeTyped, ScopeTypeOK
    <2>2. QED
      BY <1>4, <2>1 DEF Load, stored, serverScope, ScopeTyped, ScopeTypeOK, HasRun
  <1>5. QED BY <1>1, <1>2, <1>3, <1>4, ScopeSteps, PassTyped, ScopeNextTyped

LEMMA InitTyped == Init => ScopeTyped /\ PageOfSession
  BY ScopeConstants DEF Init, ScopeInit, ScopeTyped, ScopeTypeOK, HasRun, PageOfSession

\* The scope is well typed.  (PlatformScopeProvider)
THEOREM ScopeTypeCorrect == Spec => []ScopeTypeOK
  <1>1. Init => ScopeTyped /\ PageOfSession
    BY InitTyped
  <1>2. ScopeTyped /\ PageOfSession /\ [Next]_vars => (ScopeTyped /\ PageOfSession)'
    BY NextTyped, NextPage
  <1>3. ScopeTyped => ScopeTypeOK
    BY DEF ScopeTyped
  <1>4. QED BY <1>1, <1>2, <1>3, PTL DEF Spec

-----------------------------------------------------------------------------
\* What is stored.

\* The storage is always what the last pass made of the scope it rendered.
RanStored ==
  ran # None =>
    /\ storedTenant = IF ran.lock[1] THEN None ELSE ran.tenant
    /\ storedBrand = IF ran.lock[2] THEN None ELSE ran.brand

LEMMA PassStored ==
    ASSUME RanStored, Pass
    PROVE  RanStored'
  <1> USE ChangedFacts, SnapshotFacts
  <1>1. ran' = Rendered
    BY DEF Pass
  <1>2. CASE TenantLocked
    <2>1. storedTenant' = None
      <3>1. CASE Applies
        BY <3>1 DEF Pass, PersistScope
      <3>2. CASE ~Applies
        <4>1. ran # None /\ ran.lock = Lock
          BY <1>2, <3>2 DEF Applies, ScopeLocked
        <4>2. QED BY <1>2, <3>2, <4>1 DEF RanStored, Pass, PersistScope
      <3>3. QED BY <3>1, <3>2
    <2>2. storedBrand' = IF BrandLocked THEN None ELSE activeBrand
      <3>1. CASE Applies /\ BrandLocked
        BY <3>1 DEF Pass, PersistScope
      <3>2. CASE ~Applies /\ BrandLocked
        <4>1. ran # None /\ ran.lock = Lock
          BY <1>2, <3>2 DEF Applies, ScopeLocked
        <4>2. QED BY <3>2, <4>1 DEF RanStored, Pass, PersistScope
      <3>3. CASE ~BrandLocked
        BY <3>3 DEF RanStored, Pass, PersistScope
      <3>4. QED BY <3>1, <3>2, <3>3
    <2>3. QED BY <1>1, <1>2, <2>1, <2>2 DEF RanStored
  <1>3. CASE ~TenantLocked
    <2>1. ~BrandLocked /\ ~Applies
      BY <1>3, LockLevels DEF Applies, ScopeLocked
    <2>2. storedTenant' = activeTenant /\ storedBrand' = activeBrand
      BY <1>3, <2>1 DEF RanStored, Pass, PersistScope
    <2>3. QED BY <1>1, <1>3, <2>1, <2>2 DEF RanStored
  <1>4. QED BY <1>2, <1>3

LEMMA NextStored ==
    ASSUME RanStored, PageOfSession, [Next]_vars
    PROVE  RanStored'
  <1>1. CASE UNCHANGED <<stored, ran>>
    BY <1>1 DEF stored, RanStored
  <1>2. CASE UNCHANGED scopeVars \/ ScopeNext \/ SignOut \/ Picked
    BY <1>1, <1>2 DEF scopeVars, ScopeNext, TenantsAnswered, TenantsFailed, BrandsAnswered, BrandsFailed,
                      Focus, Deleted, SignIn, SignOut, Picked
  <1>3. CASE Load
    BY <1>3 DEF Load, RanStored
  <1>4. QED BY <1>2, <1>3, ScopeSteps, PassStored

\* Once the effects have settled, the storage holds the scope an account has
\* chosen and nothing of a locked one.  (PlatformScopeProvider, persistence)
THEOREM StoredFollowsCorrect == Spec => []StoredFollows
  <1>1. Init => RanStored /\ PageOfSession
    BY InitTyped DEF Init, ScopeInit, RanStored
  <1>2. RanStored /\ PageOfSession /\ [Next]_vars => (RanStored /\ PageOfSession)'
    BY NextStored, NextPage
  <1>3. RanStored => StoredFollows
    BY SnapshotFacts DEF RanStored, StoredFollows, Settled
  <1>4. QED BY <1>1, <1>2, <1>3, PTL DEF Spec

-----------------------------------------------------------------------------
\* The scope an account works in.

\* Since the last pass, an account whose lock it has seen works in that lock.
LockApplied ==
  ran.lock = Lock /\ TenantLocked =>
    activeTenant = LockedTenant /\ (BrandLocked => activeBrand = LockedBrand)

\* A tenant or brand that the last pass has rendered and left in place was in
\* its list; and what is picked afterwards is from that list.
RanTenant ==
  HasRun /\ ~ran.lock[1] /\ activeTenant = ran.tenant => activeTenant \in ran.tenants \cup {None}
RanBrand ==
  HasRun /\ ~ran.lock[2] /\ activeBrand = ran.brand => activeBrand \in ran.brands \cup {None}

\* The brands held for a tenant are its own.
CacheOwned ==
  \A key \in BrandKeys : brandCache[key] # None =>
    \A b \in brandCache[key] : key \in {None, Owner[b]}

ScopeHeld == LockApplied /\ RanTenant /\ RanBrand /\ CacheOwned

LEMMA PassHeld ==
    ASSUME ScopeHeld, Pass
    PROVE  ScopeHeld'
  <1> USE ChangedFacts, SnapshotFacts
  <1>1. ran' = Rendered /\ who' = who /\ brandCache' = brandCache
    BY DEF Pass
  <1>2. LockApplied'
    <2>1. SUFFICES ASSUME TenantLocked
                   PROVE  activeTenant' = LockedTenant /\ (BrandLocked => activeBrand' = LockedBrand)
      BY <1>1, LockKept DEF LockApplied
    <2>2. ~TenantGone /\ (BrandLocked => ~BrandGone)
      BY <2>1 DEF TenantGone, BrandGone
    <2>3. CASE Applies
      BY <2>2, <2>3 DEF Pass, CorrectScope
    <2>4. CASE ~Applies
      <3>1. ran # None /\ ran.lock = Lock
        BY <2>1, <2>4 DEF Applies, ScopeLocked
      <3>2. QED BY <2>1, <2>2, <2>4, <3>1 DEF ScopeHeld, LockApplied, Pass, CorrectScope
    <2>5. QED BY <2>3, <2>4
  <1>3. RanTenant'
    <2>1. SUFFICES ASSUME ~TenantLocked, activeTenant' = activeTenant
                   PROVE  activeTenant \in TenantList \cup {None}
      BY <1>1 DEF RanTenant
    <2>2. ~Applies
      BY <2>1, LockLevels DEF Applies, ScopeLocked
    <2>3. CASE TenantGone
      BY <2>1, <2>2, <2>3 DEF Pass, CorrectScope
    <2>4. CASE ~TenantGone
      <3>1. CASE Changed({"tenant", "tenants", "lock"})
        BY <2>1, <2>4, <3>1 DEF TenantGone
      <3>2. CASE ~Changed({"tenant", "tenants", "lock"})
        <4>1. ran # None /\ ran.tenant = activeTenant /\ ran.tenants = TenantList /\ ran.lock = Lock
          BY <3>2
        <4>2. QED BY <2>1, <4>1 DEF ScopeHeld, RanTenant, HasRun
      <3>3. QED BY <3>1, <3>2
    <2>5. QED BY <2>3, <2>4
  <1>4. RanBrand'
    <2>1. SUFFICES ASSUME ~BrandLocked, activeBrand' = activeBrand
                   PROVE  activeBrand \in BrandList \cup {None}
      BY <1>1 DEF RanBrand
    <2>2. CASE TenantGone \/ BrandGone
      BY <2>1, <2>2 DEF Pass, CorrectScope
    <2>3. CASE ~TenantGone /\ ~BrandGone
      <3>1. CASE Changed({"brand", "brands", "lock"})
        BY <2>1, <2>3, <3>1 DEF BrandGone
      <3>2. CASE ~Changed({"brand", "brands", "lock"})
        <4>1. ran # None /\ ran.brand = activeBrand /\ ran.brands = BrandList /\ ran.lock = Lock
          BY <3>2
        <4>2. QED BY <2>1, <4>1 DEF ScopeHeld, RanBrand, HasRun
      <3>3. QED BY <3>1, <3>2
    <2>4. QED BY <2>2, <2>3
  <1>5. CacheOwned'
    BY <1>1 DEF ScopeHeld, CacheOwned
  <1>6. QED BY <1>2, <1>3, <1>4, <1>5 DEF ScopeHeld

LEMMA PickedHeld ==
    ASSUME ScopeHeld, Picked
    PROVE  ScopeHeld'
  <1>1. UNCHANGED <<who, ran, brandCache>>
    BY DEF Picked, queries
  <1>2. LockApplied'
    BY <1>1, LockKept DEF Picked, ScopeHeld, LockApplied
  <1>3. RanTenant'
    BY <1>1 DEF Picked, ScopeHeld, RanTenant, HasRun
  <1>4. RanBrand'
    BY <1>1 DEF Picked, ScopeHeld, RanBrand, HasRun
  <1>5. CacheOwned'
    BY <1>1 DEF ScopeHeld, CacheOwned
  <1>6. QED BY <1>2, <1>3, <1>4, <1>5 DEF ScopeHeld

LEMMA CachesHeld ==
    ASSUME ScopeHeld, UNCHANGED <<who, active, ran>>, CacheOwned'
    PROVE  ScopeHeld'
  <1>1. LockApplied'
    BY LockKept DEF ScopeHeld, LockApplied, active
  <1>2. RanTenant' /\ RanBrand'
    BY DEF ScopeHeld, RanTenant, RanBrand, HasRun, active
  <1>3. QED BY <1>1, <1>2 DEF ScopeHeld

LEMMA AnswersOwned ==
    ASSUME CacheOwned, ScopeTyped, NEW key \in BrandKeys, BrandsAnswered(key)
    PROVE  CacheOwned'
  <1> DEFINE answer == {b \in Listed(brandFetch[key]) : key \in {None, Owner[b]}}
  <1>1. brandCache' = [brandCache EXCEPT ![key] = answer]
    BY DEF BrandsAnswered
  <1>2. \A k \in BrandKeys : brandCache'[k] = IF k = key THEN answer ELSE brandCache[k]
    BY <1>1 DEF ScopeTyped
  <1>3. QED BY <1>2 DEF CacheOwned

LEMMA SessionsHeld ==
    ASSUME ScopeHeld, NEW u, who' = u, UNCHANGED <<active, queries, ran>>,
           HasRun' => HasRun, u # None => ran # None /\ ran.lock = Lock /\ ~TenantLocked
    PROVE  ScopeHeld'
  <1>1. CacheOwned'
    BY DEF ScopeHeld, CacheOwned, queries
  <1>2. RanTenant' /\ RanBrand'
    BY DEF ScopeHeld, RanTenant, RanBrand, active
  <1>3. LockApplied'
    <2>1. CASE u = None
      <3>1. ~TenantLocked'
        BY <2>1 DEF TenantLocked, Level
      <3>2. QED BY <3>1 DEF LockApplied
    <2>2. CASE u # None
      <3>1. ran' = ran /\ ran.lock[1] = FALSE
        BY <2>2, SnapshotFacts
      <3>2. ran'.lock = Lock' => ~TenantLocked'
        BY <3>1 DEF Lock
      <3>3. QED BY <3>2 DEF LockApplied
    <2>3. QED BY <2>1, <2>2
  <1>4. QED BY <1>1, <1>2, <1>3 DEF ScopeHeld

LEMMA NextHeld ==
    ASSUME ScopeHeld, ScopeTyped, PageOfSession, [Next]_vars
    PROVE  ScopeHeld'
  <1>1. CASE UNCHANGED <<who, active, ran, brandCache>>
    BY <1>1, CachesHeld DEF ScopeHeld, CacheOwned
  <1>2. CASE UNCHANGED scopeVars \/ TenantsAnswered \/ TenantsFailed \/ Focus \/ Deleted
    BY <1>1, <1>2 DEF scopeVars, queries, TenantsAnswered, TenantsFailed, Focus, Deleted
  <1>3. ASSUME NEW key \in BrandKeys, BrandsFailed(key) PROVE ScopeHeld'
    BY <1>1, <1>3 DEF BrandsFailed
  <1>4. ASSUME NEW key \in BrandKeys, BrandsAnswered(key) PROVE ScopeHeld'
    BY <1>4, CachesHeld, AnswersOwned DEF BrandsAnswered, ScopeHeld
  <1>5. ASSUME NEW u \in Users, SignIn(u) PROVE ScopeHeld'
    <2>1. ran # None /\ ran.lock = Lock /\ ~TenantLocked
      BY <1>5, ChangedFacts, SnapshotFacts DEF SignIn, TenantLocked, Level
    <2>2. QED BY <1>5, <2>1, SessionsHeld DEF SignIn, HasRun
  <1>6. CASE SignOut
    BY <1>6, SessionsHeld DEF SignOut, HasRun
  <1>7. CASE Load
    <2>1. ~TenantLocked'
      BY <1>7 DEF Load, TenantLocked, Level
    <2>2. QED BY <1>7, <2>1 DEF Load, ScopeHeld, LockApplied, RanTenant, RanBrand, CacheOwned, HasRun
  <1>8. QED
    BY <1>2, <1>3, <1>4, <1>5, <1>6, <1>7, ScopeSteps, PassHeld, PickedHeld DEF ScopeNext

LEMMA InitHeld == Init => ScopeHeld
  <1>1. Init => ~TenantLocked
    BY DEF Init, ScopeInit, TenantLocked, Level
  <1>2. QED
    BY <1>1 DEF Init, ScopeInit, ScopeHeld, LockApplied, RanTenant, RanBrand, CacheOwned, HasRun

LEMMA HeldIsValid ==
    ASSUME ScopeTyped, ScopeHeld
    PROVE  ScopeValid
  <1>1. SUFFICES ASSUME Settled, who # None
                 PROVE  /\ TenantLocked => activeTenant = LockedTenant
                        /\ BrandLocked => activeBrand = LockedBrand
                        /\ ~TenantLocked => activeTenant \in TenantList \cup {None}
                        /\ activeTenant # None /\ activeBrand # None
                              => Owner[activeBrand] = activeTenant
    BY DEF ScopeValid
  <1>2. /\ ran # None /\ ran.tenant = activeTenant /\ ran.brand = activeBrand /\ ran.lock = Lock
        /\ ran.tenants = TenantList /\ ran.brands = BrandList
        /\ ran.lock[1] = TenantLocked /\ ran.lock[2] = BrandLocked
    BY <1>1, SnapshotFacts DEF Settled
  <1>3. TenantLocked => activeTenant = LockedTenant /\ (BrandLocked => activeBrand = LockedBrand)
    BY <1>2 DEF ScopeHeld, LockApplied
  <1>4. ~TenantLocked => activeTenant \in TenantList \cup {None}
    BY <1>2 DEF ScopeHeld, RanTenant, HasRun
  <1>5. ASSUME activeTenant # None, activeBrand # None PROVE Owner[activeBrand] = activeTenant
    <2>1. CASE BrandLocked
      <3>1. activeTenant = who.tenant /\ activeBrand = who.brand
        BY <1>1, <1>3, <2>1, LockLevels DEF LockedTenant, LockedBrand
      <3>2. who \in Users
        BY <1>1 DEF ScopeTyped, ScopeTypeOK
      <3>3. QED BY <1>5, <3>1, <3>2, ScopeConstants
    <2>2. CASE ~BrandLocked
      <3>1. activeBrand \in Held(brandCache[activeTenant])
        BY <1>2, <1>5, <2>2 DEF ScopeHeld, RanBrand, HasRun, BrandList
      <3>2. activeTenant \in BrandKeys
        BY DEF ScopeTyped, ScopeTypeOK, BrandKeys
      <3>3. QED BY <1>5, <3>1, <3>2 DEF Held, ScopeHeld, CacheOwned
    <2>3. QED BY <2>1, <2>2
  <1>6. QED BY <1>3, <1>4, <1>5, LockLevels

\* However sign-ins, picks, answers and deletions fall between its passes, the
\* settled scope is valid for the account.  (PlatformScopeProvider)
THEOREM ScopeCorrect == Spec => []ScopeValid
  <1> DEFINE Inv == ScopeTyped /\ ScopeHeld /\ PageOfSession
  <1>1. Init => Inv
    BY InitTyped, InitHeld
  <1>2. Inv /\ [Next]_vars => Inv'
    BY NextTyped, NextHeld, NextPage
  <1>3. Inv => ScopeValid
    BY HeldIsValid
  <1>4. QED BY <1>1, <1>2, <1>3, PTL DEF Spec

-----------------------------------------------------------------------------
\* The form of the dialog.

\* An account that is locked has been offered its own tenant and brand only.
RanLists ==
  HasRun => /\ ran.lock[1] => ran.tenants \subseteq {ran.lock[3]}
            /\ ran.lock[2] => ran.brands \subseteq {ran.lock[4]}

\* The page's first effect came with a pass, so its lists are those of the
\* account; the account does not change while the page is open.
LockSeen == IF onPage THEN formRan # None => ran.lock = Lock ELSE formRan = None

\* The settled form of a new config holds the scope, or less; that of an old
\* one holds its config.
CreateFilled ==
  dialog = Create /\ FormSettled =>
    form.tenant \in {None, activeTenant} /\ form.brand \in {None, activeBrand}
EditFilled ==
  dialog \notin {None, Create} /\ FormSettled =>
    form.tenant = dialog.tenant /\ form.brand = dialog.brand

Owned(row) == row.tenant # None /\ row.brand # None => Owner[row.brand] = row.tenant
RowsOwned ==
  /\ \A row \in configs : Owned(row)
  /\ dialog \notin {None, Create} => Owned(dialog)

FormShape == {"tenant", "brand", "key", "text"} \subseteq DOMAIN form

LEMMA NextLists ==
    ASSUME RanLists, PageOfSession, [Next]_vars
    PROVE  RanLists'
  <1>1. CASE UNCHANGED ran /\ (HasRun' => HasRun)
    BY <1>1 DEF RanLists
  <1>2. CASE Pass
    <2>1. /\ ran'.lock = Lock /\ ran'.tenants = TenantList /\ ran'.brands = BrandList
      BY <1>2, SnapshotFacts DEF Pass
    <2>2. TenantLocked => TenantList \subseteq {LockedTenant}
      BY DEF TenantList
    <2>3. BrandLocked => BrandList \subseteq {LockedBrand}
      BY DEF BrandList
    <2>4. QED BY <2>1, <2>2, <2>3, SnapshotFacts DEF RanLists
  <1>3. ASSUME NEW u \in Users, SignIn(u) PROVE RanLists'
    BY <1>1, <1>3, ChangedFacts DEF SignIn, HasRun
  <1>4. CASE Load
    BY <1>4 DEF Load, RanLists, HasRun
  <1>5. CASE UNCHANGED scopeVars \/ SignOut \/ Picked
    BY <1>1, <1>5 DEF scopeVars, SignOut, Picked, HasRun
  <1>6. CASE ScopeNext /\ ~\E u \in Users : SignIn(u)
    BY <1>1, <1>6 DEF ScopeNext, TenantsAnswered, TenantsFailed, BrandsAnswered, BrandsFailed,
                      Focus, Deleted, HasRun
  <1>7. QED BY <1>2, <1>3, <1>4, <1>5, <1>6, ScopeSteps DEF ScopeNext

\* How the steps of the page fall apart.
LEMMA PageSteps ==
    ASSUME [Next]_vars
    PROVE  \/ UNCHANGED vars
           \/ Effects
           \/ ScopeNext /\ UNCHANGED <<formVars, configs>>
           \/ dialog = None /\ PickScope /\ UNCHANGED <<formVars, configs>>
           \/ ClosePage /\ UNCHANGED configs
           \/ OpenPage
           \/ (\E target \in configs \cup {Create} : Open(target) /\ DOMAIN form' = DOMAIN form)
           \/ CancelDialog \/ HandleTemplateChange \/ TypeIn \/ Submit
           \/ PickTenant \/ PickBrand
  <1>1. HandleCreate \/ HandleEdit =>
          \E target \in configs \cup {Create} : Open(target) /\ DOMAIN form' = DOMAIN form
    BY DEF HandleCreate, HandleEdit, ListedConfigs
  <1>2. ASSUME NEW template \in OperatingParamTemplates, UseTemplate(template)
        PROVE  \E target \in configs \cup {Create} : Open(target) /\ DOMAIN form' = DOMAIN form
    <2>1. DOMAIN [Filled(template) EXCEPT !.tenant = activeTenant, !.brand = activeBrand] = DOMAIN form
      BY DEF Filled
    <2>2. QED BY <1>2, <2>1 DEF UseTemplate, ListedConfigs
  <1>3. QED BY <1>1, <1>2 DEF Next

LEMMA EffectsFacts ==
    ASSUME Effects
    PROVE  /\ UNCHANGED <<who, onPage, dialog, configs>>
           /\ Settled \/ Pass
           /\ ~Pass => UNCHANGED scopeVars
           /\ (FormSettled /\ UNCHANGED formVars) \/ (~FormSettled /\ FormEffect)
  BY DEF Effects, Pass, FormEffect, formVars, scopeVars

LEMMA NextLockSeen ==
    ASSUME LockSeen, PageOfSession, [Next]_vars
    PROVE  LockSeen'
  <1>1. CASE UNCHANGED <<who, ran, onPage, formRan>>
    BY <1>1, LockKept DEF LockSeen
  <1>2. CASE Effects
    <2>1. UNCHANGED <<who, onPage>>
      BY <1>2, EffectsFacts
    <2>2. Lock' = Lock
      BY <2>1, LockKept
    <2>3. ran'.lock = Lock
      <3>1. CASE Pass
        BY <3>1, SnapshotFacts DEF Pass
      <3>2. CASE ~Pass
        BY <1>2, <3>2, EffectsFacts, SnapshotFacts DEF Settled, scopeVars
      <3>3. QED BY <3>1, <3>2
    <2>4. ~onPage => formRan' = formRan
      BY <1>2, EffectsFacts DEF FormSettled, formVars
    <2>5. QED BY <2>1, <2>2, <2>3, <2>4 DEF LockSeen
  <1>3. CASE ClosePage
    BY <1>3 DEF ClosePage, LockSeen
  <1>4. CASE OpenPage
    BY <1>4 DEF OpenPage, scopeVars, LockSeen
  <1>5. ASSUME NEW u \in Users, SignIn(u), UNCHANGED formVars PROVE LockSeen'
    <2>1. ~onPage
      BY <1>5 DEF SignIn, PageOfSession
    <2>2. UNCHANGED <<onPage, formRan>>
      BY <1>5 DEF formVars
    <2>3. QED BY <2>1, <2>2 DEF LockSeen
  <1>6. CASE ScopeNext /\ UNCHANGED <<formVars, configs>> /\ ~\E u \in Users : SignIn(u)
    BY <1>1, <1>6 DEF ScopeNext, TenantsAnswered, TenantsFailed, BrandsAnswered, BrandsFailed,
                      Focus, Deleted, formVars
  <1>7. CASE dialog = None /\ PickScope /\ UNCHANGED <<formVars, configs>>
    BY <1>1, <1>7 DEF PickScope, formVars
  <1>8. CASE \E target \in configs \cup {Create} : Open(target)
    BY <1>1, <1>8 DEF Open, scopeVars
  <1>9. CASE CancelDialog \/ HandleTemplateChange \/ TypeIn \/ Submit \/ PickTenant \/ PickBrand
    BY <1>1, <1>9 DEF CancelDialog, HandleTemplateChange, TypeIn, Submit, PickTenant, PickBrand, scopeVars
  <1>10. CASE UNCHANGED vars
    BY <1>1, <1>10 DEF vars, scopeVars, formVars
  <1>11. QED
    BY <1>2, <1>3, <1>4, <1>5, <1>6, <1>7, <1>8, <1>9, <1>10, PageSteps

FormHeld == CreateFilled /\ EditFilled /\ RowsOwned /\ FormShape

LEMMA EffectsForm ==
    ASSUME FormHeld, PageOfSession, Effects
    PROVE  FormHeld'
  <1>1. UNCHANGED <<dialog, onPage, configs>>
    BY EffectsFacts
  <1>2. RowsOwned'
    BY <1>1 DEF FormHeld, RowsOwned, Owned
  <1>3. CASE FormSettled /\ UNCHANGED formVars
    <2>1. UNCHANGED <<form, formRan>>
      BY <1>3 DEF formVars
    <2>2. onPage /\ FormSettled' => UNCHANGED <<activeTenant, activeBrand>>
      BY <1>1, <1>3, <2>1 DEF FormSettled, FormRendered
    <2>3. CreateFilled'
      <3>1. dialog = Create => onPage
        BY CenterConstants DEF PageOfSession
      <3>2. QED BY <1>1, <1>3, <2>1, <2>2, <3>1 DEF FormHeld, CreateFilled
    <2>4. EditFilled' /\ FormShape'
      BY <1>1, <1>3, <2>1 DEF FormHeld, EditFilled, FormShape
    <2>5. QED BY <1>2, <2>3, <2>4 DEF FormHeld
  <1>4. CASE ~FormSettled /\ FormEffect
    <2>1. onPage /\ formRan' = FormRendered
      BY <1>4 DEF FormSettled, FormEffect
    <2>2. FormSettled' => UNCHANGED <<activeTenant, activeBrand>>
      BY <1>1, <2>1 DEF FormSettled, FormRendered
    <2>3. CreateFilled'
      <3>1. SUFFICES ASSUME dialog = Create, FormSettled'
                     PROVE  form'.tenant = activeTenant' /\ form'.brand = activeBrand'
        BY <1>1 DEF CreateFilled
      <3>2. form' = [form EXCEPT !.tenant = activeTenant, !.brand = activeBrand,
                                 !.text = IF @ = None THEN EnabledText ELSE @]
        BY <1>4, <3>1, CenterConstants DEF FormEffect
      <3>3. form'.tenant = activeTenant /\ form'.brand = activeBrand
        BY <3>2 DEF FormHeld, FormShape
      <3>4. QED BY <2>2, <3>1, <3>3
    <2>4. EditFilled'
      BY <1>1, <1>4 DEF FormEffect, EditFilled
    <2>5. FormShape'
      BY <1>4 DEF FormEffect, FormHeld, FormShape
    <2>6. QED BY <1>2, <2>3, <2>4, <2>5 DEF FormHeld
  <1>5. QED BY <1>3, <1>4, EffectsFacts

LEMMA OpenForm ==
    ASSUME FormHeld, NEW target \in configs \cup {Create}, Open(target), DOMAIN form' = DOMAIN form
    PROVE  FormHeld'
  <1>1. /\ onPage /\ formRan # None /\ formRan.dialog = None
        /\ onPage' = onPage /\ formRan' = formRan /\ configs' = configs /\ dialog' = target
    BY DEF Open, FormSettled, FormRendered
  <1>2. FormSettled' => target = None
    BY <1>1 DEF FormSettled, FormRendered
  <1>3. CreateFilled' /\ EditFilled'
    BY <1>1, <1>2, CenterConstants DEF CreateFilled, EditFilled
  <1>4. RowsOwned'
    BY <1>1 DEF FormHeld, RowsOwned, Owned
  <1>5. FormShape'
    BY DEF FormHeld, FormShape
  <1>6. QED BY <1>3, <1>4, <1>5 DEF FormHeld

LEMMA PickForm ==
    ASSUME FormHeld, ScopeHeld, RanLists, LockSeen, PageOfSession, PickTenant \/ PickBrand
    PROVE  FormHeld'
  <1>1. /\ dialog = Create /\ FormSettled /\ onPage /\ HasRun
        /\ UNCHANGED <<who, ran, onPage, dialog, formRan, configs>>
    BY DEF PickTenant, PickBrand, Creating, InDialog, PageOfSession, HasRun
  <1>2. form.tenant \in {None, activeTenant} /\ form.brand \in {None, activeBrand}
    BY <1>1 DEF FormHeld, CreateFilled
  <1>3. ran.lock = Lock
    BY <1>1 DEF LockSeen, FormSettled
  <1>4. TenantLocked => activeTenant = LockedTenant /\ ran.tenants \subseteq {activeTenant}
    BY <1>1, <1>3, SnapshotFacts DEF ScopeHeld, LockApplied, RanLists
  <1>5. BrandLocked => activeBrand = LockedBrand /\ ran.brands \subseteq {activeBrand}
    BY <1>1, <1>3, SnapshotFacts, LockLevels DEF ScopeHeld, LockApplied, RanLists
  <1>6. form'.tenant \in {None, activeTenant'} /\ form'.brand \in {None, activeBrand'} /\ FormShape'
    <2>1. CASE PickTenant
      BY <1>4, <2>1 DEF PickTenant, FormHeld, FormShape
    <2>2. CASE PickBrand
      BY <1>2, <1>5, <2>2 DEF PickBrand, SetActiveBrandId, FormHeld, FormShape
    <2>3. QED BY <2>1, <2>2
  <1>7. QED BY <1>1, <1>6 DEF FormHeld, CreateFilled, EditFilled, RowsOwned, Owned

LEMMA TypedForm ==
    ASSUME FormHeld, HandleTemplateChange \/ TypeIn
    PROVE  FormHeld'
  <1>1. UNCHANGED <<activeTenant, activeBrand, onPage, dialog, formRan, configs>>
    BY DEF HandleTemplateChange, TypeIn, scopeVars, active
  <1>2. FormSettled' <=> FormSettled
    BY <1>1 DEF FormSettled, FormRendered
  <1>3. form'.tenant = form.tenant /\ form'.brand = form.brand /\ DOMAIN form' = DOMAIN form
    BY DEF HandleTemplateChange, TypeIn, Filled, FormHeld, FormShape
  <1>4. QED
    BY <1>1, <1>2, <1>3 DEF FormHeld, CreateFilled, EditFilled, RowsOwned, Owned, FormShape

LEMMA SubmitForm ==
    ASSUME FormHeld, Submit
    PROVE  FormHeld'
  <1>1. Payload.tenant = form.tenant /\ Payload.brand = form.brand
    BY DEF Payload
  <1>2. Owned(Payload)
    <2>1. CASE dialog = Create
      BY <2>1 DEF Submit, Accepted, Owned
    <2>2. CASE dialog # Create
      BY <2>2 DEF Submit, InDialog, Accepted, FormHeld, RowsOwned, Owned
    <2>3. QED BY <2>1, <2>2
  <1>3. configs' \subseteq configs \cup {Payload} /\ dialog' = None /\ form' = EmptyForm
    BY DEF Submit
  <1>4. QED
    BY <1>2, <1>3, CenterConstants
       DEF FormHeld, CreateFilled, EditFilled, RowsOwned, Owned, FormShape, EmptyForm

LEMMA NextForm ==
    ASSUME FormHeld, ScopeHeld, RanLists, LockSeen, PageOfSession, [Next]_vars
    PROVE  FormHeld'
  <1>1. CASE UNCHANGED <<formVars, configs>> /\ (dialog = None \/ UNCHANGED active)
    <2>1. UNCHANGED <<onPage, dialog, form, formRan, configs>>
      BY <1>1 DEF formVars
    <2>2. dialog = None \/ (FormSettled' <=> FormSettled)
      BY <1>1, <2>1 DEF FormSettled, FormRendered, active
    <2>3. QED
      BY <1>1, <2>1, <2>2, CenterConstants
         DEF FormHeld, CreateFilled, EditFilled, RowsOwned, Owned, FormShape, active
  <1>2. CASE ScopeNext /\ UNCHANGED <<formVars, configs>>
    BY <1>1, <1>2 DEF ScopeNext, TenantsAnswered, TenantsFailed, BrandsAnswered, BrandsFailed,
                      Focus, Deleted, SignIn
  <1>3. CASE ClosePage /\ UNCHANGED configs
    BY <1>3, CenterConstants
       DEF ClosePage, EmptyForm, FormHeld, CreateFilled, EditFilled, RowsOwned, Owned, FormShape
  <1>4. CASE OpenPage
    <2>1. UNCHANGED <<activeTenant, activeBrand, dialog, form, formRan, configs>>
      BY <1>4 DEF OpenPage, scopeVars, active
    <2>2. dialog = None
      BY <1>4 DEF OpenPage, PageOfSession
    <2>3. QED
      BY <2>1, <2>2, CenterConstants
         DEF FormHeld, CreateFilled, EditFilled, RowsOwned, Owned, FormShape
  <1>5. CASE CancelDialog
    BY <1>5, CenterConstants
       DEF CancelDialog, FormHeld, CreateFilled, EditFilled, RowsOwned, Owned, FormShape
  <1>6. CASE UNCHANGED vars
    BY <1>1, <1>6 DEF vars, scopeVars
  <1>7. CASE dialog = None /\ PickScope /\ UNCHANGED <<formVars, configs>>
    BY <1>1, <1>7
  <1>8. QED
    BY <1>2, <1>3, <1>4, <1>5, <1>6, <1>7, PageSteps, EffectsForm, OpenForm, PickForm, TypedForm,
       SubmitForm

LEMMA InitForm == Init => RanLists /\ LockSeen /\ FormHeld
  BY CenterConstants
     DEF Init, ScopeInit, EmptyForm, RanLists, HasRun, LockSeen, FormHeld, CreateFilled, EditFilled,
         RowsOwned, Owned, FormShape

LEMMA HeldIsOwned ==
    ASSUME FormHeld, PageOfSession, ScopeValid
    PROVE  FormBrandOfTenant
  <1>1. SUFFICES ASSUME InDialog, Settled, form.tenant # None, form.brand # None
                 PROVE  Owner[form.brand] = form.tenant
    BY DEF FormBrandOfTenant
  <1>2. dialog # None /\ FormSettled /\ who # None
    BY <1>1 DEF InDialog, PageOfSession
  <1>3. CASE dialog = Create
    BY <1>1, <1>2, <1>3 DEF FormHeld, CreateFilled, ScopeValid
  <1>4. CASE dialog # Create
    BY <1>1, <1>2, <1>4 DEF FormHeld, EditFilled, RowsOwned, Owned
  <1>5. QED BY <1>3, <1>4

\* The dialog never offers to save a brand with another tenant than its own,
\* whatever is picked, answered or deleted while it is open.
\* (platform-config-center, the effect and the pickers)
THEOREM FormBrandCorrect == Spec => []FormBrandOfTenant
  <1> DEFINE Inv == /\ ScopeTyped /\ ScopeHeld /\ PageOfSession
                    /\ RanLists /\ LockSeen /\ FormHeld
  <1>1. Init => Inv
    BY InitTyped, InitHeld, InitForm
  <1>2. Inv /\ [Next]_vars => Inv'
    BY NextTyped, NextHeld, NextPage, NextLists, NextLockSeen, NextForm
  <1>3. Inv => FormBrandOfTenant
    BY HeldIsValid, HeldIsOwned
  <1>4. QED BY <1>1, <1>2, <1>3, PTL DEF Spec

=============================================================================
