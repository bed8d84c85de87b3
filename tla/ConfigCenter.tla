---------------------------- MODULE ConfigCenter ----------------------------
(***************************************************************************)
(* The platform config center on top of the scope it works in: its dialog  *)
(* writes the console's scope when a tenant or brand is picked, and an     *)
(* effect writes the scope, however it changed, back into the form.        *)
(* Requests are answered at once here; ConsolePages has them in flight.    *)
(***************************************************************************)
EXTENDS PlatformScope, OperatingParams

CONSTANTS Keys,     \* what may be typed as a key: [name, padded]
          Texts,    \* what may be typed as a value: [parse, object]
          Create,   \* the dialog for a new config
          MaxSaved  \* bound: configs saved

ASSUME CenterConstants ==
  /\ Create # None
  /\ \A text \in Texts :
       text.parse = "object" => \A key \in DOMAIN text.object : text.object[key].tenths \in Int

VARIABLES
  onPage,
  dialog,   \* None, Create or the config being edited
  form,     \* [tenant, brand, key, text]; it survives a cancelled dialog
  formRan,  \* what the form's effect rendered last, or None
  configs   \* the server's rows: [tenant, brand, key, text]

formVars == <<onPage, dialog, form, formRan>>
vars == <<scopeVars, formVars, configs>>

NoKey == [name |-> "", padded |-> FALSE]
JsonObject(object) == [parse |-> "object", object |-> object]
EnabledText == JsonObject([key \in {"enabled"} |-> True])
EmptyForm == [tenant |-> None, brand |-> None, key |-> NoKey, text |-> None]

ClosePage ==
  /\ onPage' = FALSE /\ dialog' = None /\ form' = EmptyForm
  /\ formRan' = None

FormRendered == [dialog |-> dialog, tenant |-> activeTenant, brand |-> activeBrand]
FormSettled == ~onPage \/ (formRan # None /\ formRan = FormRendered)

\* Mutant: a new config takes the tenant of the scope but keeps the form's brand.
FormEffectTenantOnly ==
  /\ formRan' = FormRendered
  /\ form' = IF dialog = None THEN form
             ELSE IF dialog = Create
             THEN [form EXCEPT !.tenant = activeTenant, !.text = IF @ = None THEN EnabledText ELSE @]
             ELSE [tenant |-> dialog.tenant, brand |-> dialog.brand,
                   key |-> [name |-> dialog.key, padded |-> FALSE], text |-> dialog.text]
  /\ UNCHANGED <<onPage, dialog>>

\* The page's effect, on open dialogs only: an edited config fills the form, a
\* new one takes the scope and keeps what the form holds from before.
FormEffect ==
  /\ formRan' = FormRendered
  /\ form' = IF dialog = None THEN form
             ELSE IF dialog = Create
             THEN [form EXCEPT !.tenant = activeTenant, !.brand = activeBrand,
                               !.text = IF @ = None THEN EnabledText ELSE @]
             ELSE [tenant |-> dialog.tenant, brand |-> dialog.brand,
                   key |-> [name |-> dialog.key, padded |-> FALSE], text |-> dialog.text]
  /\ UNCHANGED <<onPage, dialog>>

\* A pass of the page and of the provider above it.
Effects ==
  /\ ~FormSettled \/ ~Settled
  /\ IF FormSettled THEN UNCHANGED formVars ELSE FormEffect
  /\ IF Settled THEN UNCHANGED scopeVars ELSE Pass
  /\ UNCHANGED configs

-----------------------------------------------------------------------------
\* The page.

\* The rows listed for the scope: the server's, by the filters and the scope
\* of the account.
ListedConfigs ==
  {row \in configs : /\ activeTenant \in {None, row.tenant} /\ activeBrand \in {None, row.brand}
                     /\ LockedTenant \in {None, row.tenant}
                     /\ LockedBrand \in {None, row.brand}}

OpenPage ==
  /\ who # None /\ ~onPage
  /\ onPage' = TRUE
  /\ UNCHANGED <<scopeVars, dialog, form, formRan, configs>>

Open(target) ==
  /\ onPage /\ dialog = None /\ FormSettled
  /\ dialog' = target
  /\ UNCHANGED <<scopeVars, onPage, formRan, configs>>

HandleCreate == Open(Create) /\ UNCHANGED form

HandleEdit == \E row \in ListedConfigs : Open(row) /\ UNCHANGED form

\* The card of a template edits the config it found, or starts one.
Filled(template) ==
  [form EXCEPT !.key = [name |-> template.key, padded |-> FALSE],
               !.text = JsonObject(BuildOperatingParamDefaults(template))]

UseTemplate(template) ==
  LET found == {row \in ListedConfigs : row.key = template.key}
  IN  IF found # {} THEN \E row \in found : Open(row) /\ UNCHANGED form
      ELSE /\ Open(Create)
           /\ form' = [Filled(template) EXCEPT !.tenant = activeTenant, !.brand = activeBrand]

\* Clicks in the dialog come after its effect.
InDialog == dialog # None /\ FormSettled
Creating == InDialog /\ dialog = Create

CancelDialog ==
  /\ InDialog
  /\ dialog' = None
  /\ UNCHANGED <<scopeVars, onPage, form, formRan, configs>>

HandleTemplateChange ==
  /\ Creating
  /\ \/ \E template \in OperatingParamTemplates :
          [name |-> template.key, padded |-> FALSE] \in Keys /\ form' = Filled(template)
     \/ form' = [form EXCEPT !.key = NoKey, !.text = EnabledText]
  /\ UNCHANGED <<scopeVars, onPage, dialog, formRan, configs>>

\* A tenant picked, or cleared, moves the scope of the whole console where the
\* account is not locked; a locked one only changes the form.
PickTenant ==
  /\ Creating /\ Move
  /\ \E t \in ran.tenants \cup {None} :
       /\ form' = [form EXCEPT !.tenant = t, !.brand = None]
       /\ activeTenant' = IF TenantLocked THEN activeTenant ELSE t
       /\ activeBrand' = IF ~TenantLocked \/ (t = None /\ ~BrandLocked) THEN None ELSE activeBrand
  /\ UNCHANGED <<who, stored, queries, ran, serverScope, onPage, dialog, formRan, configs>>

\* The options are those of the list last rendered.
PickBrand ==
  /\ Creating /\ Move
  /\ \E b \in ran.brands \cup {None} : form' = [form EXCEPT !.brand = b] /\ SetActiveBrandId(b)
  /\ UNCHANGED <<who, stored, queries, ran, serverScope, onPage, dialog, formRan, configs>>

\* Key and scope are disabled while editing.
TypeIn ==
  /\ InDialog
  /\ \/ \E text \in Texts : form' = [form EXCEPT !.text = text]
     \/ Creating /\ \E key \in Keys : form' = [form EXCEPT !.key = key]
  /\ UNCHANGED <<scopeVars, onPage, dialog, formRan, configs>>

\* Mutant: only the JSON of a template's value is checked.
IssuesOfJson(name, text) ==
  UNION {IF text.parse # "object" THEN {"objectRequired"} ELSE {} :
           template \in FindOperatingTemplate(name)}

Issues(name, text) ==
  UNION {IF text.parse # "object" THEN {"objectRequired"}
         ELSE ValidateOperatingConfig(template, text.object) :
           template \in FindOperatingTemplate(name)}

\* handleSubmit: required fields, JSON, template.  The key is trimmed first.
Submittable ==
  /\ form.key.name # "" /\ form.text # None /\ form.text.parse # "error"
  /\ Issues(form.key.name, form.text) = {}

Payload == [tenant |-> form.tenant, brand |-> form.brand, key |-> form.key.name,
            text |-> form.text]

\* The server refuses a brand of another tenant, a second config of a scope
\* and key, and an edit that would move its row.
Accepted ==
  LET Same(row) == row.tenant = Payload.tenant /\ row.brand = Payload.brand /\ row.key = Payload.key
  IN  IF dialog = Create
      THEN /\ \A row \in configs : ~Same(row)
           /\ Payload.tenant # None /\ Payload.brand # None => Owner[Payload.brand] = Payload.tenant
      ELSE Same(dialog)

\* A refused or failed save leaves the dialog as it is.
Submit ==
  /\ InDialog /\ Submittable /\ Accepted
  /\ Cardinality(configs \ {dialog}) < MaxSaved
  /\ configs' = (configs \ {dialog}) \cup {Payload}
  /\ dialog' = None /\ form' = EmptyForm
  /\ UNCHANGED <<scopeVars, onPage, formRan>>

Init ==
  /\ ScopeInit
  /\ onPage = FALSE /\ dialog = None /\ form = EmptyForm
  /\ formRan = None
  /\ configs = {}

\* An open dialog covers the header and the menu.
Next ==
  \/ Effects
  \/ ScopeNext /\ UNCHANGED <<formVars, configs>>
  \/ dialog = None /\ PickScope /\ UNCHANGED <<formVars, configs>>
  \/ ((dialog = None /\ SignOut) \/ Load) /\ ClosePage /\ UNCHANGED configs
  \/ onPage /\ dialog = None /\ ClosePage /\ UNCHANGED <<scopeVars, configs>>
  \/ OpenPage \/ HandleCreate \/ HandleEdit
  \/ \E template \in OperatingParamTemplates :
       [name |-> template.key, padded |-> FALSE] \in Keys /\ UseTemplate(template)
  \/ CancelDialog \/ HandleTemplateChange \/ TypeIn \/ Submit
  \/ PickTenant \/ PickBrand

Spec == Init /\ [][Next]_vars

-----------------------------------------------------------------------------
\* Properties.

InRange(field, v) ==
  /\ \A bound \in field.min : v.tenths >= bound
  /\ \A bound \in field.max : v.tenths <= bound
  /\ field.type = "integer" => v.tenths % 10 = 0

\* However its key and value were entered - typed with blanks, from a template,
\* by a template changed half-way - a saved config with the key of a template
\* has a number in range for each of its fields (handleSubmit).
SavedTemplateValid ==
  \A row \in configs, template \in OperatingParamTemplates :
    row.key = template.key =>
      /\ row.text.parse = "object"
      /\ \A i \in DOMAIN template.fields :
           LET field == template.fields[i]
           IN  /\ field.key \in DOMAIN row.text.object
               /\ IsNumber(row.text.object[field.key])
               /\ InRange(field, row.text.object[field.key])

\* What the dialog would save for a tenant and a brand is a brand of that
\* tenant, although picking one, the scope, its two queries and the effect
\* that writes the scope back change the two at different moments.
FormBrandOfTenant ==
  InDialog /\ Settled /\ form.tenant # None /\ form.brand # None
    => Owner[form.brand] = form.tenant

=============================================================================
