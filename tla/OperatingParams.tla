--------------------------- MODULE OperatingParams ---------------------------
(***************************************************************************)
(* The operating-parameter templates of the console and what it does with  *)
(* a platform config that has the key of one: defaults and validation      *)
(* before saving.                                                          *)
(*                                                                         *)
(* A JSON value is [type, tenths, numeric]: a number is counted in tenths, *)
(* numeric says whether a string reads as a number.  A JSON object is a    *)
(* function from its field names.                                          *)
(***************************************************************************)
EXTENDS Integers, Sequences

\* A bound is a set of at most one number.
Unbounded == {}

Field(key, type, min, max) == [key |-> key, type |-> type, min |-> min, max |-> max]
Percent(key) == Field(key, "number", {0}, {1000})
Amount(key) == Field(key, "number", {0}, Unbounded)
Whole(key, min, max) == Field(key, "integer", min, max)

Template(key, fields) == [key |-> key, fields |-> fields]

\* Every field is required.  Bounds are in tenths.
OperatingParamTemplates ==
  { Template("growth_targets",
      << Whole("minNewPlayers7d", {0}, Unbounded), Whole("minFirstRechargePlayers7d", {0}, Unbounded),
         Field("minTeamGrowthRate", "number", {-1000}, {100000}) >>),
    Template("commission_policy",
      << Percent("maxCommissionRate"), Amount("maxCommissionCost7d"),
         Whole("settlementPeriodDays", {10}, {3650}) >>),
    Template("activity_roi_policy",
      << Field("minActivityRoiPercent", "number", {-1000}, {1000000}),
         Amount("maxRewardBudget7d"), Amount("maxCostPerFirstRecharge") >>),
    Template("profit_model",
      << Percent("grossMarginRate"), Percent("paymentChannelCostRate"),
         Field("targetNetProfitRate", "number", {-1000}, {1000}) >>),
    Template("withdrawal_policy",
      << Percent("minWithdrawalSuccessRate"), Amount("manualReviewThresholdAmount"),
         Whole("payoutSlaHours", {10}, {7200}) >>),
    Template("risk_policy",
      << Percent("maxRiskInterceptRate"), Amount("manualFreezeThresholdAmount"),
         Whole("maxHighRiskCasesPerDay", {0}, Unbounded) >>) }

\* The template of a key: the empty set when there is none.
FindOperatingTemplate(key) == {template \in OperatingParamTemplates : template.key = key}

Num(n) == [type |-> "number", tenths |-> n, numeric |-> TRUE]
Str(n, numeric) == [type |-> "string", tenths |-> n, numeric |-> numeric]
EmptyString == [type |-> "empty", tenths |-> 0, numeric |-> FALSE]
Null == [type |-> "null", tenths |-> 0, numeric |-> FALSE]
True == [type |-> "boolean", tenths |-> 0, numeric |-> FALSE]

\* asNumber: a finite number, or a string that reads as one.
IsNumber(v) == v.type = "number" \/ (v.type = "string" /\ v.numeric)

FieldKeys(template) == {template.fields[i].key : i \in DOMAIN template.fields}

\* A required bound of none counts as zero.
BuildOperatingParamDefaults(template) ==
  [key \in FieldKeys(template) |->
     LET i == CHOOSE j \in DOMAIN template.fields : template.fields[j].key = key
     IN  Num(IF template.fields[i].min = Unbounded THEN 0
             ELSE CHOOSE bound \in template.fields[i].min : TRUE)]

Absent(object, key) == key \notin DOMAIN object \/ object[key].type \in {"null", "empty"}

Under(v, min) == \E bound \in min : v.tenths < bound
Over(v, max) == \E bound \in max : v.tenths > bound

\* The issues of one field, in the order the loop looks for them.
FieldIssues(field, object) ==
  IF Absent(object, field.key) THEN {"required"}
  ELSE LET v == object[field.key]
       IN  IF ~IsNumber(v) THEN {"number"}
           ELSE IF field.type = "integer" /\ v.tenths % 10 # 0 THEN {"integer"}
           ELSE {issue \in {"min", "max"} :
                   \/ issue = "min" /\ Under(v, field.min)
                   \/ issue = "max" /\ Over(v, field.max)}

ValidateOperatingConfig(template, object) ==
  UNION {FieldIssues(template.fields[i], object) : i \in DOMAIN template.fields}

=============================================================================
