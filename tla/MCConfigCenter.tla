--------------------------- MODULE MCConfigCenter ---------------------------
EXTENDS ConfigCenter
CONSTANTS t1, t2, b1, b2

MCOwner == [b \in {b1, b2} |-> IF b = b1 THEN t1 ELSE t2]
User(level, tenant, brand) ==
  [level |-> level, tenant |-> tenant, brand |-> brand, seesTenants |-> TRUE, seesBrands |-> TRUE]
MCUsers == {User("platform", None, None), User("tenant", t1, None), User("brand", t2, b2)}

MCKeys == {[name |-> "growth_targets", padded |-> p] : p \in BOOLEAN}
\* A growth target with a rate below its minimum, and text that is no JSON.
MCTexts ==
  { JsonObject([key \in {"minNewPlayers7d", "minFirstRechargePlayers7d", "minTeamGrowthRate"} |->
      IF key = "minTeamGrowthRate" THEN Num(-1010) ELSE Str(50, TRUE)]),
    [parse |-> "error", object |-> <<>>] }
=============================================================================
