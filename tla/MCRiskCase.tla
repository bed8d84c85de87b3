----------------------------- MODULE MCRiskCase -----------------------------
(* Small instances of RiskCase. *)
EXTENDS RiskCase, TLC

\* A key that callers choose themselves, for whatever case.
OwnKey == <<"caller", "k1">>
MCKeys == CaseKeys \cup {EarnedKey(a) : a \in Agents} \cup {OwnKey}
Opening(c, amount, freeze, key) ==
    {[case |-> c, agent |-> a, amount |-> amount, freeze |-> freeze, key |-> key] : a \in Agents}

CONSTANTS c1, c2

\* One case is asked for with a freeze of either amount, with one under the callers'
\* key and without any; the other with one under the same key.
MCOpenings ==
    Opening(c1, 1, TRUE, NoCase) \cup Opening(c1, 2, TRUE, NoCase)
       \cup Opening(c1, 1, TRUE, OwnKey) \cup Opening(c1, 1, FALSE, NoCase)
       \cup Opening(c2, 1, TRUE, OwnKey)

Symmetry == Permutations(Callers)
=============================================================================
