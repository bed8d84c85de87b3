----------------------------- MODULE MCRecharge -----------------------------
EXTENDS Recharge, TLC
CONSTANTS a1, a2, o1, o2, x1, x2, k1

\* The bound agent has the smaller share, the one above it the larger.
MCSettlements ==
  { <<[agent |-> a1, amount |-> 1], [agent |-> a2, amount |-> 2]>> }
MCSettings ==
  { [isolation |-> "serial", recalculates |-> TRUE],
    [isolation |-> "snapshot", recalculates |-> FALSE] }
MCSymmetry == Permutations({x1, x2}) \cup Permutations({o1, o2})
=============================================================================
