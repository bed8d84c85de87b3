---------------------------- MODULE MCWithdrawal ----------------------------
(* Small instances of Withdrawal. *)
EXTENDS Withdrawal, TLC

MCKeys == CaseKeys \cup RequestKeys \cup {EarnedKey(a) : a \in Agents}
MCOpenings == [case: Cases, agent: Agents, amount: {1}, freeze: {TRUE}, key: {NoCase}]
MCSubmits == [agent: Agents, amount: {1}]
MCAnySubmits == [agent: Agents, amount: {1, 2}]

Symmetry == Permutations(Callers) \cup Permutations(Requests) \cup Permutations(Cases)
=============================================================================
