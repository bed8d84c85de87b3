---------------------------- MODULE MCAgentLedger ----------------------------
(* Small instances of AgentLedger. *)
EXTENDS AgentLedger, TLC

Symmetry == Permutations(Agents) \cup Permutations(Keys) \cup Permutations(Clients)
=============================================================================
