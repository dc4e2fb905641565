-------------------------- MODULE MCAgentRegistry --------------------------
(* Small instances of AgentRegistry for TLC. *)
EXTENDS AgentRegistry, TLC

\* Names, ids and connections are only compared.
Symmetry == Permutations(Names) \cup Permutations(Ids) \cup Permutations(Conns)
=============================================================================
