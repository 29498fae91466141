--------------------------- MODULE MCAgentLimiter ---------------------------
(***************************************************************************)
(* TLC instances of AgentLimiter.  Callers and agents are interchangeable. *)
(***************************************************************************)
EXTENDS AgentLimiter, TLC

Symmetry == Permutations(Callers) \cup Permutations(Agents)
=============================================================================
