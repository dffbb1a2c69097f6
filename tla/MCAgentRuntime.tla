--------------------------- MODULE MCAgentRuntime ----------------------------
(* AgentRuntime on small instances.                                        *)
EXTENDS AgentRuntime, TLC

(* Runs and workers are interchangeable; used by the safety runs only. *)
Symmetry ==
  Permutations(Runs) \cup Permutations(Workers) \cup Permutations(Keys)
=============================================================================
