-------------------------- MODULE MCSessionHistory ---------------------------
(* SessionHistory with the symmetry of MCAgentRuntime.                      *)
EXTENDS SessionHistory, MCAgentRuntime
=============================================================================
