--------------------------- MODULE PatternContract ---------------------------
(***************************************************************************)
(* What the runtime may rely on when it executes an agent pattern: one call*)
(* at a time, a tool only after a reply of the LLM has asked for it, and an*)
(* answer only from a reply of the LLM.  AgentRuntime's Call and Return    *)
(* rest on it, and AgentPatterns implements it.                            *)
(***************************************************************************)
VARIABLES place,      \* "prepared", "llm", "tool" or "over"
          outcome     \* "none", "answer" or "error"

Init == place = "prepared" /\ outcome = "none"

CallLLM ==
  /\ place \in {"prepared", "llm", "tool"}
  /\ place' = "llm" /\ UNCHANGED outcome

CallTool == place = "llm" /\ place' = "tool" /\ UNCHANGED outcome

Answer == place = "llm" /\ place' = "over" /\ outcome' = "answer"

Raise == place \in {"llm", "tool"} /\ place' = "over" /\ outcome' = "error"

Next == CallLLM \/ CallTool \/ Answer \/ Raise

Spec == Init /\ [][Next]_<<place, outcome>>
=============================================================================
