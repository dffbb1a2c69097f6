---------------------------- MODULE AgentPatterns ----------------------------
(***************************************************************************)
(* The four agent patterns of agents/patterns.py as one execution sees     *)
(* them: which call comes next, and what becomes the answer.  Prompts are  *)
(* left out.  A reply is told apart only by what its parser finds in it.   *)
(***************************************************************************)
EXTENDS Naturals

CONSTANTS
  MaxSteps,     \* RuntimeConfig.max_agent_steps
  MaxItems      \* a bound on the items of a plan that the LLM replies with

ASSUME StepsAssumption == MaxSteps \in Nat \ {0} /\ MaxItems \in Nat

VARIABLES
  kind,         \* AgentKind of the run
  pc,           \* "prepared", "llm" or "tool" (a call is out), "over"
  stage,        \* what the LLM call is for
  step,         \* the loop index: tools or plan steps that are done
  plan,         \* the number of plan steps
  llmCalls, toolCalls,
  result        \* "none", "final" (taken from the reply), "reply" or "error"

vars == <<kind, pc, stage, step, plan, llmCalls, toolCalls, result>>

FirstStage == [simple     |-> "generate", react      |-> "reason",
               reflection |-> "draft",    plan_solve |-> "plan"]

Init ==
  /\ kind \in DOMAIN FirstStage
  /\ pc = "prepared" /\ stage = "none" /\ result = "none"
  /\ step = 0 /\ plan = 0 /\ llmCalls = 0 /\ toolCalls = 0

-----------------------------------------------------------------------------
Ask(next) ==
  /\ pc' = "llm" /\ stage' = next /\ llmCalls' = llmCalls + 1
  /\ UNCHANGED <<kind, result>>

Finish(how) ==
  /\ pc' = "over" /\ result' = how
  /\ UNCHANGED <<kind, stage, llmCalls>>

Replied(s) == pc = "llm" /\ stage = s

Begin ==
  /\ pc = "prepared"
  /\ Ask(FirstStage[kind])
  /\ UNCHANGED <<step, plan, toolCalls>>

(* SimpleAgent, and the last call of ReflectionAgent and PlanSolveAgent. *)
LastReply ==
  /\ Replied("generate") \/ Replied("revise") \/ Replied("synthesize")
  /\ Finish("reply")
  /\ UNCHANGED <<step, plan, toolCalls>>

-----------------------------------------------------------------------------
(* ReActAgent.                                                             *)

(***************************************************************************)
(* The reply has a usable "final" (text that is no JSON object is one), or *)
(* neither a "final" nor an "action" and is the answer as it is.           *)
(***************************************************************************)
ReasonEnds ==
  /\ Replied("reason")
  /\ Finish("final") \/ Finish("reply")
  /\ UNCHANGED <<step, plan, toolCalls>>

ReasonTool ==
  /\ Replied("reason")
  /\ pc' = "tool" /\ toolCalls' = toolCalls + 1
  /\ UNCHANGED <<kind, stage, step, plan, llmCalls, result>>

(* A mutant of AfterTool: one step too many. *)
AfterToolOneMore == IF step < MaxSteps THEN Ask("reason") ELSE Ask("final")

(* A mutant of AfterTool: the last observation is the answer. *)
AfterToolWithoutFinal ==
  IF step + 1 < MaxSteps THEN Ask("reason") ELSE Finish("reply")

(* The loop goes on, or is over and the LLM is told to stop using tools. *)
AfterTool == IF step + 1 < MaxSteps THEN Ask("reason") ELSE Ask("final")

ToolReturned ==
  /\ pc = "tool"
  /\ AfterTool
  /\ step' = step + 1
  /\ UNCHANGED <<plan, toolCalls>>

(* Whatever comes now is the answer, even a reply that asks for a tool. *)
ForcedFinal ==
  /\ Replied("final")
  /\ Finish("final") \/ Finish("reply")
  /\ UNCHANGED <<step, plan, toolCalls>>

-----------------------------------------------------------------------------
(* ReflectionAgent and PlanSolveAgent.                                     *)

Drafted ==
  /\ Replied("draft") /\ Ask("critique")
  /\ UNCHANGED <<step, plan, toolCalls>>

Criticised ==
  /\ Replied("critique") /\ Ask("revise")
  /\ UNCHANGED <<step, plan, toolCalls>>

Smaller(m, n) == IF m < n THEN m ELSE n

(* A mutant of PlanLength: a plan without items has no steps. *)
PlanLengthUnfilled(items) == Smaller(items, MaxSteps)

(***************************************************************************)
(* _parse_plan, cut to max_steps: a plan without items becomes one step    *)
(* that answers the task.                                                  *)
(***************************************************************************)
PlanLength(items) == IF items = 0 THEN 1 ELSE Smaller(items, MaxSteps)

Planned ==
  /\ Replied("plan")
  /\ \E items \in 0..MaxItems :
       /\ plan' = PlanLength(items)
       /\ Ask(IF plan' > 0 THEN "step" ELSE "synthesize")
  /\ UNCHANGED <<step, toolCalls>>

StepSolved ==
  /\ Replied("step")
  /\ step' = step + 1
  /\ Ask(IF step' < plan THEN "step" ELSE "synthesize")
  /\ UNCHANGED <<plan, toolCalls>>

-----------------------------------------------------------------------------
(* A call raises, is cancelled or times out: no pattern catches it. *)
CallFails ==
  /\ pc \in {"llm", "tool"}
  /\ Finish("error")
  /\ UNCHANGED <<step, plan, toolCalls>>

Next ==
  \/ Begin \/ LastReply
  \/ ReasonEnds \/ ReasonTool \/ ToolReturned \/ ForcedFinal
  \/ Drafted \/ Criticised \/ Planned \/ StepSolved
  \/ CallFails

Spec == Init /\ [][Next]_vars

-----------------------------------------------------------------------------
(* Safety.                                                                 *)

(* What each pattern may spend, as the loop bounds of patterns.py add up. *)
Budget == [simple     |-> 1, react      |-> MaxSteps + 1,
           reflection |-> 3, plan_solve |-> MaxSteps + 2]

(***************************************************************************)
(* Whatever the LLM replies, a run costs a bounded number of calls, and the*)
(* step limit holds for tools and plans alike (max_agent_steps).           *)
(***************************************************************************)
CallBudget ==
  /\ llmCalls <= Budget[kind]
  /\ toolCalls <= (IF kind = "react" THEN MaxSteps ELSE 0)
  /\ plan <= (IF kind = "plan_solve" THEN MaxSteps ELSE 0)

(***************************************************************************)
(* An answer rests on all of its pattern's phases: every tool observation  *)
(* was followed by another reply, every plan step was solved (at least one)*)
(* before the synthesis, and a reflection was drafted and criticised.      *)
(***************************************************************************)
AnswerRestsOnAllSteps ==
  result \in {"final", "reply"} =>
    /\ kind = "simple" => llmCalls = 1
    /\ kind = "react" => llmCalls = toolCalls + 1
    /\ kind = "reflection" => llmCalls = 3
    /\ kind = "plan_solve" => plan > 0 /\ step = plan /\ llmCalls = plan + 2

(* Each pattern keeps the contract that the runtime relies on. *)
Contract == INSTANCE PatternContract WITH
  place <- pc,
  outcome <- IF result \in {"final", "reply"} THEN "answer" ELSE result
ContractSpec == Contract!Spec
=============================================================================
