------------------------- MODULE AgentPatterns_proofs ------------------------
(***************************************************************************)
(* Proofs about AgentPatterns for any max_agent_steps and any length of    *)
(* the plans that the LLM replies with.                                    *)
(***************************************************************************)
EXTENDS AgentPatterns, TLAPS

TypeInv ==
  /\ kind \in {"simple", "react", "reflection", "plan_solve"}
  /\ pc \in {"prepared", "llm", "tool", "over"}
  /\ result \in {"none", "final", "reply", "error"}
  /\ step \in Nat /\ plan \in Nat /\ llmCalls \in Nat /\ toolCalls \in Nat

(* Nothing is spent before the first call. *)
AtStart ==
  pc = "prepared" => /\ llmCalls = 0 /\ toolCalls = 0 /\ step = 0 /\ plan = 0
                     /\ result = "none"

(***************************************************************************)
(* How many calls were made when a pattern is at a stage.                  *)
(***************************************************************************)
SimpleSpent ==
  kind = "simple" /\ pc # "prepared" =>
    /\ pc # "tool" /\ stage = "generate"
    /\ llmCalls = 1 /\ toolCalls = 0 /\ plan = 0

ReactSpent ==
  kind = "react" /\ pc # "prepared" =>
    /\ stage \in {"reason", "final"} /\ plan = 0
    /\ llmCalls = step + 1
    /\ pc = "tool" => stage = "reason" /\ toolCalls = step + 1
    /\ pc = "llm" \/ result \in {"final", "reply"} => toolCalls = step
    /\ toolCalls \in {step, step + 1}
    /\ stage = "reason" => step < MaxSteps
    /\ stage = "final" => toolCalls = step /\ step = MaxSteps

ReflectionSpent ==
  kind = "reflection" /\ pc # "prepared" =>
    /\ pc # "tool" /\ toolCalls = 0 /\ plan = 0
    /\ \/ stage = "draft" /\ llmCalls = 1
       \/ stage = "critique" /\ llmCalls = 2
       \/ stage = "revise" /\ llmCalls = 3
    /\ result \in {"final", "reply"} => stage = "revise"

PlanSpent ==
  kind = "plan_solve" /\ pc # "prepared" =>
    /\ pc # "tool" /\ toolCalls = 0 /\ plan <= MaxSteps
    /\ \/ stage = "plan" /\ llmCalls = 1 /\ step = 0 /\ plan = 0
       \/ stage = "step" /\ llmCalls = step + 2 /\ step < plan
       \/ stage = "synthesize" /\ llmCalls = step + 2 /\ step = plan /\ plan > 0
    /\ result \in {"final", "reply"} => stage = "synthesize"

(* A result is there exactly when the pattern is over. *)
ResultFits == result = "none" <=> pc # "over"

PatternInv ==
  /\ TypeInv
  /\ AtStart
  /\ SimpleSpent
  /\ ReactSpent
  /\ ReflectionSpent
  /\ PlanSpent
  /\ ResultFits

LEMMA InitPattern == Init => PatternInv
  BY DEF Init, FirstStage, PatternInv, TypeInv, AtStart, SimpleSpent, ReactSpent,
     ReflectionSpent, PlanSpent, ResultFits

LEMMA NextKeepsPattern == PatternInv /\ [Next]_vars => PatternInv'
<1> SUFFICES ASSUME PatternInv, [Next]_vars
             PROVE  PatternInv'
  OBVIOUS
<1> USE StepsAssumption
    DEF PatternInv, TypeInv, AtStart, SimpleSpent, ReactSpent, ReflectionSpent,
        PlanSpent, ResultFits
<1>1. CASE Begin
  BY <1>1 DEF Begin, Ask, FirstStage
<1>2. CASE LastReply
  BY <1>2 DEF LastReply, Replied, Finish
<1>3. CASE ReasonEnds
  BY <1>3 DEF ReasonEnds, Replied, Finish
<1>4. CASE ReasonTool
  BY <1>4 DEF ReasonTool, Replied
<1>5. CASE ToolReturned
  BY <1>5 DEF ToolReturned, AfterTool, Ask
<1>6. CASE ForcedFinal
  BY <1>6 DEF ForcedFinal, Replied, Finish
<1>7. CASE Drafted \/ Criticised
  BY <1>7 DEF Drafted, Criticised, Replied, Ask
<1>8. CASE Planned
  <2>1. ASSUME NEW items \in 0..MaxItems
        PROVE  PlanLength(items) \in 1..MaxSteps
    BY DEF PlanLength, Smaller
  <2>2. /\ kind = "plan_solve" /\ pc = "llm" /\ stage = "plan"
        /\ plan' \in 1..MaxSteps /\ Ask("step")
        /\ UNCHANGED <<step, toolCalls>>
    BY <1>8, <2>1 DEF Planned, Replied
  <2> QED BY <2>2 DEF Ask
<1>9. CASE StepSolved
  BY <1>9 DEF StepSolved, Replied, Ask
<1>10. CASE CallFails
  BY <1>10 DEF CallFails, Finish
<1>11. CASE UNCHANGED vars
  BY <1>11 DEF vars
<1> QED
  BY <1>1, <1>2, <1>3, <1>4, <1>5, <1>6, <1>7, <1>8, <1>9, <1>10, <1>11 DEF Next

LEMMA PatternInvariant == Spec => []PatternInv
  BY InitPattern, NextKeepsPattern, PTL DEF Spec

(***************************************************************************)
(* Whatever the LLM replies, a run costs a bounded number of LLM and tool  *)
(* calls, for every max_agent_steps.                                       *)
(***************************************************************************)
THEOREM CallsAlwaysBounded == Spec => []CallBudget
<1>1. PatternInv => CallBudget
  BY StepsAssumption DEF PatternInv, TypeInv, AtStart, SimpleSpent, ReactSpent,
     ReflectionSpent, PlanSpent, CallBudget, Budget
<1> QED BY <1>1, PatternInvariant, PTL

(***************************************************************************)
(* An answer rests on all phases of its pattern, for every max_agent_steps *)
(* and every plan.                                                         *)
(***************************************************************************)
THEOREM AnswerAlwaysRests == Spec => []AnswerRestsOnAllSteps
<1>1. PatternInv => AnswerRestsOnAllSteps
  BY DEF PatternInv, TypeInv, AtStart, SimpleSpent, ReactSpent, ReflectionSpent,
     PlanSpent, ResultFits, AnswerRestsOnAllSteps
<1> QED BY <1>1, PatternInvariant, PTL

(***************************************************************************)
(* Each pattern keeps the contract that the runtime's Call and Return rest *)
(* on: it implements PatternContract.                                      *)
(***************************************************************************)
THEOREM KeepsContract == Spec => ContractSpec
<1> DEFINE outcome == IF result \in {"final", "reply"} THEN "answer" ELSE result
<1>1. Init => Contract!Init
  BY DEF Init, Contract!Init
<1>2. PatternInv /\ [Next]_vars => [Contract!Next]_<<pc, outcome>>
  <2> SUFFICES ASSUME PatternInv, [Next]_vars
               PROVE  Contract!Next \/ UNCHANGED <<pc, outcome>>
    OBVIOUS
  <2> USE DEF PatternInv, ResultFits, Contract!Next, Contract!CallLLM,
              Contract!CallTool, Contract!Answer, Contract!Raise
  <2>1. CASE Begin
    BY <2>1 DEF Begin, Ask
  <2>2. CASE LastReply \/ ReasonEnds \/ ForcedFinal
    BY <2>2 DEF LastReply, ReasonEnds, ForcedFinal, Replied, Finish
  <2>3. CASE ReasonTool
    BY <2>3 DEF ReasonTool, Replied
  <2>4. CASE ToolReturned
    BY <2>4 DEF ToolReturned, AfterTool, Ask
  <2>5. CASE Drafted \/ Criticised \/ Planned \/ StepSolved
    BY <2>5 DEF Drafted, Criticised, Planned, StepSolved, Replied, Ask
  <2>6. CASE CallFails
    BY <2>6 DEF CallFails, Finish
  <2>7. CASE UNCHANGED vars
    BY <2>7 DEF vars
  <2> QED BY <2>1, <2>2, <2>3, <2>4, <2>5, <2>6, <2>7 DEF Next
<1> QED BY <1>1, <1>2, PatternInvariant, PTL DEF Spec, ContractSpec, Contract!Spec
=============================================================================
