SPECIFICATION Spec
CONSTANTS
  MaxSteps = 8
  MaxItems = 10
INVARIANTS
  CallBudget
  AnswerRestsOnAllSteps
PROPERTY ContractSpec
CHECK_DEADLOCK FALSE
