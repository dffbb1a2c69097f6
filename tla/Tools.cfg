SPECIFICATION FairSpec
CONSTANTS
  Calls = {c1, c2, c3, c4}
  Tools = {slow, fast, remote}
  ThreadTools = {slow, fast}
  Hanging = {slow, remote}
  Limit = 2
  NoTool = NoTool
INVARIANTS
  PermitsConserved
  DelayedOnlyByOrphans
PROPERTIES
  NoLateStart
  HealthyCallsEnd
  EveryCallEnds
  CloseReturns
CHECK_DEADLOCK FALSE
