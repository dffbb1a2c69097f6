SPECIFICATION Spec
CONSTANTS
  Calls = {c1, c2, c3}
  Cancellable = {c1}
  MaxAttempts = 2
  BaseDelay = 0
  MaxDelay = 0
  MaxJitter = 0
  Capacity = 3
  RefillRate = 3
  Cost = 1
  FailureThreshold = 1
  RecoveryTime = 1
  HalfOpenMaxCalls = 1
INVARIANT HalfOpenBounded
