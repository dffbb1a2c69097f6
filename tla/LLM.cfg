SPECIFICATION FairWatchSpec
CONSTANTS
  Calls = {c1, c2, c3}
  Cancellable = {c1, c2}
  MaxAttempts = 3
  BaseDelay = 1
  MaxDelay = 2
  MaxJitter = 1
  Capacity = 7
  RefillRate = 2
  Cost = 3
  FailureThreshold = 2
  RecoveryTime = 2
  HalfOpenMaxCalls = 2
  WindowLength = 2
INVARIANTS
  NoProbeLeak
  BreakerTracksFailures
  NoOversleep
  RateHolds
PROPERTIES
  BucketSpec
  OpenIsRetried
