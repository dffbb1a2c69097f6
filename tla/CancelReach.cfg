SPECIFICATION Spec
CONSTANTS
  Runs = {r1}
  Workers = {w1, w2}
  Keys = {}
  NoRun = NoRun
  NoWorker = NoWorker
  NoKey = NoKey
  QueueCapacity = 1
  ConfiguredCapacity = 1
  MaxRunRecords = 3
  Operations = {"cancel", "retry"}
INVARIANT CancelReachesTask
CHECK_DEADLOCK FALSE
