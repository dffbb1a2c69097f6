SPECIFICATION Spec
CONSTANTS
  Runs = {r1}
  Workers = {w1}
  Keys = {}
  NoRun = NoRun
  NoWorker = NoWorker
  NoKey = NoKey
  QueueCapacity = 1
  ConfiguredCapacity = 1
  MaxRunRecords = 2
  Operations = {"cancel"}
INVARIANT FixedWorkerPool
CHECK_DEADLOCK FALSE
