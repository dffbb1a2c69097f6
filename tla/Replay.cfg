SPECIFICATION Spec
CONSTANTS
  Runs = {r1, r2, r3}
  Workers = {w1}
  Keys = {k1}
  NoRun = NoRun
  NoWorker = NoWorker
  NoKey = NoKey
  QueueCapacity = 1
  ConfiguredCapacity = 1
  MaxRunRecords = 2
  Operations = {}
PROPERTY SameKeySameRun
CHECK_DEADLOCK FALSE
