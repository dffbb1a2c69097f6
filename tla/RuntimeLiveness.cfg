SPECIFICATION WaitersSpec
CONSTANTS
  Runs = {r1, r2}
  Workers = {w1, w2}
  Keys = {}
  NoRun = NoRun
  NoWorker = NoWorker
  NoKey = NoKey
  QueueCapacity = 1
  ConfiguredCapacity = 1
  MaxRunRecords = 3
  Operations = {"cancel", "retry", "close"}
  Clients = {u1}
PROPERTIES
  WokenByEnd
  WaitersReleased
  EveryRunEnds
  GatherEnds
  LifecycleSpec
CHECK_DEADLOCK FALSE
