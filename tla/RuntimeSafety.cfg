SPECIFICATION SessionSpec
CONSTANTS
  Runs = {r1, r2, r3}
  Workers = {w1, w2}
  Keys = {}
  NoRun = NoRun
  NoWorker = NoWorker
  NoKey = NoKey
  QueueCapacity = 2
  ConfiguredCapacity = 1
  MaxRunRecords = 3
  Operations = {"cancel", "retry", "expiry"}
  HistoryMessages = 3
SYMMETRY Symmetry
INVARIANTS
  ScheduledOnce
  WorkerLossAccounted
  ResultMatchesOutcome
  TurnEndsRun
  TurnsUnmixed
  AnswersRemembered
PROPERTY
  SchedulerSpec
CHECK_DEADLOCK FALSE
