SPECIFICATION Spec
CONSTANTS
  Runs = {r1, r2, r3, r4}
  Workers = {w1}
  Keys = {k1, k2}
  NoRun = NoRun
  NoWorker = NoWorker
  NoKey = NoKey
  QueueCapacity = 2
  ConfiguredCapacity = 1
  MaxRunRecords = 2
  Operations = {"cancel", "retry", "close", "expiry"}
SYMMETRY Symmetry
INVARIANTS
  TypeOK
  CompletionMatchesTerminal
  IdempotencyConsistent
  RegistryBounded
  LocksBelong
CHECK_DEADLOCK FALSE
