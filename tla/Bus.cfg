SPECIFICATION FairSpec
CONSTANTS
  auditor = auditor
  watcher = watcher
  a1 = a1
  b1 = b1
  b2 = b2
  created = created
  changed = changed
  Subscriptions <- TwoSubscriptions
  Workers <- ThreeWorkers
  SubOf <- SubOfThree
  QueueSize <- SmallQueues
  Topics <- TwoTopics
  Audience <- AudienceOfTwo
  Blocking = {watcher, auditor}
  Fragile = {auditor}
  Hanging = {watcher}
  Threads = 2
  MaxEvents = 3
INVARIANTS
  DeliveriesAccounted
  DrainedBeforeStop
  TakenOnceInOrder
  CloseNeverStuck
PROPERTIES
  CloseTerminates
  Isolated
CHECK_DEADLOCK FALSE
