SPECIFICATION FairSpec
CONSTANTS
  t1 = t1
  t2 = t2
  Ids <- MCIds
  BackgroundIds <- MCBackgroundIds
  Matches <- MCMatches
  Timers <- MCTimers
  MaxBatchSize = 3
  MaxFailures = 1
  MaxOutboundQueueSize = 1
  MaxTraces = 3
  MaxHeight = 1
INVARIANTS
  TypeOK
  Backpressure
  QueuesKeepOrder
  BatchesAreSound
  LossNeedsOverlap
  FlushedOnExit
PROPERTIES
  PendingDrains
  ShutdownCompletes
CHECK_DEADLOCK FALSE
