SPECIFICATION Spec
CONSTANTS
  t1 = t1
  t2 = t2
  Ids <- MCIds
  BackgroundIds <- MCBackgroundIds
  Matches <- MCMatches
  Timers <- MCTimers
  MaxBatchSize = 3
  MaxFailures = 0
  MaxOutboundQueueSize = 2
  MaxTraces = 2
  MaxHeight = 1
SYMMETRY MCSymmetry
CHECK_DEADLOCK FALSE
INVARIANT NoTraceLost
