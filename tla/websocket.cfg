SPECIFICATION FairSpec
CONSTANTS
  SkipWait = FALSE
  MaxRequests = 4
  MaxFailures = 3
INVARIANTS
  Cancellable
PROPERTIES
  ImplementsConnection
  Reconnects
CHECK_DEADLOCK FALSE
