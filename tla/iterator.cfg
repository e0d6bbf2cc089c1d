SPECIFICATION FairIteratorSpec
CONSTANTS
  BufferSize = 2
  EndHeight = 4
  ThrowBlock = TRUE
  ThrowTx = FALSE
  MinStartMargin = 0
  TxLists <- MCTxLists
  MaxHeight = 4
INVARIANTS
  IteratorTypeOK
  NoGap
  BufferBounded
  ResolvesAtEnd
PROPERTIES
  BlocksAreReached
  StopWhileIteratingEnds
CHECK_DEADLOCK FALSE
