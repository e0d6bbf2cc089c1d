SPECIFICATION Spec
CONSTANTS
  BufferSize = 2
  EndHeight = 0
  ThrowBlock = TRUE
  ThrowTx = FALSE
  MinStartMargin = 1
  TxLists <- MCTxLists
  BlockTxs <- MCBlockTxs
  MaxHeight = 4
  MaxRestarts = 2
INVARIANTS
  BelowCursorQueued
  RestartRepeatsOneBlock
CHECK_DEADLOCK FALSE
