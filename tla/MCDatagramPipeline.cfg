CONSTANTS
  b1 = b1  b2 = b2  b3 = b3  b4 = b4  b5 = b5  b6 = b6
  Cells <- SixCells
  NSockets = 1
  Cap = 2
  Numbers = 5
  NoBuffer = NoBuffer
SPECIFICATION FairSpec
INVARIANTS
  OneOwner
  BufferDemand
PROPERTIES
  InOrder
  QueuedIsProcessed
CHECK_DEADLOCK FALSE
