CONSTANTS
  b1 = b1  b2 = b2  b3 = b3  b4 = b4  b5 = b5  b6 = b6
  Cells <- FourCells
  NSockets = 2
  Cap = 3
  Numbers = 5
  NoBuffer = NoBuffer
SPECIFICATION Spec
INVARIANT ReturnsToItsThread
CHECK_DEADLOCK FALSE
