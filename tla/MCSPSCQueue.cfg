CONSTANTS
  e1 = e1
  e2 = e2
  Elem <- MCElem
  Cap = 3
  Wrap = 6
SPECIFICATION FairSpec
INVARIANTS
  NoCopyRace
  PopNeverSpins
PROPERTIES
  ImplementsFIFO
  PushReturns
