CONSTANTS
  p1 = p1  p2 = p2  p3 = p3  p4 = p4
  Pages <- FourPages
  CELLS_SIZE_PER_PAGE = 3
  MAX_FREE_PAGES = 2
  NoPage = NoPage
SPECIFICATION Spec
SYMMETRY PageSymmetry
INVARIANTS
  PoolExact
  EmptyPagesBounded
PROPERTIES
  ImplementsAllocator
CHECK_DEADLOCK FALSE
