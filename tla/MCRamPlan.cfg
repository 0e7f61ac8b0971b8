\* Every placement of four walks over two threads, and two scanned pages.
SPECIFICATION Spec
CONSTANTS
  Threads = 2
  PageSize = 1
  Pages = 3
  Rows = 3
  Chunks = {0, 1}
  Walks <- MCWalks
INVARIANTS
  TypeOK
  LocatorsOnBoundaries
  SegmentsAreSlices
  NoPlannerError
  PlanCoversScan
