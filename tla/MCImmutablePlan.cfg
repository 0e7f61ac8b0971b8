\* Every placement of four walks over six words, the last page not scanned.
SPECIFICATION Spec
CONSTANTS
  Threads = 1
  PageSize = 2
  Pages = 3
  Rows = 2
  Chunks = {0, 1}
  Walks <- MCWalks
  NoEntry = NoEntry
INVARIANTS
  TypeOK
  RowsAccountedFor
  SegmentsAreSlices
  PlanCoversScan
