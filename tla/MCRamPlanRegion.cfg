\* Finding: rows of the last page of the region are counted, not planned.
SPECIFICATION Spec
CONSTANTS
  Threads = 1
  PageSize = 2
  Pages = 3
  Rows = 3
  Chunks = {0, 1}
  Walks <- MCWalksFew
INVARIANT RegionPlanned
