\* Every trace of up to six unaligned accesses in four chunks.
SPECIFICATION Spec
CONSTANTS
  Rows = 8
  NumChunks = 4
  MaxOps = 6
INVARIANTS
  TypeOK
  CheckPointsTileTrace
  SegmentsPacked
