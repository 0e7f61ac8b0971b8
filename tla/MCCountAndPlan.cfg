\* Two counters, one file more than chunks[] holds, two planners.
SPECIFICATION FairProgramSpec
CONSTANTS
  Counters = {w1, w2}
  NumFiles = 4
  MaxChunks = 3
  NoChunk = NoChunk
  Planners = {p1, p2}
  Immutables = {rom, input}
  NumLocators = 2
  MaxLocators = 3
  NoLocator = NoLocator
INVARIANTS
  ProgramTypeOK
  CountsAPrefix
  PlannedFromFinalTables
  SegmentsFiledInTime
  NothingRunsAfterMain
PROPERTIES
  LateReaderCountsAll
  CountPhaseEnds
  ProgramEnds
