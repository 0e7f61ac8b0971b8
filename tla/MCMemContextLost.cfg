\* Finding: a counter caught between get_chunk's two loads returns short.
SPECIFICATION Spec
CONSTANTS
  Counters = {w1, w2}
  NumFiles = 2
  MaxChunks = 4
  NoChunk = NoChunk
INVARIANT EveryCounterCountsAll
