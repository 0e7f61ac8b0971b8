\* Finding: the walk of the word that owns block 0 loses its first block.
SPECIFICATION Spec
CONSTANTS
  NumOffsets = 1
  PageSize = 1
  SlotSize = 8
  Slots = 3
  NumChunks = 5
  Ops = {1}
  MaxRows <- MCMaxRowsWalk
  Garbage = Garbage
  EmptyPage = 99
INVARIANT WalkMatchesCountTable
