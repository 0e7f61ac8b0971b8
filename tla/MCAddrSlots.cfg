\* A word with up to three blocks among two others in two pages, and one block
\* too few for all of them.
SPECIFICATION Spec
CONSTANTS
  NumOffsets = 3
  PageSize = 2
  SlotSize = 6
  Slots = 4
  NumChunks = 5
  Ops = {1,2}
  MaxRows <- MCMaxRows
  Garbage = Garbage
  EmptyPage = 99
INVARIANTS
  TypeOK
  WalkIsChain
  BlocksPartitioned
  CountIsChainTotal
  LimitsAreTight
PROPERTY
  ImplementsHistory
