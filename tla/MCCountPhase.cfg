\* Every trace of up to three accesses in two chunks, in every interleaving,
\* and smaller ones in the old format or read in part.
SPECIFICATION Spec
CONSTANTS
  Directories <- MCDirectories
  MaxChunks = 2
  Garbage <- MCGarbage
  Threads = 2
  PageSize = 2
  Align = Align
INVARIANTS
  TypeOK
  TableIsTrace
  OperationsConserved
  MisreadTraceStopped
PROPERTY
  StoresHistories
