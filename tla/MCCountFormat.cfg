\* Traces in the old format that begin with an access in the first file.
SPECIFICATION Spec
CONSTANTS
  Directories <- MCOldTracesFromFirst
  MaxChunks = 2
  Garbage <- MCGarbage
  Threads = 2
  PageSize = 2
  Align = Align
INVARIANT
  EveryAccessAsserted
