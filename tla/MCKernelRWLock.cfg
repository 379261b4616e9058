\* Readers and writers that do not nest the two kinds.
SPECIFICATION FairSpec
CONSTANTS
  t1 = t1  t2 = t2  t3 = t3
  NoThread = NoThread
  Threads <- ThreeThreads
  Priority <- SomePriorities
  ByPriority = TRUE
  Recursive = FALSE
  Timed <- OnlyT2
  Deleters <- OnlyT1
  Nesting = FALSE
  MaxCount = 2
INVARIANTS
  WriterAlone
  ReadersNotStranded
PROPERTIES
  ReaderServed
  KeepsPromise
\* A thread may sleep for ever on a lock whose name was deleted.
CHECK_DEADLOCK FALSE
