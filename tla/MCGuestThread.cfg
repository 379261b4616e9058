\* A main thread that starts and deletes a worker; the host pauses, resumes
\* and closes.
SPECIFICATION FairSpec
CONSTANTS
  t1 = t1  t2 = t2
  Threads <- TwoThreads
  Main <- t1
  Workers <- OnlyT2
  Starters <- OnlyT1
  Deleters <- OnlyT1
  Joins <- SomeJoins
  EndHandler = TRUE
INVARIANTS
  NoJoinerOfEnded
PROPERTIES
  JoinersReturn
  NobodyLeftSuspended
CHECK_DEADLOCK FALSE
