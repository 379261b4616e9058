\* A recursive light mutex with a priority queue: every kind of step is
\* possible, also timeouts, polls, underflow and deletion.
SPECIFICATION FairSpec
CONSTANTS
  t1 = t1  t2 = t2  t3 = t3
  NoThread = NoThread
  Threads <- ThreeThreads
  Priority <- SomePriorities
  ByPriority = TRUE
  Recursive = TRUE
  Light = TRUE
  Timed <- T2T3
  Deleters <- OnlyT1
  InitCounts = {0, 1}
  LockCounts = {1, 2}
  UnlockCounts = {1, 2, 3, 4}
  MaxLockCount = 4
INVARIANTS
  MutualExclusion
  NoSleeperOnFree
  WorkareaNamesHolder
PROPERTIES
  WakeMostUrgent
  SleeperServed
  KeepsPromise
\* A thread may sleep forever on a mutex whose name was deleted.
CHECK_DEADLOCK FALSE
