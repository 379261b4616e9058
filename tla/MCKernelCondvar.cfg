\* Two threads wait, one of them with timeouts; two signal, one deletes.
SPECIFICATION CondFairSpec
CONSTANTS
  t1 = t1  t2 = t2  t3 = t3
  NoThread = NoThread
  Threads <- ThreeThreads
  Priority <- SomePriorities
  ByPriority = TRUE
  Recursive = TRUE
  Light = FALSE
  Timed <- OnlyT2
  Deleters <- NoThreads
  InitCounts = {0}
  LockCounts = {1}
  UnlockCounts = {1, 2}
  MaxLockCount = 2
  CondWaiters <- T1T2
  Signallers <- T2T3
  CondDeleters <- OnlyT3
INVARIANTS
  OneQueueMatchesStatus
  WaitersKeepMutexRight
PROPERTIES
  NoSignalLost
  SignalledReturns
\* Everybody may sleep.
CHECK_DEADLOCK FALSE
