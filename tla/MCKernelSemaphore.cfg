\* Waits for one and two units, signals, cancels and deletion.
SPECIFICATION FairSpec
CONSTANTS
  t1 = t1  t2 = t2  t3 = t3  t4 = t4
  NoThread = NoThread
  Threads <- FourThreads
  Priority <- SomePriorities
  ByPriority = TRUE
  InitVal = 1
  MaxVal = 2
  Timed <- OnlyT2
  Waiters <- T1T2T3
  Cancelers <- OnlyT3
  Deleters <- OnlyT3
  Needs = {1, 2}
  Signals = {1, 2}
  SetCounts <- CancelCounts
INVARIANTS
  UnitsConserved
PROPERTIES
  StrandedOnlyByTimeOut
  WaiterServed
\* Every thread may be asleep.
CHECK_DEADLOCK FALSE
