\* Two receivers, of which one passes timeouts, and a sender that also deletes.
SPECIFICATION FairSpec
CONSTANTS
  t1 = t1  t2 = t2  t3 = t3
  NoThread = NoThread
  Threads <- ThreeThreads
  Priority <- SomePriorities
  ByPriority = TRUE
  Capacity = 2
  Receivers <- T1T2
  Senders <- OnlyT3
  Deleters <- OnlyT3
  Timed <- OnlyT2
  Sizes = {1, 2}
  FullModes = {TRUE}
  KeepModes = {TRUE, FALSE}
  MaxQueue = 2
INVARIANTS
  QueuesMatchStatus
  FullMeansFull
PROPERTIES
  TimedReturns
\* Everybody may sleep.
CHECK_DEADLOCK FALSE
