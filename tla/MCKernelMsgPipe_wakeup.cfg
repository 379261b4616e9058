\* One receiver, one sender: the notification comes too early.
SPECIFICATION FairSpec
CONSTANTS
  t1 = t1  t2 = t2  t3 = t3
  NoThread = NoThread
  Threads <- TwoThreads
  Priority <- SomePriorities
  ByPriority = FALSE
  Capacity = 1
  Receivers <- OnlyT1
  Senders <- OnlyT2
  Deleters <- NoThreads
  Timed <- NoThreads
  Sizes = {1}
  FullModes = {TRUE}
  KeepModes = {FALSE}
  MaxQueue = 1
PROPERTIES
  ReceiverReturns
CHECK_DEADLOCK FALSE
