CONSTANTS
  t1 = t1
  t2 = t2
  c1 = c1
  Threads <- MCThreads
  Users <- MCUsers
  Notifiers <- MCNotifiers
  Reader = t2
  Callbacks <- MCCallbacks
  Owner <- MCOwner
  VCounts <- MCVCounts
  BufCounts <- MCBufCounts
  Slots = 3
  MaxCount = 3
  MaxOwed = 1
SPECIFICATION VblankSpec
INVARIANTS
  WaitsInTime
  NotificationsKept
  SamplesRight
PROPERTIES
  WaitsLongEnough
  NotifiedBeforeWake
  ListedAreWoken
CHECK_DEADLOCK FALSE
