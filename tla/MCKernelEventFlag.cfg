\* Two threads wait for one or two bits, one of them with timeouts, and clears,
\* cancels and deletes; a third only sets.
SPECIFICATION FairSpec
CONSTANTS
  t1 = t1  t2 = t2  t3 = t3  a = a  b = b
  NoThread = NoThread
  Threads <- ThreeThreads
  Priority <- SomePriorities
  ByPriority = TRUE
  Bits <- TwoBits
  InitFlags <- NoBits
  Multi = TRUE
  Timed <- OnlyT2
  Waiters <- T1T2
  Clearers <- OnlyT2
  Cancelers <- OnlyT2
  Deleters <- OnlyT2
  Patterns <- SomePatterns
  Clears = {"none", "pattern", "all"}
INVARIANTS
  NoneSatisfiedAsleep
  OutBitsSatisfy
PROPERTIES
  WaiterAnswered
\* Everybody may sleep.
CHECK_DEADLOCK FALSE
