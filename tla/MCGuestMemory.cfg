CONSTANTS
  PageSize = 2
  WordBits = 4
  MaxOffset = 16
  UserStart = 16
  Sizes = {2, 3}
  Alignments = {1, 4}
  BlockTypes <- MCTypes
  BlockSizes = {2}
  TypeStart <- MCTypeStart
  TypeAlignment <- MCTypeAlignment
  MaxHeld = 3
SPECIFICATION MemorySpec
INVARIANTS
  PagesAccounted
  HoldersApart
PROPERTIES
  PoolPromise
CHECK_DEADLOCK FALSE
