CONSTANTS
  PageSize = 2
  WordBits = 4
  MaxOffset = 16
  UserStart = 16
  Sizes = {0, 2}
  Alignments = {4}
  BlockTypes <- MCTypes
  BlockSizes = {2}
  TypeStart <- MCTypeStart
  TypeAlignment <- MCTypeAlignment
  MaxHeld = 4
SPECIFICATION MemorySpec
INVARIANT AddressesDiffer
CHECK_DEADLOCK FALSE
