CONSTANTS
  Chunks <- MCChunks
  Lowest <- MCLowest
  Highest <- MCHighest
  TypeMin <- MCTypeMin
  TypeMax = 10
SPECIFICATION Spec
INVARIANTS RangeIsItsOwn
CHECK_DEADLOCK FALSE
