\* No symmetry: it is unsound for liveness.
CONSTANTS
  Proc = {p1, p2, p3}
  TotalMem = 20
  Needs <- MCNeeds
  Leaks <- MCLeaks
  CallLimit = 2
SPECIFICATION FairSpec
INVARIANTS CommandInv AllocationFits OnlyLeaksHeld
PROPERTIES CallEnds
