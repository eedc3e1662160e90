CONSTANTS
  Lengths <- MCLengths
  searchWindowRadius = 2
  nhoodRadius = 1
SPECIFICATION Spec
INVARIANTS MeansAreOfPatches
CHECK_DEADLOCK FALSE
