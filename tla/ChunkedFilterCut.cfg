CONSTANTS
  SizeMod = 1024
  Jobs <- MCOneCut
  NumDevices = 2
  KernelMemory = TRUE
SPECIFICATION Spec
INVARIANTS FilterIsExact
