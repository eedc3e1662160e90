CONSTANTS
  SizeMod = 1024
  Jobs <- MCCalls
  NumDevices = 2
  KernelMemory = TRUE
SPECIFICATION FairSpec
INVARIANTS DeviceBudgetKept ROIRightWhenRetrieved RightAwayFromCuts MemoryReleased
PROPERTIES ImplementsWorkSharing FilterEnds
