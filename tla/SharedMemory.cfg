CONSTANTS
  SizeMod = 1024
  Jobs <- MCJobs
  MedianCalls <- MCMedianCalls
SPECIFICATION KernelSpec
INVARIANTS BlockKeepsItsElements SumIsExactWhen EntriesEnough NoneLeftOut NoGarbageSeen SelectionInv MedianRight LanesKeepApart
PROPERTIES MedianEnds
