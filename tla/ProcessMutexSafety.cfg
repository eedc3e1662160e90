\* Three threads; four objects, so that one is always free for a new creator.
CONSTANTS
  Proc = {p1, p2, p3}
  Obj = {o1, o2, o3, o4}
  NoProc = NoProc
  NoObj = NoObj
  ChkLimit = 2
SYMMETRY Symmetry
SPECIFICATION Spec
INVARIANTS MutexInv MutualExclusion LocksInitialisedMutex RecoveredBeforeUse NoLeak
PROPERTIES ValidStaysNamed ImplementsGpuLock
