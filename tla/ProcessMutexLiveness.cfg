\* Two threads and three objects, no symmetry: it is unsound for liveness.
CONSTANTS
  Proc = {p1, p2}
  Obj = {o1, o2, o3}
  NoProc = NoProc
  NoObj = NoObj
  ChkLimit = 2
SPECIFICATION FairSpec
PROPERTIES ConstructionEnds GrantedUnlessWedged
