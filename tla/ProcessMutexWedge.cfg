\* Two threads; the creator may die before it has published the mutex.
CONSTANTS
  Proc = {p1, p2}
  Obj = {o1, o2, o3}
  NoProc = NoProc
  NoObj = NoObj
  ChkLimit = 2
SPECIFICATION FairSpec
PROPERTIES GrantedAfterAnyCrash
