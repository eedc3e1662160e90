CONSTANTS
  SizeMod = 1024
  Jobs <- MCCutImage
SPECIFICATION Spec
INVARIANTS SumIsExact
