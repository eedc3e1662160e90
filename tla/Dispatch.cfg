CONSTANTS
  IntMod <- MCIntMod
  LongLong <- MCLongLong
  DoubleLimit <- MCDoubleLimit
  ByteMod <- MCByteMod
  Calls <- MCCalls
  Devices = 2
SPECIFICATION Spec
CHECK_DEADLOCK FALSE
INVARIANTS
  BackendSeesTheCall
  RefusedIffWrong
  ResultXorError
  OnlyKnownLeaks
  CrashesOnlyAsKnown
