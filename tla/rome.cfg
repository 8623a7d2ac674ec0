SPECIFICATION FairSpec
CONSTANTS
  CpuZone = {1, 2}
  CaseZone = {3, 4}
  Surrounding <- TheNames
  At <- TheSurroundings
  Worlds <- TheWorlds
  Peak = 44
  Trough = 40
INVARIANTS
  TypeOK
  NeverUnderCurve
  FailsHigh
  ConfirmedIsEarned
PROPERTIES
  EditsKeepControl
  UniformStartsFresh
  DeadFanCompensated
  Settles
