SPECIFICATION Spec
CONSTANTS
  m1 = m1
  m2 = m2
  i1 = i1
  Module = {m1}
  Id = {i1}
  Sources <- NoSources
  Detections <- Ambiguous
  Outcomes = {"ok", "error", "fatal", "timeout"}
  MaxInc = 2
  MaxPanics = 0
INVARIANTS
  TypeOK
  OneApplyInFlight
  NothingOrphaned
