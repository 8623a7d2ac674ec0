SPECIFICATION Spec
CONSTANTS
  MaxProc = 2
  MaxFaults = 3
  Failures = {"refused", "lost", "kill"}
INVARIANTS
  TypeOK
  NotStranded
  BareIsAttended
PROPERTIES
  ServiceStops
  TrapEnds
