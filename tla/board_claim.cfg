SPECIFICATION Spec
CONSTANTS
  MaxProc = 1
  MaxFaults = 1
  Failures = {"lost"}
INVARIANTS
  ClaimFailedMeansUnclaimed
