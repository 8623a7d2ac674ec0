SPECIFICATION FairSpec
CONSTANTS
  Channel = {1, 2}
  Wirings <- TheWirings
  MaxProc = 2
  MaxFaults = 2
INVARIANTS
  TypeOK
  AllOrNothing
PROPERTIES
  NotStranded
  ControlReturns
