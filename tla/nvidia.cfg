SPECIFICATION FairSpec
CONSTANTS
  NumFans = 2
  Duties = {"low"}
  MinLimit = 4
  DefaultLimit = 10
  MaxLimit = 12
  MaxFaults = 3
  MaxProc = 1
  Grids <- TheGrids
INVARIANTS
  TypeOK
  FansNotStranded
  FanSinkTrue
  PowerNotStranded
  PowerSinkTrue
PROPERTIES
  GridObeyed
