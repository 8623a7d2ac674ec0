SPECIFICATION FairSpec
CONSTANTS
  NumFans = 1
  Duties = {"low"}
  MinLimit = 4
  DefaultLimit = 10
  MaxLimit = 12
  MaxFaults = 0
  MaxProc = 2
  Grids <- TheGrids
PROPERTIES
  GridObeyed
