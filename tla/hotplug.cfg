SPECIFICATION FairSpec
CONSTANTS
  m1 = m1
  m2 = m2
  i1 = i1
  Module = {m1}
  Id = {i1}
  Sources <- NoSources
  Detections <- Hotplug
  Outcomes = {"ok", "empty", "error", "timeout"}
  MaxInc = 2
  MaxPanics = 0
INVARIANTS
  SignalsFromHolder
  RoutedOnlyWhileOk
  InFlightIsBusy
PROPERTIES
  NoSlotWedged
  ShutdownCompletes
