SPECIFICATION Spec
CONSTANTS
  m1 = m1
  m2 = m2
  i1 = i1
  Module = {m1, m2}
  Id = {i1}
  Sources <- Routed
  Detections <- Stable
  Outcomes = {"ok", "dead"}
  MaxInc = 3
  MaxPanics = 0
INVARIANTS
  OneProcessPerDevice
PROPERTIES
  RoutedInputsAreLive
