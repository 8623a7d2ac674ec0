SPECIFICATION Spec
CONSTANTS
  Bodies = {1, 4}
  Noise = {"hello", "nl"}
  Cap = 2
  Chunk = 2
  MaxLine = 2
  MaxStdin = 2
  Backoffs = {1, 3}
  Saturate = 2
INVARIANT OneFailureIsShort
