SPECIFICATION Spec
CONSTANTS
  Features = {"fixed"}
  MaxFrames = 1
  Capacity = 1
INVARIANTS
  LoopGetsDisplay
CHECK_DEADLOCK FALSE
