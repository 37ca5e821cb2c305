SPECIFICATION FairSpec
CONSTANTS
  Features = {"incorrect", "fixed"}
  MaxFrames = 4
  Capacity = 2
INVARIANTS
  TypeOK
  SizeNotOlder
  IncorrectIsSilent
PROPERTIES
  FixedHandlesAll
  UnparkStopsCapture
CHECK_DEADLOCK FALSE
