SPECIFICATION FairSpec
CONSTANTS
  Features = {"fixed"}
  MaxFrames = 1
  Capacity = 1
PROPERTIES
  CaptureEnds
CHECK_DEADLOCK FALSE
