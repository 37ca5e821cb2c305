SPECIFICATION FairSpec
CONSTANTS
  Foos = {counted}
  Counting = {counted}
PROPERTIES
  DroppedIsJoined
CHECK_DEADLOCK FALSE
