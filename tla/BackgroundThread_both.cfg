SPECIFICATION FairSpec
CONSTANTS
  Foos = {flagged, counted}
  Counting = {counted}
INVARIANTS
  TypeOK
  NoSleepAfterStop
PROPERTIES
  FlagIsJoined
  AwakeIsJoined
CHECK_DEADLOCK FALSE
