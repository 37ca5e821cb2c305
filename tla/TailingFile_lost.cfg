SPECIFICATION FairSpec
CONSTANTS
  Readers = {tailing}
  ModifiedOnly = {}
  MaxSize = 2
  MaxOthers = 0
  MaxOpen = 1
PROPERTIES
  AppendedIsRead
CHECK_DEADLOCK FALSE
