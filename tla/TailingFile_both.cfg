SPECIFICATION FairSpec
CONSTANTS
  Readers = {tailing, modified}
  ModifiedOnly = {modified}
  MaxSize = 3
  MaxOthers = 1
  MaxOpen = 1
INVARIANTS
  TypeOK
  NeverDeaf
PROPERTIES
  EventIsRead
  EventOpensFile
  ErrorIsReported
CHECK_DEADLOCK FALSE
