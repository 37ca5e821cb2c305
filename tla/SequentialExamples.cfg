SPECIFICATION Spec
CONSTANTS
  ResTypes = {"u8", "u32"}
  Values = {1, 2}
  Absent = Absent
  Systems <- ParamLists
  MaxSystems = 2
  TauriTests = {"test1", "test2", "test3", "test4"}
  NoTest = NoTest
  FieldLists <- Structs
  Names = {"k1", "k2", "k3"}
  Others = {o1, o2}
  Strs = {"s1", "s2", "s3"}
  AsStr <- Strings
  Views <- KeyViews
  Buckets = {0, 1}
  HashOf <- Hashes
  Nothing = Nothing
INVARIANTS
  TypeOK
  DroppedOnce
  DeriveIsRight
PROPERTIES
  RunIsExact
  ImplementsKeySet
CHECK_DEADLOCK FALSE
