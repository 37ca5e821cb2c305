SPECIFICATION Spec
CONSTANTS
  Keys = {k1, k2}
  Clients = {c1}
  ParallelNum = 1
  JoinLimit = 1
  Owner = Owner
  None = None
PROPERTIES
  OnCancelOnlyAfterRun
