SPECIFICATION Spec
CONSTANTS
  Keys = {k1, k2, k3, k4}
  Clients = {c1, c2}
  ParallelNum = 2
  JoinLimit = 2
  Owner = Owner
  None = None
SYMMETRY KeysAndClients
INVARIANTS
  TypeOK
  Consistent
  ParallelLimit
  CancelEffective
  DropStopsAll
  QuiescentAfterDrop
PROPERTIES
  CancelledNotArmed
  ImplementsLedger
