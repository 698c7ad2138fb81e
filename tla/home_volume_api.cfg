SPECIFICATION Spec
CONSTANTS
  Ws = {"w1", "w2"}
  Names = {"v1", "v2"}
  Owners = {"alice", "bob"}
  Owner <- MCOneOwner
  Derived <- MCTwoNames
  Serial = FALSE
  Expiring = {}
  MaxApiFaults = 0
  MaxFaults = 0
  MaxVolumeDeletes = 1
INVARIANT
  LiveHomeSafe
CHECK_DEADLOCK FALSE
