SPECIFICATION Spec
CONSTANTS
  Ws = {"w1", "w2", "w3"}
  Names = {"v1", "v2", "v3"}
  Owners = {"alice", "bob"}
  Owner <- MCOneOwner
  Derived <- MCOwnNames
  Serial = FALSE
  Expiring = {}
  MaxApiFaults = 0
  MaxFaults = 0
  MaxVolumeDeletes = 0
INVARIANT
  LiveHomeSafe
CHECK_DEADLOCK FALSE
