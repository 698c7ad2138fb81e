SPECIFICATION FairSpec
CONSTANTS
  Ws = {"w1", "w2", "w3"}
  Names = {"v1", "v2"}
  Owners = {"alice", "bob"}
  Owner <- MCTwoOwners
  Derived <- MCTwoNames
  Serial = TRUE
  Expiring = {"w2"}
  MaxApiFaults = 1
  MaxFaults = 1
  MaxVolumeDeletes = 1
INVARIANTS
  TypeOK
  LiveHomeSafe
  NoLossWithoutConsent
  NoOrphanVolume
PROPERTY
  Progress
CHECK_DEADLOCK FALSE
