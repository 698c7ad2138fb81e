SPECIFICATION Spec
CONSTANTS
  Users = {u1, u2, u3}
  Calls = {c1, c2}
  Label <- Clashing
  Ops <- AllOps
  SyncRoles = TRUE
  MaxTime = 3
  MaxStarted = 2
  MaxFaults = 1
INVARIANT OneAccountPerNamespace
CHECK_DEADLOCK FALSE
