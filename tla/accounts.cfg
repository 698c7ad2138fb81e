SPECIFICATION Spec
CONSTANTS
  Users = {u1, u2}
  Calls = {c1, c2}
  Label <- Distinct
  Ops <- AllOps
  SyncRoles = TRUE
  MaxTime = 4
  MaxStarted = 2
  MaxFaults = 1
SYMMETRY Symmetry
INVARIANTS FloorHeld LastDecisionStands RevocationStands
CHECK_DEADLOCK FALSE
