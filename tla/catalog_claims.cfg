SPECIFICATION Spec
CONSTANTS
  Streams = {"s1"}
  Users = {"u1", "u2"}
  OwnerOf <- MCOwnerOf
  AdminStreams = {}
  Cap = 2
  Sources = {"a"}
  Left = {"a"}
  Ticking = FALSE
  MaxEdits = 4
  MaxQueue = 2
  MaxFaults = 0
INVARIANTS
  Coalesces
  Tracked
CHECK_DEADLOCK FALSE
