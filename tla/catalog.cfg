SPECIFICATION FairSpec
CONSTANTS
  Streams = {"s1"}
  Users = {"u1", "u2"}
  OwnerOf <- MCOwnerOf
  AdminStreams = {}
  Cap = 1
  Sources = {"a", "b"}
  Left = {"a"}
  Ticking = TRUE
  MaxEdits = 2
  MaxQueue = 1
  MaxFaults = 1
INVARIANTS
  NoLostWakeup
  NoLostNotification
PROPERTIES
  EntriesConverge
  EventPathRests
CHECK_DEADLOCK FALSE
