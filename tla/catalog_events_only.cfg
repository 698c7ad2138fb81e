SPECIFICATION FairTurns
CONSTANTS
  Streams = {}
  Users = {"u1", "u2"}
  OwnerOf <- MCOwnerOf
  AdminStreams = {}
  Cap = 1
  Sources = {"a", "b"}
  Left = {"a"}
  Ticking = FALSE
  MaxEdits = 2
  MaxQueue = 2
  MaxFaults = 0
PROPERTY
  EntriesConverge
CHECK_DEADLOCK FALSE
