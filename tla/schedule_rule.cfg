SPECIFICATION RuleSpec
CONSTANTS
  ScanHorizon = 6
  LastInstant = 10
  Schedules <- MCSingle
INVARIANTS
  RuleTypeOK
  FollowsLastEvent
PROPERTY
  NoSilentTransition
