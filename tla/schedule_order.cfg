SPECIFICATION RuleSpec
CONSTANTS
  ScanHorizon = 6
  LastInstant = 10
  Schedules <- MCDouble
INVARIANT
  FollowsLastEvent
