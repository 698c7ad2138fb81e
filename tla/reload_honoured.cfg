SPECIFICATION FairSpec
CONSTANTS
  ScanHorizon = 8
  Sched <- MCNone
  Kinds = {"StatefulSet", "Pod"}
  CoherentCache = FALSE
  StartPaused = {FALSE}
  MaxClock = 0
  MaxToggles = 1
  MaxIdle = 0
  MaxEdits = 1
  MaxOverrides = 1
  MaxReloads = 2
  MaxSwitches = 0
  MaxVerdicts = 0
  MaxPodFailures = 0
  MaxFaults = 1
INVARIANT
  RestartsNeedNewShape
PROPERTIES
  KnownChangeIsReloaded
CHECK_DEADLOCK FALSE
