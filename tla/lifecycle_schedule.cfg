SPECIFICATION FairSpec
CONSTANTS
  ScanHorizon = 8
  Sched <- MCDaily
  Kinds = {"Deployment"}
  CoherentCache = FALSE
  StartPaused = {FALSE}
  MaxClock = 6
  MaxToggles = 1
  MaxIdle = 0
  MaxEdits = 0
  MaxOverrides = 0
  MaxReloads = 0
  MaxSwitches = 0
  MaxVerdicts = 0
  MaxPodFailures = 0
  MaxFaults = 1
INVARIANT
  TypeOK
PROPERTY
  Converges
CHECK_DEADLOCK FALSE
