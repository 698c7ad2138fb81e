SPECIFICATION FairSpec
CONSTANTS
  ScanHorizon = 8
  Sched <- MCNone
  Kinds = {"Deployment"}
  CoherentCache = TRUE
  StartPaused = {FALSE}
  MaxClock = 0
  MaxToggles = 0
  MaxIdle = 0
  MaxEdits = 1
  MaxOverrides = 1
  MaxReloads = 2
  MaxSwitches = 0
  MaxVerdicts = 0
  MaxPodFailures = 0
  MaxFaults = 0
PROPERTY
  ReloadIsHonoured
CHECK_DEADLOCK FALSE
