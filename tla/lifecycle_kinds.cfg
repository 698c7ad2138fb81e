SPECIFICATION FairSpec
CONSTANTS
  ScanHorizon = 8
  Sched <- MCNone
  Kinds = {"Deployment", "Pod", "VM"}
  CoherentCache = TRUE
  StartPaused = {TRUE, FALSE}
  MaxClock = 0
  MaxToggles = 1
  MaxIdle = 1
  MaxEdits = 0
  MaxOverrides = 0
  MaxReloads = 0
  MaxSwitches = 1
  MaxVerdicts = 1
  MaxPodFailures = 1
  MaxFaults = 0
PROPERTY
  Converges
CHECK_DEADLOCK FALSE
