SPECIFICATION Spec
CONSTANTS
  ScanHorizon = 8
  Sched <- MCNone
  Kinds = {"Deployment"}
  CoherentCache = FALSE
  StartPaused = {FALSE}
  MaxClock = 0
  MaxToggles = 0
  MaxIdle = 0
  MaxEdits = 2
  MaxOverrides = 0
  MaxReloads = 1
  MaxSwitches = 0
  MaxVerdicts = 0
  MaxPodFailures = 0
  MaxFaults = 0
PROPERTY
  ReloadIsOneShot
CHECK_DEADLOCK FALSE
