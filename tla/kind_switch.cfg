SPECIFICATION Spec
CONSTANTS
  ScanHorizon = 8
  Sched <- MCNone
  Kinds = {"Deployment", "Pod"}
  CoherentCache = TRUE
  StartPaused = {FALSE}
  MaxClock = 0
  MaxToggles = 0
  MaxIdle = 0
  MaxEdits = 0
  MaxOverrides = 0
  MaxReloads = 0
  MaxSwitches = 1
  MaxVerdicts = 0
  MaxPodFailures = 0
  MaxFaults = 0
INVARIANT
  OneDesktop
CHECK_DEADLOCK FALSE
