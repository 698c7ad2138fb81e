SPECIFICATION Spec
CONSTANTS
  ScanHorizon = 8
  Sched <- MCDaily
  Kinds = {"Deployment"}
  CoherentCache = TRUE
  StartPaused = {FALSE}
  MaxClock = 6
  MaxToggles = 0
  MaxIdle = 1
  MaxEdits = 0
  MaxOverrides = 0
  MaxReloads = 0
  MaxSwitches = 0
  MaxVerdicts = 1
  MaxPodFailures = 0
  MaxFaults = 0
INVARIANT
  IdlePauseFreesCompute
PROPERTY
  DenialStopsNewCompute
CHECK_DEADLOCK FALSE
