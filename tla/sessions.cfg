SPECIFICATION Spec
CONSTANTS
  Workspaces = {w1}
  Remotes = {r1}
  Sids = {s1}
  Tunnels = {t1, t2}
  MaxTargets = 1
  MaxFaults = 1
  MaxPauses = 1
INVARIANT RowHasSecret
PROPERTIES EndsRightly PauseRespectsResume OrphansAreClosed EndedStopsResolving
CHECK_DEADLOCK FALSE
