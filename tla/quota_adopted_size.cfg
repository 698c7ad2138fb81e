SPECIFICATION Spec
CONSTANTS
  Ws = {"w1", "w2"}
  Kept = {"o"}
  Resources <- MCResources
  ImageDefault = 1
  DefaultHome = 2
  Home <- MCHome
  KeptSize <- MCKeptSize
  Policies <- MCThreeStored
  CreatePaused = {FALSE}
  Scheduled = {}
  MaxPauses = 0
  MaxResumes = 0
  MaxToggles = 0
INVARIANTS
  VolumesWithinQuota
CHECK_DEADLOCK FALSE
