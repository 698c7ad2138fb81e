SPECIFICATION Spec
CONSTANTS
  Ws = {"w1", "w2"}
  Kept = {}
  Resources <- MCResources
  ImageDefault = 1
  DefaultHome = 2
  Home <- MCHome
  KeptSize <- MCKeptSize
  Policies <- MCOneRunning
  CreatePaused = {TRUE, FALSE}
  Scheduled = {"w1"}
  MaxPauses = 0
  MaxResumes = 0
  MaxToggles = 0
INVARIANTS
  DesktopsWithinQuota
CHECK_DEADLOCK FALSE
