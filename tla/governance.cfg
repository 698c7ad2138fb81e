SPECIFICATION FairSpec
CONSTANTS
  Ws = {"w1", "w2"}
  Kept = {"o"}
  Resources <- MCResources
  ImageDefault = 1
  DefaultHome = 2
  Home <- MCHome
  KeptSize <- MCKeptSize
  Policies <- MCPolicies
  CreatePaused = {FALSE}
  Scheduled = {}
  MaxPauses = 1
  MaxResumes = 1
  MaxToggles = 1
INVARIANTS
  GrantedWithinQuota
  HomesWithinQuota
PROPERTIES
  RefusalIsNotFinal
CHECK_DEADLOCK FALSE
