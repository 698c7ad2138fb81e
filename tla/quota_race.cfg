SPECIFICATION FairSpec
CONSTANTS
  Ws = {"w1", "w2"}
  Kept = {}
  Resources <- MCResources
  ImageDefault = 1
  DefaultHome = 2
  Home <- MCHome
  KeptSize <- MCKeptSize
  Policies <- MCOneRunning
  CreatePaused = {FALSE}
  Scheduled = {}
  MaxPauses = 0
  MaxResumes = 0
  MaxToggles = 0
PROPERTIES
  SomebodyWins
CHECK_DEADLOCK FALSE
