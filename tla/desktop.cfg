SPECIFICATION FairSpec
CONSTANTS
  None = None
  Registry <- MCRegistry
  Policies <- MCPolicies
  Images <- MCImages
  Templates <- MCTemplates
  Sources <- MCSources
  UserGroups <- MCUserGroups
  Envs <- MCEnvs
  Direct <- OnlyApi
  UserParams <- MCUserParams
  MaxEvents = 2
  MaxCrs = 1
  MaxSessions = 1
INVARIANTS PasswordAgrees RightsAreRecent LocksHold
PROPERTY Served
CHECK_DEADLOCK FALSE
