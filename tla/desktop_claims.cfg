SPECIFICATION Spec
CONSTANTS
  None = None
  Registry <- MCRegistry
  Policies <- MCPolicies
  Images <- MCImages
  Templates <- KasmOnly
  Sources <- OneSource
  UserGroups <- MCUserGroups
  Envs <- NoEnvs
  Direct <- MCDirect
  UserParams <- NoParams
  MaxEvents = 3
  MaxCrs = 2
  MaxSessions = 1
INVARIANTS
  ClipboardEnforced
  StricterReading
CHECK_DEADLOCK FALSE
