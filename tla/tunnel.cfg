SPECIFICATION Spec
CONSTANTS
  NIndices = 2
  MaxSent = 2
  MaxPastes = 2
  MaxToggles = 2
  MaxPending = 1
INVARIANTS NothingLost RefusalsAnswered
PROPERTIES ImplementsGate Teardown
CHECK_DEADLOCK FALSE
