SPECIFICATION TenancySpec
CONSTANTS
    Tenants = {w1, w2}
    MaxEvents = 1
INVARIANT OldHomesSafe
PROPERTIES Reclaimed Placed
CHECK_DEADLOCK FALSE
