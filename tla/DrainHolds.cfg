SPECIFICATION Spec
CONSTANTS
    c1 = c1 c2 = c2 c3 = c3
    MaxMembers = 3
    Requests = {c1, c2, c3}
    SessionOf <- OneSession
    OverloadThreshold = 1
    FailureThreshold = 2
    SuccessThreshold = 2
    ActivityWindow = 0
    IdleTtl = 3
    Debounce = 2
    MaxDestroyRetries = 2
    Scenarios <- OneDrain
INVARIANTS
    DrainHolds
CHECK_DEADLOCK FALSE
