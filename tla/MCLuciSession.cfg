CONSTANTS
    Services = {s1, s2}
    Refresh = refresh
    None = None
    MaxRetry = 1
    MaxEvents = 3
SPECIFICATION Spec
CHECK_DEADLOCK FALSE
INVARIANTS
    TypeOK
PROPERTIES
    OneLoginSuffices
    RejectedOnce
    Recovers
