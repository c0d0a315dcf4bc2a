CONSTANTS
    None = None
    c1 = c1
    c2 = c2
    Calls = {c1}
    PartsPerSecond = 1
    MaxErrorDetails = 2
    MaxRetryAfter = 3
    MaxAttempts = 4
    InitialBackoff = 1
    MaxBackoff = 2
    Multiplier = 4
    OwnsChannel = FALSE
    ServerErrors <- MCServerErrors
SPECIFICATION FairSpec
CHECK_DEADLOCK FALSE
INVARIANT
    BoundedWaiting
PROPERTY
    CallsEnd
