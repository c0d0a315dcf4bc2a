CONSTANTS
    None = None
    c1 = c1
    c2 = c2
    Calls = {c1, c2}
    PartsPerSecond = 1
    MaxErrorDetails = 2
    MaxRetryAfter = 3
    MaxAttempts = 2
    InitialBackoff = 1
    MaxBackoff = 2
    Multiplier = 4
    OwnsChannel = TRUE
    ServerErrors <- MCServerErrors
SYMMETRY CallSymmetry
SPECIFICATION Spec
CHECK_DEADLOCK FALSE
INVARIANTS
    TypeOK
    EffectOnce
    NoAttemptAfterVerdict
PROPERTIES
    ClosingEndsSending
    ImplementsLogicalCall
