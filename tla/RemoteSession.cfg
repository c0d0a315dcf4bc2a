CONSTANTS
    Callers = {c1, c2}
    Keys = {k1, k2, k3}
    Results = {r1, r2}
    None = None
SPECIFICATION FairSpec
CHECK_DEADLOCK FALSE
INVARIANTS
    TypeOK
    TerminalIsServers
    RequestsInOrder
    EndMissedOnlyIfLost
    OutcomesAreTrue
PROPERTIES
    NoLateRequest
    AbortIsIdempotent
    ImplementsTaskOutcome
    CallsEnd
