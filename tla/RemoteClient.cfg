CONSTANTS
    Callers = {c1, c2}
    Keys = {k1, k2, k3, k4, k5}
    Tasks = {t1, t2}
    None = None
SPECIFICATION FairSpec
CHECK_DEADLOCK FALSE
INVARIANTS
    TypeOK
    OneRunPerClient
    RunLeakedOnlyByFailure
    TaskLostOnlyByFailure
    TransportShutLast
    AcloseReturnsAfterCleanup
PROPERTIES
    ClosedIsFinal
    CallsEnd
