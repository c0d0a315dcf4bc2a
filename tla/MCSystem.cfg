CONSTANTS
    Callers = {c1}
    Keys = {k1, k2, k3}
    Tasks = {t1}
    None = None
    Task = t1
    SessionCallers = {s1, s2}
    SessionKeys = {l1, l2}
    Results = {r1}
SPECIFICATION SystemSpec
SYMMETRY Symmetry
CHECK_DEADLOCK FALSE
PROPERTIES
    ImplementsSession
    NoRequestToClosedRun
