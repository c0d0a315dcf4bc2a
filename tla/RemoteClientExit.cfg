CONSTANTS
    Callers = {c1, c2}
    Keys = {k1, k2, k3}
    Tasks = {t1}
    None = None
SPECIFICATION Spec
CHECK_DEADLOCK FALSE
INVARIANTS
    ContextExitCloses
