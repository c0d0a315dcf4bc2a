CONSTANTS
    Tasks = {t1, t2}
    MaxSteps = 2
    MaxRetries = 2
    None = None
SPECIFICATION Spec
CHECK_DEADLOCK FALSE
INVARIANT
    ResultsArePrinted
