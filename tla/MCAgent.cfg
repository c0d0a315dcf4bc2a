CONSTANTS
    Tasks = {t1, t2, t3}
    MaxSteps = 3
    MaxRetries = 2
    None = None
SPECIFICATION FairSpec
CHECK_DEADLOCK FALSE
INVARIANTS
    TypeOK
    ProviderSeesPairedCalls
    ResultsAreServers
    ReportComplete
PROPERTIES
    FailuresStayLocal
    RunEventuallyEnds
