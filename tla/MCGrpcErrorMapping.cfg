CONSTANTS
    None = None
    PartsPerSecond = 10
    MaxErrorDetails = 3
    MaxRetryAfter = 20
    Details <- MCDetails
SPECIFICATION MappingSpec
CHECK_DEADLOCK FALSE
INVARIANTS
    RetryOnlyUndecided
    RetryDelayIsTheServers
    LimitsHaveTheirError
