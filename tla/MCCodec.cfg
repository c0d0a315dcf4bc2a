CONSTANTS
    None = None
    MaxDepth = 2
    MaxItems = 3
    MaxStringBytes = 2
    Values <- MCValues
    Messages <- MCMessages
    Objects <- MCObjects
SPECIFICATION Spec
CHECK_DEADLOCK FALSE
INVARIANTS
    LimitsAgree
    RoundTrip
    DecodedIsAccepted
