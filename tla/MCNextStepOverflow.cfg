CONSTANTS
    MaxRetries = 2
    Days = 3
    TicksPerDay = 2
    MaxOffset = 1
    Texts <- MCTexts
    Payloads <- MCPayloads
    None = None
SPECIFICATION Spec
INVARIANT
    MalformedIsRepaired
