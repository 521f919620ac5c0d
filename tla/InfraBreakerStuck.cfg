SPECIFICATION FairSpec
CONSTANTS
    FailureThreshold = 2
    SuccessThreshold = 3
    HalfOpenMax = 2
    Timeout = 2
    WindowSize = 2
    WindowTime = 2
    MaxCalls = 2
    MaxCount = 3
    Manual = FALSE
PROPERTY Recovers
