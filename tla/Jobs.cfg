SPECIFICATION JobsSpec
CONSTANTS
    Requests = {1, 2, 3}
    FailureThreshold = 2
    SuccessThreshold = 2
    HalfOpenMax = 2
    Cooldown = 2
    MaxFailures = 3
    Manual = TRUE
    Lossy = TRUE
    RingSize = 3
    Windows = {0, 1, 2}
    MaxTime = 4
    MaxRecords = 7
    Timeout = 2
    WindowSize = 3
    WindowTime = 2
    MaxCalls = 2
    MaxCount = 3
    MaxJobs = 4
    PerLevel = 2
    Levels = 2
    MaxBoosts = 1
    Algorithms = {"MLFQ", "LOTTERY"}
    Crowded = FALSE
    RetryJobs = {1, 2}
    Capacity = 3
    DeadLetterMax = 3
    MaxRetries = {0, 2}
    Bases = {3}
    MaxDelay = 10
    MaxJitter = 4
    Word = 256
    Second = 5
    RetryTime = 3
INVARIANT TypeOK
INVARIANT CountersBelowThreshold
PROPERTY ImplementsFSM
INVARIANT CountsWindow
PROPERTY InfraImplementsFSM
PROPERTY BreakersRecover
INVARIANT GraphSound
INVARIANT RetriesSound
INVARIANT QueuedOnce
INVARIANT PacedCalls
INVARIANT FiresOnSchedule
PROPERTY ImplementsTimers
CHECK_DEADLOCK FALSE
