SPECIFICATION Spec
CONSTANTS
    MaxJobs = 3
    PerLevel = 3
    Levels = 2
    MaxBoosts = 1
    Algorithms = {"MLFQ"}
    Crowded = FALSE
INVARIANT RunsByPriority
CHECK_DEADLOCK FALSE
