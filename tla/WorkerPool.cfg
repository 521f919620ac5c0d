SPECIFICATION FairSpec
CONSTANTS
    Workers = {w1, w2}
    Main = main
    Capacity = 1
    Tasks = {1, 2, 3, 4}
    Types = {"heavy", "light"}
    NoType = "none"
    TypeOf <- MCTypeOf
    Limits = {1}
    MaxTypes = 3
    None = None
    LateLimits = FALSE
INVARIANT EachTaskOnce
INVARIANT LimitRespected
PROPERTY AcceptedTasksRun
PROPERTY WorkersStop
CHECK_DEADLOCK FALSE
