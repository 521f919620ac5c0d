SPECIFICATION KeepSpec
CONSTANTS
    Workers = {w1, w2}
    Loners = {w1}
    None = None
INVARIANT KeepAliveAnswers
CHECK_DEADLOCK FALSE
