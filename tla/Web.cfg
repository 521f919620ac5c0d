SPECIFICATION Spec
CONSTANTS
    Workers = {w1, w2}
    Loners = {w1}
    None = None
INVARIANT RingIsFifo
INVARIANT QuietAnswers
PROPERTY AllAnswered
PROPERTY ServerStops
CHECK_DEADLOCK FALSE
