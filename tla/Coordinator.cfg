SPECIFICATION CoordinatorSpec
CONSTANTS
    MaxWorkers = 3
    Main = main
    Workers = {w1}
    None = None
    Win32Builds = {TRUE, FALSE}
INVARIANT SlotOwned
INVARIANT NoPhantomBusy
PROPERTY DestroyReturns
INVARIANT CoordinatorSound
PROPERTY JobsRun
CHECK_DEADLOCK FALSE
