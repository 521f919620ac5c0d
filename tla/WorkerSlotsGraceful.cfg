SPECIFICATION Spec
CONSTANTS
    MaxWorkers = 2
    Main = main
    None = None
    Win32Builds = {FALSE}
INVARIANT GracefulWaits
CHECK_DEADLOCK FALSE
