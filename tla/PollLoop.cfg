SPECIFICATION FairSpec
CONSTANTS
    Fds = {f1, f2}
    Intervals = {1, 3}
    PollTimeout = 2
    MaxTimers = 2
    MaxTime = 4
    MaxBusy = 1
    MaxReady = 2
INVARIANTS TablesAgree FailuresExplained
PROPERTIES ServiceSpec Punctual
CHECK_DEADLOCK FALSE
