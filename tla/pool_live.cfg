SPECIFICATION FairSpec
CONSTANTS
    Workers = {w1, w2}
    Fds = {f1, f2}
    NoFd = NoFd
    MaxPending = 2
    SpuriousWakeups = TRUE
PROPERTIES QueuedTaken PingAnswered IdleClosed
