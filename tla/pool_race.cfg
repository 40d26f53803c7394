SPECIFICATION Spec
CONSTANTS
    Workers = {w1}
    Fds = {f1, f2}
    NoFd = NoFd
    MaxPending = 1
    SpuriousWakeups = FALSE
INVARIANT NeverTakesNothing
