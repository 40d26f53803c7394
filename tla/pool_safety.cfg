SPECIFICATION Spec
CONSTANTS
    Workers = {w1, w2, w3}
    Fds = {f1, f2, f3}
    NoFd = NoFd
    MaxPending = 1
    SpuriousWakeups = TRUE
SYMMETRY Symmetry
INVARIANTS TypeOK OwnedOnce WorkConserving
