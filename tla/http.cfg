SPECIFICATION MCSpec
CONSTANTS
    MaxConnection = 2
    MaxFd = 2
    MaxClients = 3
    MaxPending = 2
    MaxRedirection = 2
    MaxFetches = 2
    Request = 2
    Page = 4
    Buffer = 3
INVARIANTS OneAtATime FetchReleases FetchIsPrefix FailsClean
CHECK_DEADLOCK FALSE
