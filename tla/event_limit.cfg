SPECIFICATION FairSpec
CONSTANTS
    InitialSize = 2
    MaxFd = 2
    MaxClients = 2
    MaxConns = 2
    MaxPending = 1
    AcceptMayFail = TRUE
    OutOfMemory = TRUE
INVARIANT NeverBlocksInRecv
PROPERTY PingAnswered
