SPECIFICATION FairSpec
CONSTANTS
    InitialSize = 16
    MaxFd = 3
    MaxClients = 2
    MaxConns = 3
    MaxPending = 1
    AcceptMayFail = FALSE
    OutOfMemory = FALSE
PROPERTY IdleClosed
