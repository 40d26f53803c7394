SPECIFICATION Spec
CONSTANTS
    MaxConnection = 3
    MaxFd = 2
    MaxClients = 2
    MaxPending = 1
INVARIANT NeverBlocksInRecv
CHECK_DEADLOCK FALSE
