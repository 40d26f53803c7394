SPECIFICATION FairSpec
CONSTANTS
    MaxConnection = 3
    MaxFd = 2
    MaxClients = 3
    MaxPending = 1
PROPERTY RequestsReceived
CHECK_DEADLOCK FALSE
