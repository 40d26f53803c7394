SPECIFICATION FairSpec
CONSTANTS
    InitialSize = 2
    MaxFd = 4
    MaxClients = 2
    MaxConns = 3
    MaxPending = 1
    AcceptMayFail = FALSE
    OutOfMemory = FALSE
INVARIANTS TypeOK TableMatches AssertionsHold TableFits
PROPERTIES ImplementsWatchSet OnlyIdleClosed IdleClosed
