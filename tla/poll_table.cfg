SPECIFICATION Spec
CONSTANTS
    MaxConnection = 3
    MaxFd = 3
    MaxClients = 4
    MaxPending = 2
INVARIANTS TypeOK TableMatches
PROPERTIES LeavesByClosing ReportedAreServed
CHECK_DEADLOCK FALSE
