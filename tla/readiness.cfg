SPECIFICATION MCSpec
CONSTANTS
    MaxConnection = 2
    MaxFd = 3
    MaxClients = 3
    MaxPending = 1
INVARIANTS RecordsAgree SleepsOnlyBlind SslSessionsMatch
PROPERTIES ImplementsWatchSet RequestsReceived SslDisconnectsJustified SslImplementsWatchSet SslRequestsRead
CHECK_DEADLOCK FALSE
