SPECIFICATION MCSpec
CONSTANTS
    MaxFd = 2
    MaxClients = 2
    MaxPending = 2
    MaxLines = 3
    MaxDatagrams = 4
INVARIANTS OneHandlerEach NobodyForgotten SessionInStep DatagramInStep
PROPERTIES BuffersDrain PollingNeverSleeps SessionWaitEnds SessionBothSidesEnd DatagramWaitEnds
CHECK_DEADLOCK FALSE
