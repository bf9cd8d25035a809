CONSTANTS
    NDevs = 2
    QpsPerConn = 1
    SplitDataOnQps = TRUE
    Align = 2
    NetMaxRequests = 1
    MaxRecvs = 2
    FlushEnabled = TRUE
    Receives <- MixedReceives
    SendSizes = {0, 5}
    MaxOps = 3
SPECIFICATION MCFairSpec
INVARIANT DataComplete
PROPERTIES ImplementsChannel ImplementsCtsFifo EverythingCompletes
