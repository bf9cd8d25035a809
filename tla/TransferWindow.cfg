CONSTANTS
    NDevs = 2
    QpsPerConn = 2
    SplitDataOnQps = FALSE
    Align = 2
    NetMaxRequests = 2
    MaxRecvs = 2
    FlushEnabled = TRUE
    Receives <- MixedReceives
    SendSizes = {5}
    MaxOps = 17
CONSTRAINT LongRun
SPECIFICATION MCSpec
INVARIANTS ImmMatchesRecv ReceiverReady EventsExact PoolSuffices QueuesFit
