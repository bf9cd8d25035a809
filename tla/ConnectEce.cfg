CONSTANTS
    SockBuf = 3
    RefusedRetries = 3
    TimedOutRetries = 3
    MaxBadConnects = 0
    MaxStrays = 0
    StrayKinds = {}
    MetaSize = 2
    ReadySize = 2
    SendMtu = 1
    RecvMtu = 2
    SendEce = FALSE
    RecvEce = TRUE
    Failures = {}
    Deaths = {}
SPECIFICATION MCSpec
INVARIANT EceMatched
