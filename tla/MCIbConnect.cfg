CONSTANTS
    SockBuf = 3
    RefusedRetries = 3
    TimedOutRetries = 3
    MaxBadConnects = 4
    MaxStrays = 2
    StrayKinds = {"badmagic", "hangup", "silent"}
    MetaSize = 2
    ReadySize = 2
    SendMtu = 3
    RecvMtu = 5
    SendEce = TRUE
    RecvEce = TRUE
    Failures = {"start", "connect", "link", "rts", "accept"}
    Deaths = {"send", "recv"}
SPECIFICATION MCFairSpec
INVARIANTS StreamsInStep ReturnedCommUsable
PROPERTIES BothConnect DeathNoticed
