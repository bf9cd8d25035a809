CONSTANTS
    a = a
    b = b
    Comms = {a, b}
    ReturnAsyncEvents = TRUE
    ConnectMayFail = TRUE
    DeviceMayFail = TRUE
    MaxRequests = 2
SPECIFICATION FairSpec
CHECK_DEADLOCK FALSE
INVARIANTS AsyncInv NoUseAfterClose
PROPERTIES QpErrorReported
