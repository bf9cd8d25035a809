CONSTANTS
    a = a
    b = b
    Comms = {a}
    ReturnAsyncEvents = TRUE
    ConnectMayFail = TRUE
    DeviceMayFail = FALSE
    MaxRequests = 1
SPECIFICATION Spec
CHECK_DEADLOCK FALSE
INVARIANT NoUseAfterFree
