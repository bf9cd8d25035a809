CONSTANTS
    a = a
    b = b
    Comms = {a}
    ReturnAsyncEvents = TRUE
    ConnectMayFail = FALSE
    DeviceMayFail = TRUE
    MaxRequests = 1
SPECIFICATION FairSpec
CHECK_DEADLOCK FALSE
PROPERTY DeviceErrorReported
