CONSTANTS
    MaxRequests = 3
    MaxRecvs = 2
    Window = 2
    MaxOps = 6
SPECIFICATION MCSpec
INVARIANTS NoLostCts NoOverwrite WindowHolds IndInv
