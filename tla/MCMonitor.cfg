CONSTANTS
    p1 = p1
    p2 = p2
    Pids = {p1, p2}
    Setups <- Setups5
SPECIFICATION UcommdFairSpec
INVARIANTS CleanExit OnlyTornHeadersKill OnlyAsked
PROPERTIES LiveFound DeadForgotten
CHECK_DEADLOCK FALSE
