CONSTANTS
    c1 = c1
    c2 = c2
    Comms = {c1, c2}
    Shapes <- CommShapes
    Sizes = {1048576}
    Ignored <- IgnoredCombos
    Versions = {1}
SPECIFICATION TunerSpec
INVARIANTS FallsBack
CHECK_DEADLOCK FALSE
