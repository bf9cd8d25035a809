CONSTANTS
    a = a
    b = b
    m1 = m1
    m2 = m2
    m3 = m3
    Comms = {a, b}
    Handles = {m1, m2, m3}
    NDevs = 2
    Ranges <- OverlappingRanges
    MinCapacity = 1
    Failures = {"alloc_pd", "create_cq", "destroy_cq", "dealloc_pd", "realloc", "reg_mr", "dereg_mr"}
    MaxFailures = 2
CONSTRAINT InTurn
SYMMETRY Symmetric
SPECIFICATION Spec
INVARIANTS DeviceInv PdRefsExact PdUsable RegistrationValid CacheExact
