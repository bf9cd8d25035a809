CONSTANTS
    t1 = t1
    t2 = t2
    t3 = t3
    Threads = {t1, t2, t3}
    Layouts <- Nodes
    MergeNics = TRUE
    MaxDevsPerNic = 2
    MaxIbDevs = 5
    MayFail = TRUE
    W = 2
    LinkLocalWord = 2
    MappedWord = 1
    MulticastWord = 3
    GidTables <- Tables
    AddrRanges <- Ranges
    GidIndexParams <- Params
    VThreads = {t1, t2}
    VNodes <- Servers
    NumGpus = 8
    NumNics = 4
    c1 = c1
    c2 = c2
    Comms = {c1, c2}
    Shapes <- CommShapes
    Sizes <- AllSizes
    Ignored <- IgnoredCombos
    Versions = {1, 2, 3}
SPECIFICATION MCFairSpec
INVARIANTS DiscoveryInv MergedDevsExact WaitersSeeAll GidFits TopologyExact AnswersFit FallsBackInTurn
PROPERTIES DiscoveredOnce InitReturns
CHECK_DEADLOCK FALSE
