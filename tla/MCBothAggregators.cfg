CONSTANTS
    Threads <- MCThreads
    Addrs = {0, 1}
    Unmapped = {}
    MaxSize = 2
    SyncAddrs <- MCSyncAddrs
    SyncKinds = {"BARRIER", "LOCK"}
    Cap = 2
    EidMax = 3
    MarkerPeriod = 2
    MaxPrims = 6
    Undef = Undef
    NoTID = NoTID
SPECIFICATION Spec
CHECK_DEADLOCK FALSE
INVARIANT AtMostOneAggregatorActive
