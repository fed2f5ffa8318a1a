CONSTANTS
    Threads <- MCThreads
    Addrs <- MCAddrs
    Unmapped = {2}
    MaxSize = 2
    SyncAddrs <- MCSyncAddrs
    SyncKinds = {"BARRIER", "CREATE"}
    Cap = 2
    EidMax = 3
    MarkerPeriod = 2
    MaxPrims = 6
    Undef = Undef
    NoTID = NoTID
SPECIFICATION Spec
INVARIANT OnlyCurrentThreadAccumulates
INVARIANT ForeignReadsRecorded
INVARIANT NoDuplicateEdges
INVARIANT AggregateEidsContiguous
INVARIANT CompressionCap
INVARIANT PthreadSummaryConsistent
CHECK_DEADLOCK FALSE
