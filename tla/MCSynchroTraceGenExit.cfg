CONSTANTS
    Threads <- MCThreads
    Addrs = {0, 1}
    Unmapped = {}
    MaxSize = 2
    SyncAddrs <- MCSyncAddrs
    SyncKinds = {"BARRIER", "CREATE"}
    Cap = 2
    EidMax = 1
    MarkerPeriod = 2
    MaxPrims = 6
    Undef = Undef
    NoTID = NoTID
SPECIFICATION Spec
INVARIANT TypeOK
INVARIANT AggregateEidsContiguous
PROPERTY AllFlushedEventually
CHECK_DEADLOCK FALSE
