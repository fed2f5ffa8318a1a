CONSTANTS
    EventsPerMessage = 2
    AddrSets = {{}, {0}}
    SyncTypes = {1, 5}
    MaxLogged = 5
SPECIFICATION Spec
CHECK_DEADLOCK FALSE
INVARIANT ReadRangesEncoded
