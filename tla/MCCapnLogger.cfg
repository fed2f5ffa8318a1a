CONSTANTS
    EventsPerMessage = 2
    AddrSets = {{}, {0}}
    SyncTypes = {1, 5}
    MaxLogged = 5
SPECIFICATION Spec
INVARIANT OrphanCountMatches
INVARIANT StreamPreserved
INVARIANT LosslessAtClose
INVARIANT MessagesBounded
CHECK_DEADLOCK FALSE
