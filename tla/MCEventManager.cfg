CONSTANTS
    MaxEvents = 3
    MaxObs = 1
    MaxCleanups = 1
    NotRun = NotRun
SPECIFICATION Spec
CHECK_DEADLOCK FALSE
INVARIANT StreamConserved
INVARIANT ObserversReceiveInOrder
INVARIANT CleanupSeesAll
