CONSTANTS
    AddrMax = 5
    InputMax = 4
    NoRange = NoRange
SPECIFICATION Spec
INVARIANT TypeOK
INVARIANT Coalesced
PROPERTY InsertReturns
PROPERTY AbsSpec
