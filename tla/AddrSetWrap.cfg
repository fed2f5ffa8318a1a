CONSTANTS
    AddrMax = 5
    InputMax = 5
    NoRange = NoRange
SPECIFICATION Spec
PROPERTY AbsSpec
