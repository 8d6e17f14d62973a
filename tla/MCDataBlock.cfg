SPECIFICATION Spec
CONSTANTS
    Keys <- MCKeys
    ByteModulus = 4
    Intervals = {1, 2}
INVARIANTS
    TypeOK
    RestartIndexFollows
    RebuildsWhatWasAdded
PROPERTIES
    IsSortedCursor
    OperationReturns
