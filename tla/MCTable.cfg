SPECIFICATION FairSpec
CONSTANTS
    Keys <- MCKeys
    HashOf <- MCHash
    ShiftRight = 8
    ShiftLeft = 8
    BitsPerKey = 3
    MinBits = 3
    ByteBits = 4
    ByteModulus = 8
    BlockSize = 3
    BufferSize = 2
    MaxFailures = 2
    EarlierTables <- MCShared
INVARIANTS
    ReaderTypeOK
    StreamIsKept
    OffsetsMatchFile
    LookupFinds
    OpenFindsBlocks
    OwnArrayMatches
PROPERTY FinishReturns
CHECK_DEADLOCK FALSE
