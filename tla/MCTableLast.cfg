SPECIFICATION TableSpec
CONSTANTS
    Keys <- MCKeys
    HashOf <- MCHash
    ShiftRight = 8
    ShiftLeft = 8
    BitsPerKey = 3
    MinBits = 3
    ByteBits = 4
    ByteModulus = 8
    BlockSize = 3
    BufferSize = 2
    MaxFailures = 0
    EarlierTables <- MCFresh
INVARIANT LastBlockIsIndexed
CHECK_DEADLOCK FALSE
