SPECIFICATION LibrariesSpec
CONSTANTS
    SmallUnits = 3
    BlockCount = 2
    MaxUnits = 4
    Memory = 16
    MaxLive = 3
    Align = 4
    MaxRequest = 9
    MaxRequests = 4
    Threads = {t1, t2}
    NoThread = nobody
    Lengths = {1, 2}
    RotateSizes = {0, 2}
    SizeModulus = 16
    MaxCalls = 3
    MaxTime = 1
    MaxFaults = 1
    MaxStarts = 2
    Values32 <- MCValues32
    Values64 <- MCValues64
    Slices <- MCSlices
    MaxPuts = 2
    TableIds <- MCTableIds
    Levels <- MCLevels
    BatchSizes = {1, 2}
    MaxBatches = 2
    DataBits = {0, 7}
    MaxBytes = 39
    NextLengths = {1}
    BlockTypes = {{}, {0}}
    Blocks <- MCBlocks
    DamageMasks <- MCDamage
INVARIANTS
    LibrariesTypeOK
    EveryUnitHasOneOwner
    NodesAreSound
    DescriptorIsTracked
    RotationKeepsFiles
    RoundTrips
    DecodesFirstBatch
    ExtendIsDivision
    ChecksumDecides
PROPERTIES
    WaiterReopens
    AppendReturns
CHECK_DEADLOCK FALSE
