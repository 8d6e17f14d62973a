SPECIFICATION ReaderSpec
CONSTANTS
    k1 = k1
    k2 = k2
    k3 = k3
    k4 = k4
    c1 = c1
    c2 = c2
    Keys <- MCKeys
    Hash <- MCHash
    Clients <- MCClients
    NumShards = 2
    Capacity = 2
    MaxNodes = 3
    RefModulus = 2
SYMMETRY Symmetry
INVARIANTS
    TypeOK
    IndexMatchesList
    NothingDeletedInUse
PROPERTY EvictsLeastRecent
