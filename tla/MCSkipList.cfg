SPECIFICATION FairSpec
CONSTANTS
    MaxKey = 3
    MaxHeight = 3
    Writer = w
    Readers = {r1}
INVARIANTS
    TypeOK
    SortedChains
    WalkOnLinkedNodes
    SpliceAtPredecessor
PROPERTIES
    Linearizable
    CallsReturn
