SPECIFICATION Spec
CONSTANTS
    Tables = {1, 2}
    MaxLevel = 1
    MaxAdds = 3
    MaxRewrites = 2
    MaxCrashes = 1
INVARIANTS
    TypeOK
    MapsAgree
    KnownIsRecorded
PROPERTY RewriteLosesNothing
CHECK_DEADLOCK FALSE
