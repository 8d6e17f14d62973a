SPECIFICATION RelaxedSpec
CONSTANTS
    MaxKey = 2
    MaxHeight = 2
    Writer = w
    Readers = {r1}
    ProgramOrder = FALSE
INVARIANT FullyInitialized
