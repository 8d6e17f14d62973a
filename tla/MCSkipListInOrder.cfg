SPECIFICATION RelaxedSpec
CONSTANTS
    MaxKey = 3
    MaxHeight = 2
    Writer = w
    Readers = {r1}
    ProgramOrder = TRUE
INVARIANTS
    FullyInitialized
    SeenChains
PROPERTY SeenAnswers
