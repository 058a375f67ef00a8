SPECIFICATION Spec
CONSTANTS
    A = A
    B = B
    commSize = 5
    numGroups = 2
    ioMode = "PMPIO_WRITE"
    Batons <- TwoBatons
    Program <- Interleaved
    MayFail = TRUE
INVARIANTS
    OneHolderPerGroup
    CreatedByFirst
    ErrorStopsGroup
PROPERTY
    AllFinish
