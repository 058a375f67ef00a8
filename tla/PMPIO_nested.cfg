SPECIFICATION Spec
CONSTANTS
    A = A
    B = B
    commSize = 2
    numGroups = 1
    ioMode = "PMPIO_WRITE"
    Batons <- TwoBatons
    Program <- Nested
    MayFail = FALSE
PROPERTY
    AllFinish
CHECK_DEADLOCK FALSE
