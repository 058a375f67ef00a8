SPECIFICATION Spec
CONSTANTS
    MaxBlocks = 4
    MaxId = 6
INVARIANTS
    UsesItsBlock
    InsertsInPlace
PROPERTIES
    CallsEnd
    ImplementsBlockSet
