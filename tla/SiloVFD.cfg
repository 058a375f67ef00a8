SPECIFICATION Spec
CONSTANTS
    v1 = v1
    v2 = v2
    BlockSize = 2
    MaxBlocks = 2
    MaxId = 2
    Bytes <- MCBytes
    Zero = Zero
    Junk = Junk
    Undef = Undef
    Idle = Idle
    Payloads <- MCPayloads
    ReadSizes <- MCReadSizes
    InitSizes <- MCInitSizes
    Mems <- MCMems
    Eoas <- MCEoas
    MaxAge = 4
    MaxFaults = 0
INVARIANTS
    TypeOK
    Coherent
    CleanBlocksOnDisk
    DescriptorTracked
    CloseIsDurable
    EofIsHighWater
PROPERTIES
    ImplementsFlatFile
