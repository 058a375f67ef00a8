SPECIFICATION Spec
CONSTANTS
    v1 = v1
    v2 = v2
    BlockSize = 1
    MaxBlocks = 3
    MaxId = 3
    Bytes <- FaBytes
    Zero = Zero
    Junk = Junk
    Undef = Undef
    Idle = Idle
    Payloads <- FaPayloads
    ReadSizes <- FaReadSizes
    InitSizes <- FaInitSizes
    Mems <- FaMems
    Eoas <- FaEoas
    MaxAge = 4
    MaxFaults = 1
PROPERTIES
    ReadOnlyUntouched
    CallsReturn
