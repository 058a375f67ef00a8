SPECIFICATION Spec
CONSTANTS
    p1 = p1
    p2 = p2
    p3 = p3
    i1 = i1
    i2 = i2
    a = a
    b = b
    Nil = Nil
    NFiles = 3
    Ptr <- MCPtr
    Inode <- MCInode
    Names <- MCNames
    MaxNested = 1
INVARIANT
    IdsOfOpenFiles
CHECK_DEADLOCK FALSE
