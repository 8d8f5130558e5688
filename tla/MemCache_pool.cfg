SPECIFICATION Spec
CONSTANTS
    t1 = t1
    t2 = t2
    b1 = b1
    b2 = b2
    NULL = NULL
    Junk = Junk
    Threads <- TwoThreads
    Buffers <- TwoBuffers
    Lists = 2
    ChunkNode = 2
    MaxUnits = 3
    MaxBlocks = 6
    MaxInits = 1
SYMMETRY Symmetry
CHECK_DEADLOCK FALSE
INVARIANTS
    EveryBlockHasOnePlace
    BlocksAreLargeEnough
