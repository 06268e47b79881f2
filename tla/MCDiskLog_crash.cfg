CONSTANTS
    b1 = b1
    b2 = b2
    b3 = b3
    p1 = p1
    p2 = p2
    Proc = {p1, p2}
    Block = {b1, b2, b3}
    NoBuf = NoBuf
    MAXOPBLOCKS = 2
    LOGSIZE = 4
    NLOG = 4
    OpBlocks = 1
    MaxOp = 3
    MaxCrash = 2
SPECIFICATION FairSpec
INVARIANTS Durable NoPanic
PROPERTIES CrashAtomic Admitted
