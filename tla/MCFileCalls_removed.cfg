CONSTANTS
    p1 = p1
    p2 = p2
    i1 = i1
    i2 = i2
    i3 = i3
    f1 = f1
    f2 = f2
    d1 = d1
    d2 = d2
    Proc = {p1, p2}
    Calls <- RemoveCalls
    Boot = p1
    Inum = {i1, i2, i3}
    ROOTINO = i1
    Name = {"a", "b"}
    Fd = {d1, d2}
    File = {f1, f2}
    NINODE = 3
    None = None
    RemoveInUse = TRUE
    Regular = {i2, i3}
    NBLOCK = 4
    BSIZE = 2
    NDIRECT = 1
    MAXOPBLOCKS = 6
    UINT = 16
    Reads = {3}
    Writes = {5}
SPECIFICATION SpecBoth
VIEW View
SYMMETRY Symmetry
CHECK_DEADLOCK FALSE
INVARIANT NoPanic
