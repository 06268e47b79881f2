CONSTANTS
    p1 = p1
    p2 = p2
    Proc = {p1, p2}
    Creator = p1
    None = None
    Intr = Intr
    Echo = Echo
    Byte = {0, 1}
    PIPESIZE = 2
    UINT = 4
    MaxN = 2
    Key = {"x"}
    INPUT_BUF_SIZE = 2
    MaxRead = 2
    UART_TX_BUF_SIZE = 2
    UINT64 = 4
    MaxWrite = 2
    LIMIT = 8
    MORECORE = 2
    MaxUnits = 3
    NPAGE = 5
    PGSIZE = 2
    Kind <- KindOf
    Nul = {1, 5}
    MAX_PAGES = 2
    MaskSize = 1
    BitmapSize = 2
    Counts = {0, 3}
    Lengths = {0, 3}
SPECIFICATION SpecAll
CHECK_DEADLOCK FALSE
INVARIANT OnlyMask
