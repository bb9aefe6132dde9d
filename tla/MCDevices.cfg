\* A thread that sleeps, a corrupted buffer or a walk that is over may be the end.
CHECK_DEADLOCK FALSE
SPECIFICATION DevSpec
CONSTANTS
    CDrivers = {"mychar", "my_wait", "my_wait2", "multi_mem",
        "my_pci2", "any", "my_ioport", "my_ioport2"}
    CThreads = {t1, t2}
    BufSize = 2
    RegsLen = 8
    Bytes = {"a", "b"}
    MaxCount = 2
    MaxTaken = 2
    SThreads = {t1, t2}
    KEY_BUF = 2
    MaxKeys = 3
    BufIds = {"b1", "b2"}
    UintMod = 8
    MapShift = 2
    LongBits = 5
    IntBits = 4
    PageIndices = {0, 1, 6, 21}
    BuffersPerPage = 2
    MaxChanges = 3
SYMMETRY CSymmetry
INVARIANTS BufferSafe CellsSafe PollingSafe WalkRight
