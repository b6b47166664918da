SPECIFICATION ReadWriteSpec
CONSTANTS
    Writer = {w1, w2}
    Reader = {r1}
    Byte = {x, y}
    PIPESIZE = 2
    UINT = 4
    MaxCount = 3
    NIL = NIL
    p1 = p1
    p2 = p2
    f1 = f1
    f2 = f2
    f3 = f3
    FsProc = {p1, p2}
    File = {f1, f2, f3}
    FSSIZE = 16
    NINODES = 3
    LOGSIZE = 1
    IPB = 1
    BPB = 100
    BSIZE = 2
    NDIRECT = 2
    MAXOPBLOCKS = 6
SYMMETRY PipeSymmetry
INVARIANTS
    NoLostWakeup
    FreedOnce
    BlocksOwned
    ContentsRight
    LogComplete
PROPERTIES
    FifoSpec
