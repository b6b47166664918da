SPECIFICATION MCSpec
CONSTANTS
    Proc = {p1, p2, p3}
    NPAGE = 30
    PGSIZE = 2
    BITS = 2
    MaxSz = 12
    MAXARG = 2
    Growth <- Steps
    Image <- Programs
    Requests = {0, 2, 5}
    HeaderSize = 2
    NALLOC = 4
    HeapEnd = 13
    MAXARGS = 3
    Keys = {"w", " ", "<", "|", ">", "&", ";", "(", ")"}
    MaxLine = 5
SYMMETRY VmSymmetry
INVARIANTS
    MemorySound
    HeapSound
    ParseRight
