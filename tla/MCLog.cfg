SPECIFICATION Spec
CONSTANTS
    Proc = {p1, p2}
    Block = {b1, b2, b3, b4}
    Val = {v1, v2}
    NoVal = NoVal
    MAXOPBLOCKS = 2
    LOGSIZE = 4
    nlog = 4
    OpBlocks = 2
    MaxCrash = 2
SYMMETRY LogSymmetry
INVARIANTS
    ChangesKept
    CommitExcludesCalls
    ReservationSuffices
PROPERTIES
    AtomicSpec
