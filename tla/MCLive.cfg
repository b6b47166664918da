SPECIFICATION FairSpec
CONSTANTS
    NPROC = 3
    CPU = {c0}
    MaxPid = 3
    KillPids = {}
    FsProc = {p1, p2, p3}
    Block = {b1, b2}
    Val = {v1}
    NoVal = NoVal
    MAXOPBLOCKS = 2
    LOGSIZE = 4
    nlog = 4
    OpBlocks = 1
    MaxCrash = 2
PROPERTIES
    RunnableRuns
    InitReaps
    SleeperWoken
    RecoveryCompletes
