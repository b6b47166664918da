SPECIFICATION Spec
CONSTANTS
    NPROC = 3
    CPU = {c0, c1}
    MaxPid = 3
    KillPids = {2}
SYMMETRY CPUSymmetry
INVARIANTS
    TypeOK
    RunsOnOneCPU
    StackInUse
    LockDiscipline
    NoOrphans
    NoLostExit
PROPERTIES
    AllocClean
