SPECIFICATION Spec
CONSTANTS
    NPROC = 2
    CPU = {c0}
    MaxPid = 2
    KillPids = {0, 2}
PROPERTIES
    KillsAProcess
