SPECIFICATION UserSpec
CONSTANTS
    NUM_CHILDREN = 3
    NUM_LOOPS = 2
    RingPipeSize = 2
    MaxFaults = 1
    Proc = {0, 1, 2, 3, 4, 5}
    Names <- MCNames
    Loops = 3
    LineLen = 3
    NFILE = 4
    NOFILE = 5
    NPIPE = 2
    PIPESIZE = 1
    MAXARGS = 3
    Scripts <- MCScripts
CHECK_DEADLOCK FALSE
INVARIANTS TurnsRight RefsExact
PROPERTIES AllEnd ShellReady
