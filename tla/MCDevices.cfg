SPECIFICATION Spec
CONSTANTS
    c0 = c0
    c1 = c1
    CPU = {c0, c1}
    Hart0 = c0
    None = None
    Lock = {"cons", "uart", "pr", "tickslock"}
    Plans <- MCPlans
    Key = {"x", "return", "eof", "bs", "kill", "dump", "nul"}
    OutChar = {"a", "b"}
    INPUT_BUF_SIZE = 2
    UART_TX_BUF_SIZE = 2
    UINT = 4
    First = 3
    MaxArg = 2
INVARIANTS
    InterruptsOff
    NobodyStuck
PROPERTIES
    TtySpec
    TxFifo
