SPECIFICATION Spec
CONSTANTS
    p1 = p1
    p2 = p2
    Proc = {p1, p2}
    NINODES = 3
    Name = {"a", "b"}
    Call <- DirsAndFiles
    MaxLinks = 3
    NIL = NIL
INVARIANTS
    InodesKept
    LinksCounted
    LocksSafe
