SPECIFICATION Spec
CONSTANTS
    Proc = {p1, p2, p3}
    NUM = 8
    IDX = 8
    Val = {v1, v2}
    NIL = NIL
SYMMETRY VirtioSymmetry
INVARIANTS
    QueueSound
    NothingMissed
