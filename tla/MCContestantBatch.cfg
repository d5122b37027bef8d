SPECIFICATION Spec
CONSTANTS
    NULL = NULL
    Pcbs = {p1, p2}
    N = 2
    FillLen = 2
    MaxBatch = 3
    MaxSeg = 4
INVARIANTS
    NoPanic
