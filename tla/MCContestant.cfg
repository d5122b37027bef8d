SPECIFICATION FairSpec
CONSTANTS
    NULL = NULL
    Pcbs = {p1, p2, p3}
    N = 2
    FillLen = 2
    MaxBatch = 3
    MaxSeg = 3
INVARIANTS
    PoolSound
    NoPanic
    AnswersOnLiveConn
    WindowIsolated
PROPERTIES
    Reconnects
