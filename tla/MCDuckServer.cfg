SPECIFICATION DSpec
CONSTANTS
    BufSize = 4
    Vals = {0, 1}
    Digests = {1}
    Word = 16
    KiB = 4
    MaxTime = 2
    MaxJudges = 4
    AnyRequests <- Requests
    SeqNums = 1
    Rounds = 3
    Cap = 3
    MaxDups = 2
INVARIANTS
    ResultIsCurrent
    JudgedOnce
    ToldRight
PROPERTIES
    InputsKept
    ClientFinishes
\* The client stops after its last round.
CHECK_DEADLOCK FALSE
