SPECIFICATION Spec
CONSTANTS
    Break = 7
    Start = 1
    Need = 2
    MaxMem = 5
    MaxRegion = 1
INVARIANT AllUserMemoryFresh
