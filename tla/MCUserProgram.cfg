SPECIFICATION ProgramSpec
CONSTANTS
    Break = 7
    Start = 1
    Need = 2
    MaxMem = 5
    MaxRegion = 1
    TimeLimits = {0, 3}
    Thousand = 2
    Twenty = 2
    ClockMod = 7
    Idle1 = 1
    Sleep1 = 1
    Idle2 = 3
    Sleep2 = 2
INVARIANTS
    FreshMemory
    MarksSound
    VerdictFair
    TimeKept
PROPERTIES
    ProgramStopped
    SleepsSafely
