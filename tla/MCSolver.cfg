SPECIFICATION Spec
CONSTANTS
    N = 3
    MaxBatch = 3
    Base = 10
    DigitSet = {0, 2, 8, 9}
    Moduli <- ModuliDef
    MinLen <- MinLenDef
    Seed = 5
    KeySize = 16
    HashSize = 2
    MaxStream = 5
INVARIANTS
    BuffersSound
    AnswersComplete
    AnswersSound
CHECK_DEADLOCK FALSE
