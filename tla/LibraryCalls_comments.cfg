SPECIFICATION Spec
CONSTANTS
    B = 8
    ListNumbers = {}
    MaxLen = 3
    D = 3
    RipeSize = 3
    ChecksumSize = 1
    TextSize = 19
    Ripes = {}
    Streams = {}
    Keys = {}
    Inputs = {}
    Word = 1073741824
    Big = 999000
    Small = 20000
    MaxDigits = 10
    Numbers = {}
    Sizes = {}
    Ints <- SomeInts
    Radices <- SomeRadices
    Data = {}
    HexTexts = {}
    Arrays <- SomeArrays
    Delimiters <- SomeDelimiters
    LongSize = 2
    Halves <- SomeHalves
    Hashes = {}
    CountedWords = {}
    Initial = 4
    Growth = 3
    TokenCounts = {}
    SeedBits = 9
    IntBits = 5
    MULTIPLIER = 109
    ADDEND = 11
    INVERSE_MULTIPLIER = 357
    HighBits = 2
    LowBits = 3
    FloatBits = 3
    SlimeBound = 10
    Seeds = {}
    Bounds = {}
    NN = 4
    MM = 2
    WordBits = 3
    LowerBits = 1
    MATRIX_A = 5
    InitMultiplier = 5
    KeyMultipliers <- SomeKeyMultipliers
    ShiftsMasks <- SomeShiftsMasks
    DefaultSeed = 3
    ArraySeed = 6
    TwisterSeeds = {}
    TwisterKeys = {}
    MaxDrawn = 9
    MaxSeeded = 2
    ShiftBits = 4
    Shifts <- SomeShifts
    ArraySizes = {}
INVARIANT
    TextsAsCommented
\* One call, then the end.
CHECK_DEADLOCK FALSE
