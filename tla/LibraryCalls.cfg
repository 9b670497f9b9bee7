SPECIFICATION Spec
CONSTANTS
    B = 8
    ListNumbers <- Boundaries
    MaxLen = 3
    D = 3
    RipeSize = 3
    ChecksumSize = 1
    TextSize = 19
    Ripes <- AllRipes
    Streams <- SomeStreams
    Keys <- AllKeys
    Inputs <- AllInputs
    Word = 1073741824
    Big = 999000
    Small = 20000
    MaxDigits = 10
    Numbers <- SomeNumbers
    Sizes <- SomeSizes
    Ints <- SomeInts
    Radices <- SomeRadices
    Data <- SomeData
    HexTexts <- SomeHexTexts
    Arrays <- SomeArrays
    Delimiters <- SomeDelimiters
    LongSize = 2
    Halves <- SomeHalves
    Hashes <- SomeHashes
    CountedWords <- SomeWords
    Initial = 4
    Growth = 3
    TokenCounts <- SomeCounts
    SeedBits = 9
    IntBits = 5
    MULTIPLIER = 109
    ADDEND = 11
    INVERSE_MULTIPLIER = 357
    HighBits = 2
    LowBits = 3
    FloatBits = 3
    SlimeBound = 10
    Seeds <- AllSeeds
    Bounds <- AllBounds
    NN = 4
    MM = 2
    WordBits = 3
    LowerBits = 1
    MATRIX_A = 5
    InitMultiplier = 5
    KeyMultipliers <- SomeKeyMultipliers
    ShiftsMasks <- SomeShiftsMasks
    DefaultSeed = 3
    ArraySeed = 6
    TwisterSeeds = {0, 6}
    TwisterKeys <- SomeKeys
    MaxDrawn = 9
    MaxSeeded = 2
    ShiftBits = 4
    Shifts <- SomeShifts
    ArraySizes <- SomeArraySizes
INVARIANTS
    TypeOK
    ListReadsBack
    BuffersInBounds
    NothingLost
    AddressTellsRipe
    TextReadsBack
    ZerosCounted
    SplitFreesAll
    BoundedFair
    DrawsTold
    TableAlive
    ShufflePermutes
PROPERTIES
    EveryCallReturns
    ImplementsStream
    SwapsKeep
\* One call, then the end.
CHECK_DEADLOCK FALSE
