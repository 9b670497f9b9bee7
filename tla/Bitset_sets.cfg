SPECIFICATION Spec
CONSTANTS
    Handles = {h1, h2}
    h1 = h1
    h2 = h2
    Indices = {0, 3, 4, 5, 8}
    NewCalls <- LargeCalls
    WordBits = 2
    DefaultLength = 2
    ReallocMayFail = FALSE
    NULL = NULL
SYMMETRY Symmetry
INVARIANTS
    TypeOK
    InBounds
    AssertionsHold
PROPERTIES
    ImplementsSets
