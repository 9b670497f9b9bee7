SPECIFICATION Spec
CONSTANTS
    Handles = {h1, h2}
    h1 = h1
    h2 = h2
    Indices = {0, 3, 5}
    NewCalls <- DefaultCall
    WordBits = 2
    DefaultLength = 2
    ReallocMayFail = FALSE
    NULL = NULL
SYMMETRY Symmetry
INVARIANTS
    AssertionsHold
