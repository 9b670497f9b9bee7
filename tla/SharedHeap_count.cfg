SPECIFICATION Spec
CONSTANTS
    Blocks = {b1, b2, b3, b4, b5}
    Null = Null
    Items = {x, y}
    MaxItems = 2
    Lines <- SomeLines
    MaxChain = 2
INVARIANT CountRefused
SYMMETRY BlockSymmetry
\* parsePacket may end the program, and both threads wait where each of them needs a sixth block.
CHECK_DEADLOCK FALSE
