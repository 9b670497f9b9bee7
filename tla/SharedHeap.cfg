SPECIFICATION Spec
CONSTANTS
    Blocks = {b1, b2, b3, b4, b5, b6}
    Null = Null
    Items = {x, y}
    MaxItems = 2
    Lines <- SomeLines
    MaxChain = 3
INVARIANTS
    TypeOK
    OneOwner
    ParsedFields
PROPERTIES
    ImplementsSequence
SYMMETRY BlockSymmetry
\* parsePacket may end the program, and both threads wait where each of them needs one more block.
CHECK_DEADLOCK FALSE
