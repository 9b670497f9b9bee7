SPECIFICATION Spec
CONSTANTS
    B = 8
    Hellos <- None
    Others <- UniqueLocals
    MaxSays = 1
    Chunks = {23, 24, 60}
    BufferSize = 200
INVARIANTS
    UsualAddressesShown
\* Everything said and heard: the nodes wait for more.
CHECK_DEADLOCK FALSE
