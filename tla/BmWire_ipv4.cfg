SPECIFICATION Spec
CONSTANTS
    B = 8
    Hellos <- Ipv4Hellos
    Others <- None
    MaxSays = 1
    Chunks = {23, 24, 60}
    BufferSize = 200
INVARIANTS
    Ipv4Arrives
\* Everything said and heard: the nodes wait for more.
CHECK_DEADLOCK FALSE
