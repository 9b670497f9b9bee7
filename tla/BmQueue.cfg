SPECIFICATION FairSpec
CONSTANTS
    Producers = {p1}
    p1 = p1
    Consumers = {c1, c2}
    c1 = c1
    c2 = c2
    Nodes = {n1, n2}
    n1 = n1
    n2 = n2
    Data = {d1, d2}
    d1 = d1
    d2 = d2
    Owner = Owner
    NULL = NULL
    Refused = Refused
    CloserWakes = TRUE
INVARIANTS
    TypeOK
    ListInv
    HeapInv
    NoLostWakeup
PROPERTIES
    ImplementsFifo
    EveryItemDelivered
    CloseReleasesAll
