SPECIFICATION Spec
CONSTANTS
    Fds = {f1, f2, f3}
    f1 = f1
    f2 = f2
    f3 = f3
    Records = {r1, r2}
    r1 = r1
    r2 = r2
    NULL = NULL
    MaxOpens = 2
    MaxMessages = 2
SYMMETRY Symmetry
INVARIANTS
    BuffersFreed
\* The threads wait for events: nothing to do is not an error.
CHECK_DEADLOCK FALSE
