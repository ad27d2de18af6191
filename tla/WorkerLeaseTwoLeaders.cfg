CONSTANTS
    w1 = w1  w2 = w2
    a1 = a1  a2 = a2  b1 = b1  b2 = b2
    None = None
    Worker = {w1, w2}
    Conn = {a1, a2, b1, b2}
    PoolOf <- MCPoolOf
    MaxRestarts = 3
    MaxFaults = 2
SPECIFICATION Spec
INVARIANT AtMostOneLeader
SYMMETRY Symmetry
CHECK_DEADLOCK FALSE
