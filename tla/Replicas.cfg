CONSTANTS
    w1 = w1  w2 = w2
    a1 = a1  a2 = a2  b1 = b1  b2 = b2
    None = None
    Worker = {w1, w2}
    Conn = {a1, a2, b1, b2}
    PoolOf <- MCPoolOf
    MaxRestarts = 3
    MaxFaults = 2
    MaxKeys = 3
    Generation <- TwoCalls
    Grace = 1
    Skew = 1
    TokenLife = 1
    CacheLife = 1
    MaxTime = 3
    MaxGenFailures = 1
    Request <- TwoCalls
    File <- TwoFiles
    NoFile = None
    RowCount = 3
    MaxImports = 4
    MaxImportFaults = 2
    Runner <- TwoCalls
    LastRow = 4
    batchSize = 2
    initialCursor = 1
    MaxRuns = 4
    MaxBackfillFaults = 2
SPECIFICATION ReplicasSpec
INVARIANTS
    NoLockInPool
    NoConnectionLeak
    NeverStranded
    
    JwksHasSigner
    RowsImportedOnce
    ResumeSkipsNothing
PROPERTY LeadsWithLock
SYMMETRY Symmetry
CHECK_DEADLOCK FALSE
