SPECIFICATION AuditSpec
CONSTANTS
    Writer = {w1, w2}
    NoWriter = NoWriter
    MaxRowsWritten = 3
    VerifyBatchSize = 2
    MaxViolations = 7
    MaxAuditFaults = 1
INVARIANT ChainLinked
CHECK_DEADLOCK FALSE
