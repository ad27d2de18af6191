SPECIFICATION IdempotencySpec
CONSTANTS
    q1 = q1
    q2 = q2
    q3 = q3
    h1 = h1
    h2 = h2
    Request <- TwoRequests
    BoundKeyHash <- Hashes
    Layers = 1
    PromptSave = FALSE
    MaxSaveFailures = 0
    Nobody = Nobody
INVARIANT ExecutedOnce
CHECK_DEADLOCK FALSE
