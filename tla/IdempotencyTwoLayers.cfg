SPECIFICATION IdempotencyFairSpec
CONSTANTS
    q1 = q1
    q2 = q2
    q3 = q3
    h1 = h1
    h2 = h2
    Request <- OneRequest
    BoundKeyHash <- Hashes
    Layers = 2
    PromptSave = TRUE
    MaxSaveFailures = 0
    Nobody = Nobody
PROPERTY EveryRequestAnswered
CHECK_DEADLOCK FALSE
