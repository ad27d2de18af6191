CONSTANTS
    c1 = c1
    c2 = c2
    r1 = r1
    r2 = r2
    a = a
    b = b
    None = None
    Event <- ThreeEvents
    AggOf <- Aggregates
    Poison <- PoisonFirst
    Consumer <- TwoConsumers
    Run <- OneRun
    BatchSize = 2
    LateRenewal = FALSE
    MaxCrashes = 1
    MaxStops = 1
    MaxFailures = 0
    q1 = q1
    q2 = q2
    q3 = q3
    h1 = h1
    h2 = h2
    Request <- ThreeRequests
    BoundKeyHash <- Hashes
    Layers = 1
    PromptSave = TRUE
    MaxSaveFailures = 1
    Nobody = None
SPECIFICATION DeliveriesSpec
INVARIANT SuccessIsOwn
PROPERTIES EveryRequestAnswered EventsSettle
CHECK_DEADLOCK FALSE
