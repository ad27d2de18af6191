CONSTANTS
    c1 = c1
    c2 = c2
    r1 = r1
    r2 = r2
    a = a
    b = b
    None = None
    Event <- TwoEvents
    AggOf <- Aggregates
    Poison <- NoPoison
    Consumer <- TwoConsumers
    Run <- OneRun
    BatchSize = 1
    LateRenewal = FALSE
    MaxCrashes = 1
    MaxStops = 0
    MaxFailures = 0
SPECIFICATION Spec
INVARIANT PublishedIsDelivered
CHECK_DEADLOCK FALSE
