CONSTANTS
    c1 = c1
    c2 = c2
    r1 = r1
    r2 = r2
    a = a
    b = b
    None = None
    Event <- TwoEvents
    AggOf <- Aggregates
    Poison <- NoPoison
    Consumer <- OneConsumer
    Run <- OneRun
    BatchSize = 1
    LateRenewal = FALSE
    MaxCrashes = 0
    MaxStops = 0
    MaxFailures = 1
SPECIFICATION FairSpec
PROPERTY EventsSettle
CHECK_DEADLOCK FALSE
