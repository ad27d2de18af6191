CONSTANTS
    c1 = c1
    c2 = c2
    r1 = r1
    r2 = r2
    a = a
    b = b
    None = None
    Event <- TwoEvents
    AggOf <- Aggregates
    Poison <- PoisonFirst
    Consumer <- TwoConsumers
    Run <- TwoRuns
    BatchSize = 2
    LateRenewal = TRUE
    MaxCrashes = 1
    MaxStops = 0
    MaxFailures = 1
    Hash <- TwoRows
    PayoutCaller <- TwoCallers
    ShadowWrite = TRUE
    MaxTouches = 2
    MaxPayoutFaults = 1
    Row <- TwoRows
    ReconcileRun <- TwoCallers
    NoRun = None
    MaxQueryFaults = 1
    Change <- TwoCallers
    NoChange = None
    MaxBalance = 3
    MaxRetries = 1
    MaxWalletFaults = 1
SPECIFICATION PaymentsSpec
INVARIANTS
    NoDuplicateDelivery
    OnlyFaultsLose
    SettledIsBacked
    LinkedToItsRun
    LedgerChains
 
SYMMETRY Symmetry
CHECK_DEADLOCK FALSE
