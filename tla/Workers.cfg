SPECIFICATION WorkersSpec
CONSTANTS
    w1 = w1  w2 = w2
    a1 = a1  a2 = a2  b1 = b1  b2 = b2
    None = None
    Worker = {w1, w2}
    Conn = {a1, b1}
    PoolOf <- MCPoolOf
    MaxRestarts = 3
    MaxFaults = 1
    q1 = q1
    q2 = q2
    q3 = q3
    Delivery <- Deliveries
    NoDelivery = None
    MaxConsumerFaults = 2
    Replica <- Replicas
    NoHolder = None
    Orphan = Orphan
    UseLock = TRUE
    UseMarker = TRUE
    MaxSchedulerFaults = 1
    Local <- ThisReplica
    MaxSockets = 3
    Emit <- TwoEmits
    Webhook <- OneWebhook
    RunCall <- TwoRunCalls
    Replayer <- OneReplay
    DlqBatchSize = 1
    MaxUndelivered = 2
    MaxStoreFaults = 1
    MaxToggles = 1
INVARIANTS
    MarkedWasDelivered
    SkipsAreCovered
    SentPerReason
    HandledOncePerFault
    JobsExclusive
    PoolsOutliveJobs
PROPERTIES
    StaleLeaderStepsDown
    LeadershipRecovers
    StopCompletes
    
    
    ShutdownEnds
CHECK_DEADLOCK FALSE
