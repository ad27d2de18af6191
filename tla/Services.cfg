SPECIFICATION Spec
CONSTANTS
    r1 = r1
    r2 = r2
    v1 = v1
    v2 = v2
    v3 = v3
    v4 = v4
    d1 = d1
    d2 = d2
    t1 = t1
    t2 = t2
    none = none
    s1 = s1
    s2 = s2
    p1 = p1
    c1 = c1
    c2 = c2
    w1 = w1
    w2 = w2
    w3 = w3
    m1 = m1
    m2 = m2
    m3 = m3
    u1 = u1
    u2 = u2
    MaxTerms = 20
    PromptRelease = TRUE
    ReleaseMayFail = TRUE
    Id <- Requests
    Voter <- Voters
    MaxSigners = 3
    DisputeId <- Filed
    Text <- Texts
    NoText = none
    Signer <- TwoSigners
    Person <- ThreePersons
    Call <- TwoCalls
    MaxCalls = 4
    NoOne = none
    Member <- MemberRows
    User <- Users
    UserOf <- RowUser
    FirstOwners <- Owners
    AdminCall <- TwoCalls
    JobWorker <- TwoCalls
    MaxClaims = 3
    maxAttempts = 2
    MaxJobFaults = 2
    MaxEvent = 3
    Handler <- TwoCalls
    MaxBondFaults = 3
    RpcCall <- ThreeCalls
    FailureThreshold = 2
    Writer <- TwoCalls
    NoWriter = none
    MaxRowsWritten = 3
    VerifyBatchSize = 2
    MaxViolations = 7
    MaxAuditFaults = 1
    Caller <- TwoCalls
    NoCaller = none
    MaxVersion = 2
    MaxCacheFaults = 1
SYMMETRY Symmetry
INVARIANTS
    LoopOnlyWhileLeading
    DecisionSound
    QuorumBehindApproval
    OwnerRemains
    AcceptedOncePerLoss
    
    OneProbe
    SerialChainVerifies
    L1FollowsRedis
    ReadAfterWrite
 
CHECK_DEADLOCK FALSE
