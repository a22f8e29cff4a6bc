SPECIFICATION Spec
CONSTANTS
    NilSnapshot = NilSnapshot
    NoWriter = NoWriter
    Callers = {c1}
    Writers = {w1}
    InitialArguments <- NoPolicies
    CandidateArguments <- OneOfEach
    Batches <- SingleRequests
    Answers <- AllAnswers
    MaxPolicies = 3
    MaxBatchSize = 2
    MaxTraceSize = 2
    MaxMatchedPolicyIDs = 2
    MaxTime = 2
INVARIANTS
    AllowIsExplicit
    ShortCircuitIsSound
    TruncationIsHonest
