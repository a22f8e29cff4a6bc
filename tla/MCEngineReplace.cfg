SPECIFICATION FairSpec
CONSTANTS
    NilSnapshot = NilSnapshot
    NoWriter = NoWriter
    Callers = {c1}
    Writers = {w1, w2}
    InitialArguments <- NoPolicies
    CandidateArguments <- ReplacementCandidates
    Batches <- Batches2
    Answers <- PlainAnswers
    MaxPolicies = 2
    MaxBatchSize = 2
    MaxTraceSize = 2
    MaxMatchedPolicyIDs = 2
    MaxTime = 2
INVARIANTS
    AnswersFromOneSnapshot
    HandoverLeavesNoGap
    OneWinnerPerExpectation
PROPERTY
    ImplementsDecisionPoint
    EveryOperationReturns
