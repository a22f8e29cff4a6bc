SPECIFICATION Spec
CONSTANTS
    MaxPolicies = 2
    MaxDocumentBytes = 3
    MaxTotalDocumentBytes = 5
    MaxEncodedManifestBytes = 9
    RecordOverhead = 1
    UTF8 <- MCUTF8
    EscapeBytes = 1
    Decoders = {"acl", "rbac", "abac"}
    NilView = NilView
    MaxEnginePolicies = 2
    MaxBatchSize = 2
    MaxMatchedPolicyIDs = 2
    SoundRecords <- MCSoundRecords
    FlawedRecords <- MCFlawedRecords
    DraftAlgorithms = {"DenyOverrides", "AllowOverrides", "PriorityOrder", "unknown"}
    Requests <- MCRequests
    MaxDraft = 3
INVARIANTS
    CompiledManifestsAreUsable
    DecodingStaysInBudget
    EncodedManifestsDecode
    ReviewTellsTheTruth
CHECK_DEADLOCK FALSE
