SPECIFICATION Spec
CONSTANTS
    AclModels <- MCAclModels
    AbacModels <- MCAbacModels
    AclRequests <- MCAclRequests
    AbacRequests <- MCAbacRequests
    Documents <- MCDocuments
    Edited <- MCEdited
    DocumentRequests <- MCDocumentRequests
    Identities <- MCIdentities
    IdentityModels <- MCIdentityModels
    IdentityRequests <- MCIdentityRequests
    ResourceIDs <- MCResourceIDs
    MaxInt64 = 3
    UTF8 <- MCUTF8
    MaxEncodedDocumentBytes = 10
INVARIANTS
    UnknownFactsNeverMatch
    WorkIsBounded
    DecisionsFollowMatches
    ListAgreesWithEvaluate
    
    MappedSubjectsAreFaithful
CHECK_DEADLOCK FALSE
