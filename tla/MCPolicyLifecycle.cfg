SPECIFICATION FairSpec
CONSTANTS
    Watchers = {w1}
    MaxRevision = 3
    MaxHint = 3
    HintFaults = {"disconnect", "readError", "evict"}
PROPERTIES
    HintsFollowStorage
    HintedBecomesActive
