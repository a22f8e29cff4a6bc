SPECIFICATION CacheSpec
CONSTANTS
    n1 = n1
    n2 = n2
    Nodes = {n1, n2}
    Contents = {1, 2}
    Size <- MCSize
    Limit <- MCLimit
    MaxCachedRevision = 2
PROPERTY
    CachedManifestsAreExact
CHECK_DEADLOCK FALSE
