SPECIFICATION StoreSpec
CONSTANTS
    Publishers = {p1, p2}
    MaxStoredRevision = 3
    MaxAttempts = 2
SYMMETRY PublisherSymmetry
INVARIANTS
    ChangesAreKeptOnce
PROPERTIES
    ImplementsStoredPolicy
CHECK_DEADLOCK FALSE
