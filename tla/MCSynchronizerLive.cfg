SPECIFICATION FairSpec
CONSTANTS
    NoProcess = NoProcess
    Pollers = {p1}
    Observers = {o1}
    Deciders = {}
    MaxStaleness = 1
    MaxRevision = 3
    MaxTime = 1
    Faults <- RepositoryFaults
INVARIANTS
    ReloadsNeverCollide
PROPERTIES
    EveryReloadReturns
    ConvergesOnRepository
