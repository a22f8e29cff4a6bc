SPECIFICATION Spec
CONSTANTS
    NoProcess = NoProcess
    Pollers = {}
    Observers = {o1}
    Deciders = {d1}
    MaxStaleness = 1
    MaxRevision = 3
    MaxTime = 3
    Faults <- AgeFaults
INVARIANTS
    AdmittedWithinBound
    AcknowledgedHintIsActive
PROPERTIES
    AdmittedServesVerified
