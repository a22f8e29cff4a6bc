SPECIFICATION ManagerSpec
CONSTANTS
    Models <- MCModels
    NewAssignments <- MCNewAssignments
    Requests <- MCRequests
    MaxManagerRevision = 3
INVARIANTS
    ManagedModelsAreSound
    TaggedViewIsCurrent
    DecisionsAreJustified
PROPERTY
    AssigningNeverLiftsADenial
CHECK_DEADLOCK FALSE
