SPECIFICATION FairGatewaySpec
CONSTANTS
    Callers = {c1}
    Snapshots <- LaterShots
    InitialSnapshot <- FirstShot
    Revisions = {1, 2, 3}
    Matches <- MatchLists
    MaxPolicyIDs = 1
INVARIANTS
    GrantsAreBacked
    GrantsAreFenced
    ObservationIsFaithful
PROPERTIES
    EveryRequestAnswered
CHECK_DEADLOCK FALSE
