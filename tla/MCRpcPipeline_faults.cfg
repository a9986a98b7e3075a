\* Two deliveries from one node under the same or different ids, one store or
\* broker error and one stop or crash at any point.  The system may stop: once
\* both messages are used up and the bounds are spent nothing more happens.
SPECIFICATION Spec
CONSTANTS
    n1 = n1
    n2 = n2
    i1 = i1
    i2 = i2
    d1 = d1
    d2 = d2
    d3 = d3
    Nodes <- MCOneNode
    Ids <- MCTwoIds
    Deliveries <- MCTwo
    Types <- MCTypes
    Registered <- MCRegistered
    HandlerCodes = {"unavailable"}
    NoRow = NoRow
    NoReq = NoReq
    RetentionDays = 1
    CliDays = {1}
    TaskSpan = 1
    MaxTime = 1
    MaxFaults = 1
    MaxStops = 1
SYMMETRY MCSymmetry
INVARIANTS
    TypeOK
    FinishedRowsAreFinal
    OkMeansOwnerSucceeded
    PublishedMeansAnswered
    InFlightExact
PROPERTIES
    LastSeenMonotone
CHECK_DEADLOCK FALSE
