\* Two deliveries from one node under one id, one fault and one stop, with the
\* fairness of the event loop.  No symmetry: liveness is checked.  The messages
\* run out, so the system may stop.
SPECIFICATION FairSpec
CONSTANTS
    n1 = n1
    n2 = n2
    i1 = i1
    i2 = i2
    d1 = d1
    d2 = d2
    d3 = d3
    Nodes <- MCOneNode
    Ids <- MCOneId
    Deliveries <- MCTwo
    Types <- MCTypes
    Registered <- MCRegistered
    HandlerCodes = {}
    NoRow = NoRow
    NoReq = NoReq
    RetentionDays = 1
    CliDays = {1}
    TaskSpan = 1
    MaxTime = 0
    MaxFaults = 1
    MaxStops = 1
PROPERTIES
    AcceptedIsFinalized
    DeliveredIsAnswered
CHECK_DEADLOCK FALSE
