\* A delivery and its duplicate.
SPECIFICATION Spec
CONSTANTS
    n1 = n1
    n2 = n2
    i1 = i1
    i2 = i2
    d1 = d1
    d2 = d2
    d3 = d3
    Nodes <- MCOneNode
    Ids <- MCOneId
    Deliveries <- MCTwo
    Types <- MCRegistered
    Registered <- MCRegistered
    HandlerCodes = {}
    NoRow = NoRow
    NoReq = NoReq
    RetentionDays = 1
    CliDays = {1}
    TaskSpan = 1
    MaxTime = 1
    MaxFaults = 0
    MaxStops = 0
SYMMETRY MCSymmetry
PROPERTIES
    FinalStateIsTerminal
CHECK_DEADLOCK FALSE
