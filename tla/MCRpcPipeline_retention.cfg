\* Three deliveries under one id from two nodes, purges with a retention period
\* as short as the life of a task.  A key can be accepted, purged and accepted
\* again while duplicates of either delivery are in flight.  The messages run
\* out, so the system may stop.
SPECIFICATION Spec
CONSTANTS
    n1 = n1
    n2 = n2
    i1 = i1
    i2 = i2
    d1 = d1
    d2 = d2
    d3 = d3
    Nodes <- MCTwoNodes
    Ids <- MCOneId
    Deliveries <- MCThree
    Types <- MCRegistered
    Registered <- MCRegistered
    HandlerCodes = {}
    NoRow = NoRow
    NoReq = NoReq
    RetentionDays = 1
    CliDays = {1}
    TaskSpan = 1
    MaxTime = 2
    MaxFaults = 0
    MaxStops = 0
SYMMETRY MCSymmetry
INVARIANTS
    OwnerHoldsRow
    AuditTrailKept
PROPERTIES
    ImplementsLedger
CHECK_DEADLOCK FALSE
