\* One event is enough: afterwards the node is silent.
SPECIFICATION FairSpec
CONSTANTS
    n1 = n1
    r1 = r1
    r2 = r2
    r3 = r3
    e1 = e1
    e2 = e2
    Nodes <- MCNodes
    Requests = {}
    Events <- MCOneEvent
    None = None
    Threshold = 1
    Skew = 0
    MaxTime = 1
    MaxMessages = 1
    MaxFaults = 0
PROPERTIES
    SilentGoesOffline
CHECK_DEADLOCK FALSE
