\* Three messages of one node, requests or gateway events (two at most), a
\* sender's clock one tick ahead, one call cut short or one restart at any await.
\* The messages run out, so the system may stop.
SPECIFICATION Spec
CONSTANTS
    n1 = n1
    r1 = r1
    r2 = r2
    r3 = r3
    e1 = e1
    e2 = e2
    Nodes <- MCNodes
    Requests <- MCRequests
    Events <- MCEvents
    None = None
    Threshold = 1
    Skew = 1
    MaxTime = 1
    MaxMessages = 3
    MaxFaults = 1
SYMMETRY MCSymmetry
INVARIANTS
    TypeOK
    StoredBeforePublished
    BatteryTopicMatches
    TopicsRepaired
    SeenCoversRows
CHECK_DEADLOCK FALSE
