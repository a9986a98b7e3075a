\* One position each for a node and the base, a queue with room for more than one
\* heartbeat, an eviction and one lost connection or restart.
SPECIFICATION FairSpec
CONSTANTS
    n1 = n1
    base = base
    Entities <- MCEntities
    MeshNodes <- MCNodes
    Base = base
    NoEvent = NoEvent
    Absent = Absent
    Cap = 3
    RemoveAfter = 1
    MaxVer = 1
    MaxTime = 1
    MaxFaults = 1
PROPERTIES
    HeldIsShown
