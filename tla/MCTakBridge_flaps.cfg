\* Two positions each for a node and the base, a queue that overflows with the second
\* heartbeat, an offline node past its threshold, and two lost connections or
\* restarts at any point.
SPECIFICATION Spec
CONSTANTS
    n1 = n1
    base = base
    Entities <- MCEntities
    MeshNodes <- MCNodes
    Base = base
    NoEvent = NoEvent
    Absent = Absent
    Cap = 3
    RemoveAfter = 1
    MaxVer = 2
    MaxTime = 1
    MaxFaults = 2
INVARIANTS
    TypeOK
    EvictedStaysEvicted
PROPERTIES
    WritesNeverGoBack
