\* Every source of the base location, three positions, two lives of the process,
\* and a fault at any point.
SPECIFICATION FairSpec
CONSTANTS
    Positions <- MCPositions
    Interval = 2
    MaxAge = 2
    MaxAttempt = 1
    StaticPos = 0
    MaxStarts = 2
    MaxFaults = 1
INVARIANTS
    TypeOK
    HealthTellsService
    NothingOutlivesStore
    GracefulStopIsAnnounced
PROPERTIES
    AbsorbedFixIsServed
    StopCompletes
