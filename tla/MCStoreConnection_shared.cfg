\* A record_received, a completion, a purge and a counts(), one refused
\* statement and one kill at any point.  Every call is made once, so the system
\* may stop.
SPECIFICATION Spec
CONSTANTS
    recv = recv
    comp = comp
    purge = purge
    seen = seen
    status = status
    Calls <- MCCalls
    Kind <- MCKind
    Readers <- MCReaders
    MaxBusy = 1
    MaxEnds = 1
INVARIANTS
    TypeOK
    NoErrorNoLoss
    AloneIsAtomic
    NoLeakedTransaction
    NothingCountedTwice
CHECK_DEADLOCK FALSE
