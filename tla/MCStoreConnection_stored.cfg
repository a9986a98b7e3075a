\* A record_received and a write of one statement are enough, without any fault.
SPECIFICATION Spec
CONSTANTS
    recv = recv
    comp = comp
    purge = purge
    seen = seen
    status = status
    Calls <- MCTwoCalls
    Kind <- MCKind
    Readers <- MCReaders
    MaxBusy = 0
    MaxEnds = 0
INVARIANTS
    FreshMeansInserted
CHECK_DEADLOCK FALSE
