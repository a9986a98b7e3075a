\* Three processes that open a database of every age, with two kills
\* or refused statements at any step.
SPECIFICATION Spec
CONSTANTS
    service = service
    initdb = initdb
    purge = purge
    Openers <- MCOpeners
    Alters = 3
    MaxFaults = 2
SYMMETRY MCSymmetry
INVARIANTS
    TypeOK
    OpenHasColumns
    VersionTellsColumns
    OneMigrator
    DuplicateOnlyDisturbed
