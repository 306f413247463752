SPECIFICATION Spec
CONSTANTS
    Segment <- MCSegment
    Context <- MCTwoRuns
    Data <- MCOneData
    Hash <- MCHash
    Worker = {w1}
    Grace = 1
    CheckArchive = TRUE
    ArchiveAge = 4
    MaxAttempts = 3
    DeleteLimit = 2
    Retention = 5
    Archival = FALSE
    MaxDelay = 1
    MaxDay = 6
    MaxFaults = 2
INVARIANTS
    NothingLeaks
PROPERTIES
    GraceRespected
