SPECIFICATION Spec
CONSTANTS
    Segment <- MCSegment
    Context <- MCApart
    Data <- MCData
    Hash <- MCHash
    Worker = {w1}
    Grace = 1
    CheckArchive = TRUE
    ArchiveAge = 3
    MaxAttempts = 3
    DeleteLimit = 1
    Retention = 4
    Archival = FALSE
    MaxDelay = 0
    MaxDay = 5
    MaxFaults = 0
INVARIANTS
    NothingLeaks
