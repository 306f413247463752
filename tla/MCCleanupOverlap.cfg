SPECIFICATION FairSpec
CONSTANTS
    Segment <- MCSegment
    Context <- MCNested
    Data <- MCOneData
    Hash <- MCHash
    Worker = {w1, w2}
    Grace = 0
    CheckArchive = TRUE
    ArchiveAge = 2
    MaxAttempts = 2
    DeleteLimit = 1
    Retention = 1
    Archival = TRUE
    MaxDelay = 0
    MaxDay = 1
    MaxFaults = 1
INVARIANTS
    TypeOK
PROPERTIES
    GraceRespected
    CleanupsAdvance
    CleanupEnds
