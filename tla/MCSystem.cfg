SPECIFICATION SystemSpec
CONSTANTS
    Segment <- MCSegment
    Context <- MCContext
    Data <- MCData
    Hash <- MCHash
    Plain <- MCPlain
    Malformed = {}
    Marshal <- MCMarshal
    Size <- MCSize
    Threshold = 2
    None = None
    big = big
    Request = {r1, r2}
    Server = {s1}
    MaxBatch = 1
    MaxCrashes = 1
    MaxRemovals = 1
    Worker = {w1}
    Grace = 0
    CheckArchive = TRUE
    ArchiveAge = 3
    MaxAttempts = 3
    DeleteLimit = 1
    Retention = 4
    Archival = FALSE
    MaxDelay = 1
    MaxDay = 4
    MaxFaults = 1
INVARIANTS
    SafeUntilGrace
    NothingLeaks
