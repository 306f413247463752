SPECIFICATION FairSpec
CONSTANTS
    Segment <- MCSegment
    Context <- MCOneContext
    Data <- MCData
    Hash <- MCHash
    Plain <- MCSmallOnEdge
    Malformed <- MCMalformed
    Marshal <- MCMarshal
    Size <- MCSize
    Threshold <- MCThreshold
    None = None
    small = small
    odd = odd
    big = big
    huge = huge
    Request = {r1, r2}
    Server = {s1}
    MaxBatch = 2
    MaxCrashes = 0
    MaxRemovals = 0
INVARIANTS
    OrphansOnlyAfterFailure
PROPERTIES
    ImplementsTransparentCodec
    RequestsAdvance
    EveryRequestEnds
