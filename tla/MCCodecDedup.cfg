SPECIFICATION Spec
CONSTANTS
    Segment <- MCSegment
    Context <- MCOneContext
    Data <- MCData
    Hash <- MCHash
    Plain <- MCPlain
    Malformed <- MCNoMalformed
    Marshal <- MCMarshal
    Size <- MCSize
    Threshold <- MCThreshold
    None = None
    small = small
    odd = odd
    big = big
    huge = huge
    Request = {r1, r2}
    Server = {s1}
    MaxBatch = 1
    MaxCrashes = 0
    MaxRemovals = 0
INVARIANTS
    Deduplicated
