SPECIFICATION Spec
CONSTANTS
    Segment <- MCSegment
    Context <- MCContext
    Data <- MCData
    Hash <- MCHash
    Plain <- MCLarge
    Malformed <- MCNoMalformed
    Marshal <- MCOneMarshal
    Size <- MCSize
    Threshold <- MCThreshold
    None = None
    small = small
    odd = odd
    big = big
    huge = huge
    Request = {r1, r2, r3}
    Server = {s1, s2}
    MaxBatch = 1
    MaxCrashes = 1
    MaxRemovals = 1
SYMMETRY MCSymmetry
INVARIANTS
    TypeOK
    ContentAddressed
    PublishedRetrievable
    RoundTrip
    ErrorsSurface
