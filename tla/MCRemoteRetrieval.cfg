SPECIFICATION Spec
CONSTANTS
    App <- MCApp
    Injected <- MCInjected
    Length <- MCLength
    Threshold <- MCThreshold
    None = None
    small = small
    edge = edge
    middle = middle
    large = large
    Call = {c1}
    MaxBatch = 2
INVARIANTS
    TransparentRetrieval
