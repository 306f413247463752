SPECIFICATION Spec
CONSTANTS
    None = None
    Slot = {q1, q2}
    Source <- MCTwoPorts
    Cost = 2
    Horizon = 2
    GrpcCall = {g1}
    Setting <- MCOneSetting
    ShutdownTimeout = 1
    MaxFaults = 1
    MaxRemovals = 0
INVARIANTS
    BurstPerAddress
