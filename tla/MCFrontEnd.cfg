SPECIFICATION FairSpec
CONSTANTS
    None = None
    Slot = {q1, q2}
    Source <- MCProxied
    Cost = 1
    Horizon = 1
    GrpcCall = {g1}
    Setting <- MCSetting
    ShutdownTimeout = 2
    MaxFaults = 1
    MaxRemovals = 1
INVARIANTS
    TypeOK
    AtMostRate
    RefusesOnlyExcess
    HealthyServesBoth
PROPERTIES
    RequestsRunToTheEnd
    ShutdownEnds
    ReplicaServes
