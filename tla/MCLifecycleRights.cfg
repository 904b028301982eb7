SPECIFICATION Spec
CONSTANTS
    User = {u1, u2}
    AddJob = {a1}
    SyncJob = {s1}
    PurgeJob = {p1}
    Slot = {w1, w2}
    NoJob = NoJob
    Size = 1
    OtherBytes = 2
    Stalls = FALSE
    Operator = FALSE
SYMMETRY Interchangeable
INVARIANTS
    PurgeHasNoHolder
    LeaseBlocksPurge
    Accounted
    LifecycleInv
PROPERTIES PurgeIsOneWay
