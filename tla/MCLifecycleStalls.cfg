SPECIFICATION Spec
CONSTANTS
    User = {u1}
    AddJob = {a1, a2}
    SyncJob = {}
    PurgeJob = {p1}
    Slot = {w1, w2}
    NoJob = NoJob
    Size = 1
    OtherBytes = 2
    Stalls = TRUE
    Operator = TRUE
SYMMETRY Interchangeable
INVARIANTS
    OneAddInCharge
