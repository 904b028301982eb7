SPECIFICATION Spec
CONSTANTS
    j1 = j1
    j2 = j2
    w1 = w1
    w2 = w2
    s1 = s1
    s2 = s2
    s3 = s3
    Job <- MCJob
    Kind <- MCKind
    MaxAttempts <- MCMaxAttempts
    Worker <- MCWorker
    Slot <- MCSlot
    WorkerOf <- MCWorkerOf
    ClaimTTL = 2
    ExecutionTimeout = 3
    RecoveryDelay = 1
    RetryDelays = {1}
    WaitingBudget = 2
    NoJob = NoJob
    NoWorker = NoWorker
INVARIANTS
    FencedOwnership
    AttemptsCharged
    IInv
PROPERTIES
    ImplementsPromise
