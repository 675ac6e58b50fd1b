SPECIFICATION Spec
CONSTANTS
    w1 = w1
    w2 = w2
    j1 = j1
    j2 = j2
    Workers = {w1, w2}
    Jobs = {j1, j2}
    None = None
    Priority <- SamePriority
    MaxAttempts = 2
    LockTicks = 1
    BeatTicks = 1
    BackoffCap = 1
    MaxAge = 0
    FaultKinds = {"crash", "beat", "stall"}
    MaxFaults = 2
SYMMETRY BothSymmetry
INVARIANTS
    TypeOK
    OwnerHoldsCurrentAttempt
    AttemptsAreExclusive
    LedgerAgrees
PROPERTIES
    EndedJobsAreFinal
    
    ImplementsContract
CHECK_DEADLOCK FALSE
