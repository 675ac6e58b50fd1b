SPECIFICATION Spec
CONSTANTS
    w1 = w1
    w2 = w2
    j1 = j1
    Workers = {w1, w2}
    Jobs = {j1}
    None = None
    Priority <- SamePriority
    MaxAttempts = 2
    LockTicks = 1
    BeatTicks = 1
    BackoffCap = 1
    MaxAge = 0
    FaultKinds = {"crash"}
    MaxFaults = 2
INVARIANTS
    DeadLetterAfterLimit
CHECK_DEADLOCK FALSE
