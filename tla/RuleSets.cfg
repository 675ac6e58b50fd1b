SPECIFICATION Spec
CONSTANTS
    Actors = {a1, a2}
    Contents = {good, other, bad}
    Valid = {good, other}
    Seed = good
    None = None
    MaxVersion = 3
    MaxSnapshots = 1
SYMMETRY ActorSymmetry
INVARIANTS
    TypeOK
    ActiveIffPublished
    PublishedConfigIsValid
    ClonesTakeTurns
    TargetIsRecoverable
    SnapshotsUseValidConfig
CHECK_DEADLOCK FALSE
