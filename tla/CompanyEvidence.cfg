SPECIFICATION Spec
CONSTANTS
    Workers = {w1, w2}
    Staff = {s1}
    Texts = {a}
    Postings = {p}
    Relevant = {a, p}
    None = None
    MaxTime = 2
SYMMETRY WorkerSymmetry
INVARIANTS
    TypeOK
    EvidenceIsDetected
    
PROPERTIES
    DecisionsAreFinal
CONSTRAINT NothingMissed
CHECK_DEADLOCK FALSE
