SPECIFICATION Spec
CONSTANTS
    Workers = {w1}
    Staff = {s1}
    Texts = {}
    Postings = {p}
    Relevant = {}
    None = None
    MaxTime = 2
PROPERTIES
    ApprovedStaysActive
CHECK_DEADLOCK FALSE
