SPECIFICATION Spec
CONSTANTS
    None = None
    Absent = Absent
    r1 = r1
    r2 = r2
    Runs = {r1, r2}
    Staff = {"u1", "u2"}
    RegisterFields = {"phone"}
    ComplementFields = {"legal_name"}
    Texts = {"", "a", "b", "c"}
    Row <- MCRow
    Complements <- MCComplements
    Changes <- MCChanges
    Site = "a"
    MaxCorrections = 2
INVARIANTS
    TypeOK
    CorrectionIsCurrent
    ValuesHaveEvidence
    DiscoveredOnce
PROPERTIES
    TrailIsTruthful
    NothingStaleIsWritten
