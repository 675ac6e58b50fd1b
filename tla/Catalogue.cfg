SPECIFICATION Spec
CONSTANTS
    None = None
    Invalid = Invalid
    Competences = {1, 2}
    Syncs = {s1, s2}
    Requests = {a, b}
    Users = {"u", "v"}
    Staff = {"u"}
    Forms <- MCForms
    StateOf <- MCStateOf
    CodeOf <- MCCodeOf
    PrefixOf <- MCPrefixOf
    StartsWith <- MCStartsWith
    Register <- MCRegister
    PreviewLimits = {1}
    FullLimits = {3}
    MaxQueries = 2
    MaxRuns = 2
SYMMETRY Symmetry
INVARIANTS
    TypeOK
    RunsAnswerTheirQuery
PROPERTIES
    CurrentGoesBackOnlyLate
