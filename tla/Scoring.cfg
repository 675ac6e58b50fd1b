SPECIFICATION Spec
CONSTANTS
    None = None
    NaN = NaN
    RuleSets <- MCRuleSets
    Companies <- MCCompanies
    Instants <- MCInstants
    DayLength = 2
    Groups = {"jobs"}
    Matches <- MCMatches
    SignalTypes <- MCSignalTypes
    Accepted <- MCAccepted
    NumbersGiven <- MCNumbersGiven
INVARIANTS
    TypeOK
    GroupsWithinCaps
    CriticalPrevails
    
PROPERTIES
    SameInputsSameScore
