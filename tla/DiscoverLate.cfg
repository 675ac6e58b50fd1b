SPECIFICATION Spec
CONSTANTS
    Jobs = {"full"}
    MaxAttempts = 2
    None = None
    Sources <- ThreeFiles
    MatchesIn <- OneRowEach
    Mode <- FullAndPreview
    Limits <- WideLimits
    MaxRuns = 2
    MaxOvertaken = 1
    MaxCrashes = 0
PROPERTIES
    EndedRunsAreFinal
CHECK_DEADLOCK FALSE
