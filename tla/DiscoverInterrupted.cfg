SPECIFICATION Spec
CONSTANTS
    Jobs = {"full"}
    MaxAttempts = 2
    None = None
    Sources <- ThreeFiles
    MatchesIn <- OneRowEach
    Mode <- FullAndPreview
    Limits <- WideLimits
    MaxRuns = 2
    MaxOvertaken = 0
    MaxCrashes = 1
INVARIANTS
    InterruptedJobsResume
CHECK_DEADLOCK FALSE
