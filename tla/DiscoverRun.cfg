SPECIFICATION Spec
CONSTANTS
    Jobs = {"full", "other"}
    MaxAttempts = 2
    None = None
    Sources <- ThreeFiles
    MatchesIn <- OneRowEach
    Mode <- FullAndPreview
    Limits <- LimitChoices
    MaxRuns = 2
    MaxOvertaken = 1
    MaxCrashes = 1
INVARIANTS
    TypeOK
    CompleteMeansEveryRow
    ArchiveStaysWhileRead
    TempSpaceIsBounded
    RunSettlesWithJob
    ResultsWithinLimit
PROPERTIES
    RunsAreFinalUnlessOvertaken
CHECK_DEADLOCK FALSE
