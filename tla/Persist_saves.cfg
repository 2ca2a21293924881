SPECIFICATION FairSpec
CONSTANTS
    Threshold = 2
    Settings = {"old", "new"}
    Default = "old"
    Overlap = TRUE
    MaxErrors = 1
INVARIANTS
    BelievedIsSaved
    RestoredQuiet
PROPERTIES
    FailureSaved
