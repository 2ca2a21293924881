SPECIFICATION FairSpec
CONSTANTS
    Threshold = 2
    Settings = {"old", "new"}
    Default = "old"
    Overlap = FALSE
    MaxErrors = 1
PROPERTIES
    FailureReachesCard
