SPECIFICATION UpkeepSpec
CONSTANTS
    Versions = {"old", "new"}
    Shipped = "old"
    Clients = {"a", "b"}
    Parts = 2
    MaxFailures = 1
    Wrap = 8
    Durations = {1, 3, 10}
    MaxOld = 3
    MaxFillings = 5
    MaxLogFailures = 2
    DayLength = 2
    Days = 2
    MaxSamples = 4
    Horizon = 8
    Loop = "loop"
    PinTasks = {"loop", "web"}
INVARIANTS
    UpkeepTypeOK
    NeverBricked
    BackedUpFirst
    FtpBounded
    FtpOpenedByAdmin
    ArchivesInOrder
    OnlyOldestLost
    NewestKept
    RingInOrder
    DaysKept
    NoGap
    PinFollows
PROPERTIES
    RevertedHasRun
CHECK_DEADLOCK FALSE
