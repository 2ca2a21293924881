SPECIFICATION FairSpec
CONSTANTS
    Lockout = 1
    OverrideTimeout = 3
    CntShortCycle = 2
    OffWindow = 4
    RvShortCycle = 2
    MinRuntime = 2
    DefrostTimeout = 4
    HeatThreshold = 2
    MaxLag = 2
    CompressorReadings = {"none"}
    SuctionReadings = {"none", "high"}
    AmbientReadings = {"none"}
    CondenserReadings = {"none", "warm"}
    LpsLevels = {TRUE, FALSE}
    DftLevels = {TRUE, FALSE}
    Thermostat <- HeatOnly
    InputPoints = {"idle"}
    Requests = {"override", "output", "force", "clear"}
    CallPoints <- AllPoints
    OverridePoints <- AllPoints
INVARIANTS
    ExitInPhase
    CompressorNeedsCall
PROPERTIES
    OverrideEnds
    ExitEnds
    HeatCallServed
