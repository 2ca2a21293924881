SPECIFICATION Spec
CONSTANTS
    Lockout = 1
    OverrideTimeout = 3
    CntShortCycle = 2
    OffWindow = 4
    RvShortCycle = 2
    MinRuntime = 2
    DefrostTimeout = 4
    HeatThreshold = 2
    MaxLag = 1
    CompressorReadings = {"none"}
    SuctionReadings = {"none"}
    AmbientReadings = {"none"}
    CondenserReadings = {"none", "warm"}
    LpsLevels = {TRUE}
    DftLevels = {TRUE, FALSE}
    Thermostat <- AllCalls
    InputPoints <- AllPoints
    Requests = {"override"}
    CallPoints <- AllPoints
    OverridePoints = {"idle"}
INVARIANTS
    CoolRunsReversed
