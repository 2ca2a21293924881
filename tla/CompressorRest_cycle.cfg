SPECIFICATION RestSpec
CONSTANTS
    Lockout = 1
    OverrideTimeout = 2
    CntShortCycle = 2
    OffWindow = 3
    RvShortCycle = 3
    MinRuntime = 2
    DefrostTimeout = 4
    HeatThreshold = 2
    MaxLag = 2
    CompressorReadings = {"none", "cool", "hot"}
    SuctionReadings = {"none", "critical", "normal", "high"}
    AmbientReadings = {"none", "cold", "mild"}
    CondenserReadings = {"none", "warm"}
    LpsLevels = {TRUE, FALSE}
    DftLevels = {TRUE, FALSE}
    Thermostat <- AllCalls
    InputPoints <- AllPoints
    Requests = {"override", "output", "force", "clear"}
    CallPoints <- AllPoints
    OverridePoints = {"idle"}
INVARIANTS
    CntFlagMirrorsRelay
    WaitingHoldsCntOff
    RvFailBlocksCnt
    ActiveDefrostReversed
    DefrostBounded
PROPERTIES
    EqualisedBeforeReversal
    FollowsSequence
    KeepsSavedState
    CompressorRests
