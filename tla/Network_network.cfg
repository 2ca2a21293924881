SPECIFICATION FairSpec
CONSTANTS
    Creds = {"home", "guest"}
    Factory = "home"
    WaitTicks = 2
    Fallback = 3
    TestTicks = 3
    Races = FALSE
INVARIANTS
    TypeOK
    MqttWatched
    FailedGoesBack
PROPERTIES
    SavedWasTried
    FallbackReached
    ConnectionReturns
    MqttReturns
    TestEnds
