SPECIFICATION WaitSpec
CONSTANTS
    Creds = {"home", "guest"}
    Factory = "home"
    WaitTicks = 2
    Fallback = 2
    TestTicks = 3
    Races = FALSE
PROPERTIES
    ApAfterTimeout
