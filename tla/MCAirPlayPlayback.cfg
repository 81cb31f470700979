SPECIFICATION StackSpec
CONSTANTS
    a1 = a1
    a2 = a2
    NoSession = NoSession
    Main = Main
    Session <- TwoSessions
    ProtocolOf <- AirPlayOnly
    Policies <- LatestPolicy
    Preferences <- AnyPreference
    IdleTimeout = 1
    MaxGeneration = 4
    MaxRecords = 2
    QueueCap = 1
SYMMETRY Symmetry
VIEW View
CHECK_DEADLOCK FALSE
INVARIANTS
    PhoneMatchesSpeaker
    StackGoesOn
