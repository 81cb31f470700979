SPECIFICATION Spec
CONSTANTS
    a1 = a1
    a2 = a2
    NoSession = NoSession
    Main = Main
    Session <- TwoSessions
    ProtocolOf <- MCProtocolOf
    Policies <- LatestPolicy
    Preferences <- MCPreferences
    IdleTimeout = 1
    MaxGeneration = 6
    MaxRecords = 3
CHECK_DEADLOCK FALSE
INVARIANT
    OwnerIsConnected
