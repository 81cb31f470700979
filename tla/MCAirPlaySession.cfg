SPECIFICATION Spec
CONSTANTS
    a1 = a1
    a2 = a2
    NoSession = NoSession
    Main = Main
    Session <- TwoSessions
    ProtocolOf <- MCProtocolOf
    Policies <- TimelyPolicies
    Preferences <- MCPreferences
    IdleTimeout = 1
    MaxGeneration = 12
    MaxRecords = 6
VIEW View
CHECK_DEADLOCK FALSE
INVARIANTS
    TypeOK
    OwnedMatchesArbiter
    ClosedHoldsNothing
    NobodyWaitsForEver
