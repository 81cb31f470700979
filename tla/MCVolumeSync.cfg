SPECIFICATION FairSpec
CONSTANTS
    a1 = a1
    a2 = a2
    t1 = t1
    NoSession = NoSession
    NoVolume = NoVolume
    Session <- OneSession
    ProtocolOf <- MCProtocolOf
    Policies <- MCPolicies
    Preferences <- MCPreferences
    Setter <- OneSetter
    Requested <- MCRequested
    IdleTimeout = 1
    MaxGeneration = 1
    UpdateCap = 1
    MaxSets = 3
    MaxRestarts = 1
INVARIANTS
    TypeOK
    RestartRestoresVolume
PROPERTIES
    HandledInOrder
    UpdatesSettle
    SettersReturn
CHECK_DEADLOCK FALSE
