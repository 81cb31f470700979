SPECIFICATION FairSpec
CONSTANTS
    a1 = a1
    d1 = d1
    h1 = h1
    h2 = h2
    NoSession = NoSession
    NoVolume = NoVolume
    Session <- MCSession
    ProtocolOf <- MCProtocolOf
    Policies <- MCPolicies
    Preferences <- MCPreferences
    IdleTimeout = 2
    MaxGeneration = 3
    Handler <- MCHandler
    Desired <- MCDesired
    Sliders <- MCSliders
    Remembered <- MCRemembered
    MaxRequests = 3
INVARIANTS
    TypeOK
    GenerationNamesOwner
    UnmuteRestores
    FileHoldsRecent
    TouchKeepsVolume
    LouderIsLouder
PROPERTIES
    StaleStaysStale
    SilentOwnerYields
