SPECIFICATION Spec
CONSTANTS
    a1 = a1
    a2 = a2
    t1 = t1
    NoSession = NoSession
    NoVolume = NoVolume
    Session <- TwoSessions
    ProtocolOf <- MCProtocolOf
    Policies <- MCPolicies
    Preferences <- MCPreferences
    Setter <- OneSetter
    Requested <- MCRequested
    IdleTimeout = 1
    MaxGeneration = 1
    UpdateCap = 1
    MaxSets = 1
    MaxRestarts = 0
INVARIANT
    SpeakerHasRememberedVolume
CHECK_DEADLOCK FALSE
