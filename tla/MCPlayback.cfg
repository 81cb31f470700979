SPECIFICATION FairSpec
CONSTANTS
    air = air
    dlna = dlna
    c1 = c1
    c2 = c2
    NoSession = NoSession
    Session <- MCSession
    ProtocolOf <- MCProtocolOf
    Policies <- MCPolicies
    Preferences <- MCPreferences
    Caller <- MCCaller
    IdleTimeout = 1
    MaxGeneration = 3
    QueueCap = 1
INVARIANTS
    TypeOK
    OwnerServed
    SpeakerMatchesOwnerAtRest
PROPERTIES
    FollowsOwners
    SpeakerRespectsPolicy
    OwnerEventuallyServed
    CallsReturn
