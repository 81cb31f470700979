SPECIFICATION Spec
CONSTANTS
    d1 = d1
    d2 = d2
    d3 = d3
    a1 = a1
    h1 = h1
    h2 = h2
    h3 = h3
    p1 = p1
    Proxy <- MCProxy
    NoSession = NoSession
    Media <- TwoMedia
    Session <- WithAirPlay2
    Handler <- TwoHandlers
    Crowds <- UpToTwo
    ProtocolOf <- MCProtocolOf
    Policies <- LatestPolicy
    Preferences <- AirPlayPreferred
    IdleTimeout = 1
    MaxGeneration = 6
SYMMETRY Symmetry
CHECK_DEADLOCK FALSE
INVARIANT
    OwnerIsActive
