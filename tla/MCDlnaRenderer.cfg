SPECIFICATION Spec
CONSTANTS
    d1 = d1
    d2 = d2
    d3 = d3
    a1 = a1
    h1 = h1
    h2 = h2
    h3 = h3
    p1 = p1
    Proxy <- MCProxy
    NoSession = NoSession
    Media <- ThreeMedia
    Session <- WithAirPlay
    Handler <- ThreeHandlers
    Crowds <- UpToThree
    ProtocolOf <- MCProtocolOf
    Policies <- MCPolicies
    Preferences <- AirPlayPreferred
    IdleTimeout = 1
    MaxGeneration = 4
VIEW View
SYMMETRY Symmetry
CHECK_DEADLOCK FALSE
INVARIANTS
    TypeOK
    PlayingHasMedia
    RendererKnowsOwner
    NoMediaLeaks
    ProxyServesOwner
