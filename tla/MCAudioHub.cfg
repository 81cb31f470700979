SPECIFICATION FairSpec
CONSTANTS
    h1 = h1
    h2 = h2
    Client <- MCClient
    HistoryMax = 2
    Room = 1
    PrimeFrames = 1
    MaxFrames = 3
CHECK_DEADLOCK FALSE
INVARIANTS
    TypeOK
    ListenersOpen
    WrittenInOrder
    NothingLostSilently
PROPERTY
    StreamsEnd
