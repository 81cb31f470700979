SPECIFICATION Spec
CONSTANTS
    loop = loop
    volumes = volumes
    refresher = refresher
    Requester <- MCRequester
    Refresher <- refresher
    MaxTokens = 2
    MaxRestarts = 1
SYMMETRY Symmetry
CHECK_DEADLOCK FALSE
INVARIANT
    LoginKept
