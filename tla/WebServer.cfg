CONSTANTS
    Clients = {c1, c2, c3}
    Paths <- AllPaths
    HeaderLength = 3
    ReadSize = 2
    c1 = c1
    c2 = c2
    c3 = c3
SPECIFICATION FairSpec
INVARIANT RegistryIsLive
INVARIANT OneResponse
INVARIANT ResponseMeetsRequest
PROPERTY EveryRequestEnds
CHECK_DEADLOCK FALSE
