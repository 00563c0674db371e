SPECIFICATION FairSpec
CONSTANTS
    Hostnames = {"h"}
    UriMap <- MCUriMap
    Requests <- MCRequests
    PollCap = 2
    MaxBuffers = 3
    MaxChunks = 2
    MaxSelectFaults = 1
INVARIANTS
    TypeOK
    ShortestUri
    AnswersInOrder
    CompleteWhenClosed
    RequestsForwarded
PROPERTIES
    ExchangeEnds
