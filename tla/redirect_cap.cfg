SPECIFICATION Spec
CONSTANTS
    Hostnames = {"h"}
    UriMap <- MCUriMap
    Requests <- MCRequests
    PollCap = 2
    MaxBuffers = 1
    MaxChunks = 3
    MaxSelectFaults = 0
INVARIANTS
    CapOnlyWhenStuck
