SPECIFICATION FairSpec
CONSTANTS
    Pipelines <- ClosingPipelines
    Handlers <- LiveHandlers
    MaxPackets = 1
    MaxSelectFaults = 1
PROPERTIES
    PeerGoneClosed
