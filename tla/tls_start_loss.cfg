SPECIFICATION Spec
CONSTANTS
    Pipelines <- OnlyTLSStart
    Handlers = {"CHttpHandler"}
    MaxPackets = 1
    MaxSelectFaults = 0
INVARIANTS
    NothingLost
