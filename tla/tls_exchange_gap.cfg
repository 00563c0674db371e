SPECIFICATION Spec
CONSTANTS
    Pipelines <- OnlyTLSExchange
    Handlers = {"CHttpHandler"}
    MaxPackets = 2
    MaxSelectFaults = 0
INVARIANTS
    Unbroken
