SPECIFICATION Spec
CONSTANTS
    Pipelines <- AllPipelines
    Handlers <- RelayHandlers
    MaxPackets = 2
    MaxSelectFaults = 1
INVARIANTS
    TypeOK
    InOrder
    NoLoss
    NoRepeat
    LossIsLogged
    LatencyAccount
    DrainedOnCleanClose
PROPERTIES
    ImplementsRelay
