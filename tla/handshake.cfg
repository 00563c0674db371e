SPECIFICATION FairSpec
CONSTANTS
    Plugins <- PluginNames
    Handlers <- OwnHandlers
    Offers <- OfferKinds
    MaxUnits <- Units
    MaxSelectFaults = 1
INVARIANTS
    InOrder
    NoLoss
    ProtectionKept
    ContextReady
    LatencyAccount
    SocketsClosed
PROPERTIES
    ImplementsRelay
    PeerGoneClosed
