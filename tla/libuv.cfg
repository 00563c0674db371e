SPECIFICATION FairSpec
CONSTANTS
    Handlers <- SomeHandlers
    MaxPackets <- Packets
INVARIANTS
    CloseOnce
    ForwardsReceived
PROPERTIES
    BothClosed
CHECK_DEADLOCK FALSE
