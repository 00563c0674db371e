SPECIFICATION Spec
CONSTANTS
    Streams <- SomeStreams
    CutStreams <- SomeCutStreams
INVARIANTS
    PiecesMakeStream
    PiecesArePackets
    LogsTheQueries
CHECK_DEADLOCK FALSE
