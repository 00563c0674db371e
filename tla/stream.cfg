SPECIFICATION FairSpec
CONSTANTS
    Conns = {"a", "b"}
    SeqLimit = 2
    Files <- SomeFiles
INVARIANTS
    
    ClosedUnlessPastLimit
PROPERTIES
    CloseEnds
