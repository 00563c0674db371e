SPECIFICATION FairSpec
CONSTANTS
    Conns = {"a", "b"}
    Requests <- SomeRequests
    Routes <- SomeRoutes
    RetryCap = 2
INVARIANTS
    TypeOK
    UploadsDoNotMix
    OnlyItsLogoutEndsIt
PROPERTIES
    NoEntryAfterLogout
    ThreadEnds
