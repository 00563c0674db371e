SPECIFICATION Spec
CONSTANTS
    Conns = {c1, c2, c3}
    Descriptors = {3, 4, 5, 6}
SYMMETRY Symmetry
INVARIANTS
    OnlyEscapesLeak
    OwnUntilClosedTwice
CHECK_DEADLOCK FALSE
