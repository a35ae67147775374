SPECIFICATION Spec
CONSTANTS
    NULL = NULL
    Items = {1, 2, 3, 4}
    CIRCULAR_LIMIT = 1
    MaxFuel = 4
    MaxSize = 4
CONSTRAINT Bounded
INVARIANTS
    ListsWellLinked
    NothingDangles
    NothingLost
    CopiesAreWhole
PROPERTIES
    ImplementsForest
    FailureChangesNothing
CHECK_DEADLOCK FALSE
