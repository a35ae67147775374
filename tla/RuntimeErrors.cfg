SPECIFICATION Spec
CONSTANTS
    NULL = NULL
    LastExport = "a"
    Implementations <- MCImplementations
    Cases <- MCShapes
INVARIANTS
    TypeOK
    CorrectAccepted
PROPERTIES
    NamesRunningFunction
    FaultsRejected
