SPECIFICATION Spec
CONSTANTS
    NULL = NULL
    NoWhitelist = NoWhitelist
    Whitelist = NoWhitelist
    Tests <- MCOneOfEach
    ContinueOnFail = TRUE
    Rounds = 1
    MAX_TEST_RESULTS = 16
    NestingLimit = 4
    INT_MAX = 4000
    default_buffer_size = 256
INVARIANTS
    HandlesReclaimed
    SuccessIsComplete
    ReportSaysTheTable
PROPERTIES
    ImplementsSession
