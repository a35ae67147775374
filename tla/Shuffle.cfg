SPECIFICATION ErrSpec
CONSTANTS
    N = 5
    Characters <- MCCharacters
    NULL = NULL
    Untouched = Untouched
    Messages <- MCMessages
    ErrFiles <- MCErrFiles
INVARIANTS
    EveryTestOnce
    EveryOrderAsLikely
    ErrVerdictIsOfTheTest
