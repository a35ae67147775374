\* Three tests in a row, so that a test can run again with another between.
\* RecordLimit is the longest list a test asks for, so that a call too many is
\* past the end; Vecs grow at their third item instead of their ninth.
CONSTANTS
    Implementations = {"mock", "keyed_by_function", "swaps_generics", "ignores_registration", "calls_twice", "shares_calls", "runs_once"}
    MaxTests = 3
    RecordLimit = 5
    FirstCapacity = 2
    NULL = NULL

SPECIFICATION Spec

INVARIANTS
    TypeOK
    CorrectAccepted
    FaultsRejected

PROPERTY
    VecsAreSequences
