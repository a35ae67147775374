SPECIFICATION Spec
CONSTANTS
    s1 = s1
    m1 = m1
    sp1 = sp1
    e1 = e1
    o1 = o1
    o2 = o2
    r1 = r1
    c1 = c1
    NULL = NULL
    NoWhitelist = NoWhitelist
    Whitelist = NoWhitelist
    Tests <- MCTests
    ContinueOnFail = FALSE
    Rounds = 1
    MAX_TEST_RESULTS = 16
INVARIANTS
    ReportMatchesSummary
