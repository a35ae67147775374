SPECIFICATION Spec
CONSTANTS
    NULL = NULL
    Implementations = {"mock", "grug", "no_reload", "no_discovery", "silent_on_empty",
                       "empty_replaces", "keeps_destroyed", "reports_existing",
                       "forgets_new", "forgets_changed"}
    Rounds = 2
    MaxRestarts = 1
INVARIANTS
    CorrectAccepted
    FaultsRejected
    DirsRemoved
