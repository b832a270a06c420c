CONSTANTS
    Playbook <- ShortPlaybook
    Checkpoints = {"Plan"}
    SemiAuto = TRUE
    AskHuman = TRUE
    HasSetup = TRUE
    TimeLimited = TRUE
    RetryLimit = 0
    Cancellers = {x1}
    Operators = {o1}
    PreflightMayFail = TRUE
    MaxAttempts = 1
    MaxAsks = 3
    MaxCancels = 2
    MaxCrashes = 1
SPECIFICATION FairSpec
INVARIANTS
    WaitingIsAsked
PROPERTIES
    RowFollowsMachine
    CancelStopsEngine
CHECK_DEADLOCK FALSE
