CONSTANTS
    Playbook <- FullPlaybook
    Checkpoints = {"Prepare", "Code", "CreatePr"}
    SemiAuto = TRUE
    AskHuman = TRUE
    HasSetup = TRUE
    TimeLimited = FALSE
    RetryLimit = 0
    Cancellers = {}
    Operators = {o1}
    PreflightMayFail = TRUE
    MaxAttempts = 2
    MaxAsks = 4
    MaxCancels = 0
    MaxCrashes = 0
SPECIFICATION Spec
INVARIANTS
    ApprovedBeforeRun
    OverrideHolds
    RunEndsClean
CHECK_DEADLOCK FALSE
