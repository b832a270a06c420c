CONSTANTS
    run = run
    retry = retry
    c1 = c1
    Sweeper = Sweeper
    Free = Free
    NumSteps = 3
    Enabled <- OuterSteps
    Budget <- MixedBudget
    Drivers <- MCDrivers
    Runner = run
    Cancellers <- OneCancel
    MaxRuns = 2
    MaxCrashes = 1
    MaxFaults = 1
    FaultKinds = {"abort", "shadow", "finalize"}
    MaxRetries = 1
    MaxCancels = 1
    CancelKinds = {"task", "run"}
SPECIFICATION Spec
INVARIANTS
    Exclusive
    ResumeAccounted
    AgentMatchesRows
    RunningHasExecutor
    ParkedIsRetryable
    OneShadowRun
PROPERTIES
    RefinesContract
CHECK_DEADLOCK FALSE
