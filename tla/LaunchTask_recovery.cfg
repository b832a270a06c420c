CONSTANTS
    run = run
    retry = retry
    c1 = c1
    Sweeper = Sweeper
    Free = Free
    NumSteps = 1
    Enabled <- AllEnabled
    Budget <- OneResume
    Drivers <- MCDrivers
    Runner = run
    Cancellers <- OneCancel
    MaxRuns = 2
    MaxCrashes = 1
    MaxFaults = 1
    FaultKinds = {"finalize", "stepWrite"}
    MaxRetries = 1
    MaxCancels = 1
    CancelKinds = {"task"}
SPECIFICATION FairSpec
PROPERTIES
    SlotGivenBack
    SweepReconciles
CHECK_DEADLOCK FALSE
