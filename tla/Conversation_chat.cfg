CONSTANTS
    Starters = {r1}
    Cancellers = {c1}
    Viewers = {v1}
    BusCap = 1
    MaxTurns = 1
    MaxEvents = 2
    MaxCancels = 1
    MaxReopens = 1
    MaxFaults = 1
SPECIFICATION FairSpec
INVARIANTS
    ShownInOrder
    ActiveHasTask
PROPERTIES
    ImplementsContract
    CancelSettles
CHECK_DEADLOCK FALSE
