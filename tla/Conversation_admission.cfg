CONSTANTS
    Starters = {r1, r2}
    Cancellers = {c1}
    Viewers = {v1}
    BusCap = 1
    MaxTurns = 2
    MaxEvents = 1
    MaxCancels = 0
    MaxReopens = 0
    MaxFaults = 0
SPECIFICATION Spec
INVARIANTS
    OneActiveTurn
CHECK_DEADLOCK FALSE
