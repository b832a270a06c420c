CONSTANTS
    Providers = {"claude", "codex"}
    Capacity = 1
    MaxLines = 2
SPECIFICATION FairSpec
INVARIANTS
    RecordTellsTheTurn
PROPERTIES
    TurnSettles
CHECK_DEADLOCK FALSE
