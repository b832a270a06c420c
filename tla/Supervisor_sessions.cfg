CONSTANTS
    Sessions <- TwoSessions
    Kinds = {"pty", "structured", "background"}
    MaxMisses = 2
    MaxErrors = 1
    MaxCancels = 1
    MaxFaults = 1
SPECIFICATION FairSpec
INVARIANTS
    StepResultKept
    RegistryFollows
PROPERTIES
    ImplementsContract
    SessionEnds
CHECK_DEADLOCK FALSE
