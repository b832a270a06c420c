CONSTANTS
    r1 = r1
    r2 = r2
    Runs <- TwoRuns
    IssueOf <- OneIssue
    Pairs = {p1}
    Polls = {q1, q2}
    BusCapacity = 1
    MaxPulses = 3
    MaxSlips = 1
    MaxVisits = 3
    MaxMishaps = 1
    MaxEvents = 3
    MaxTroubles = 2
SPECIFICATION FairSpec
INVARIANTS
    AnnouncedOnce
    TrailAlternates
PROPERTIES
    AnnouncedOnRecord
    RecordCatchesUp
CHECK_DEADLOCK FALSE
