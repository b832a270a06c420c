CONSTANTS
    Requesters = {r1, r2}
    Operators = {ann, bob}
    Takeovers = {1}
    Closers = {c1}
    Sockets = {x1, x2}
    MaxAsks = 3
    MaxCalls = 3
    MaxRequests = 3
    MaxFaults = 1
    MaxLapses = 1
SPECIFICATION Spec
SYMMETRY Alike
INVARIANTS
    AuditChain
    LeaseIsNewest
    ClosedOnRecord
CHECK_DEADLOCK FALSE
