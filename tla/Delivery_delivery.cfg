CONSTANTS
    Branches = {a, b, c}
    Ships = {x1, x2}
    Views = {v1}
    MaxAsks = 3
    MaxLapses = 1
    Readers = {d1, d2}
    Syncs = {y1}
    MaxHead = 3
    Threads = {1, 2}
    Comments = {1, 2, 3}
    Writers = {x1, x2}
    Submits = {z1, z2}
    MaxNotes = 5
    MaxSlips = 1
    Patches = {k1}
    Summaries = {z1, z2}
    Cursors = {e1}
    Unset = unset
    Callers = {x1, x2}
    PageSize = 1
    MaxMints = 4
    Wishes = {x1, x2}
    Steps = {z1, z2}
    AnyStep = anyStep
    MaxFails = 2
    Edits = {x1, x2}
    DefNames = {"plan", "mine", "own"}
    Shipped = {"plan"}
    Configured = {"mine"}
    MaxCalls = 2
    MaxBoots = 3
SPECIFICATION Spec
SYMMETRY Alike
INVARIANTS
    BranchAgrees
    CacheNotStale
    ReviewKept
    OrchestratorKept
    NotesKept
    DefinitionsKept
CHECK_DEADLOCK FALSE
