CONSTANTS
    Projects = {pa, pb}
    MaxBoots = 2
    MaxDeaths = 2
SPECIFICATION FairShell
INVARIANTS
    SlotSafe
PROPERTIES
    PhaseSettles
CHECK_DEADLOCK FALSE
