\* Three callers, one connection (and those created beyond the capacity).
CONSTANTS
    c1 = c1
    c2 = c2
    c3 = c3
    Callers = {c1, c2, c3}
    ModeChoices <- MCModes
    Holders = {h1, h2, h3}
    capacity = 1
    min_connections = 1
    None = None
SPECIFICATION FairSpec
INVARIANTS HoldersAccounted CompletedOnce
PROPERTIES WaitsEnd
CHECK_DEADLOCK FALSE
