\* Two users, the janitor and a shutdown over two slots.
CONSTANTS
    Users = {u1, u2}
    Capacity = 2
    MinConnections = 1
    Attempts = 1
SPECIFICATION FairSpec
INVARIANTS SlotExclusive
PROPERTIES DeadRecovered ShutdownReturns
CHECK_DEADLOCK FALSE
