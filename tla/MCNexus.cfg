\* Two threads, a service and the one it depends on.
CONSTANTS
    Threads = {t1, t2}
    k1 = k1
    k2 = k2
    Keys = {k1, k2}
    DependsOn <- MCDependsOn
    Registrations <- MCRegistrations
    MaxRegs = 2
    MaxGets = 2
    MaxTime = 1
    Idle = 0
    None = None
SPECIFICATION FairSpec
INVARIANTS ConstructedOnce SameInstance
PROPERTIES GetReturns TimedSwept
CHECK_DEADLOCK FALSE
