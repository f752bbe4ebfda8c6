\* Two clients and three tasks, with up to two workers.
CONSTANTS
    Clients = {c1, c2}
    t1 = t1
    t2 = t2
    t3 = t3
    Tasks = {t1, t2, t3}
    Priority <- MCPriority
    WorkerIds = {w1, w2, w3}
    Configs <- MCConfigs
    CounterValues = 256
    None = None
SPECIFICATION FairSpec
INVARIANTS CountsSound NoTaskLost
PROPERTIES TasksAndShutdownEnd
CHECK_DEADLOCK FALSE
