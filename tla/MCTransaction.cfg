\* Two transactions, two savepoints and two connections.
CONSTANTS
    Txs = {t1, t2}
    Sps = {p1, p2}
    Conns = {c1, c2}
    Names = {a, b}
    NoConn = NoConn
    MaxDepth = 2
SPECIFICATION Spec
INVARIANTS ConnectionOwned StatusHonest ReturnedClean
CHECK_DEADLOCK FALSE
