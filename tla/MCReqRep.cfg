SPECIFICATION SystemSpec
CONSTANTS
    c1 = c1  c2 = c2
    Threads = {t1}
    NoThread = NoThread
    Workers = {w1}
    QueueSize = 1
    Conns = {c1, c2}
    NoConn = NoConn
    MaxRequests = 2
SYMMETRY Symmetry
CHECK_DEADLOCK FALSE
PROPERTY
    ImplementsReq
