SPECIFICATION FairSpec
CONSTANTS
    t1 = t1  t2 = t2
    c1 = c1  c2 = c2  c3 = c3
    k1 = k1  k2 = k2
    Setters = {t1}
    Topics = {k1, k2}
    Conns = {c1, c2}
    NoConn = NoConn
    Data = Data
    QueueSize = 1
    MaxData = 1
    MaxOptions = 3
CHECK_DEADLOCK FALSE
INVARIANTS
    TypeOK
    NoDrift
PROPERTY
    Convergence
