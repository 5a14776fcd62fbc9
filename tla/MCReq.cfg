SPECIFICATION FairSpec
CONSTANTS
    t1 = t1
    c1 = c1  c2 = c2  c3 = c3
    Threads = {t1}
    Conns = {c1, c2, c3}
    NoConn = NoConn
    NoThread = NoThread
    MaxRequests = 3
CHECK_DEADLOCK FALSE
INVARIANTS
    ReplyMatchesRequest
    CleanWhenReady
    PendingIsTracked
PROPERTIES
    ImplementsRemoteCall
    NeverStuck
