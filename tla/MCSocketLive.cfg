SPECIFICATION FairSpec
CONSTANTS
    c1 = c1  c2 = c2  c3 = c3  c4 = c4
    e1 = e1
    e2 = e2
    Conns = {c1, c2}
    Endpoints = {e1}
    NoConn = NoConn
    NoEp = NoEp
    Unborn = Unborn
    Accepted = Accepted
    Detectors = {"reader"}
    AutoReconnect = TRUE
    ParentCancels = TRUE
    MaxCalls = 2
    MaxAccepts = 1
    MaxBreaks = 1
CHECK_DEADLOCK FALSE
PROPERTIES
    ClosedIsReaped
    LossIsRepaired
    CloseEndsGoroutines
