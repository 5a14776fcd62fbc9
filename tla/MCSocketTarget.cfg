SPECIFICATION Spec
CONSTANTS
    c1 = c1  c2 = c2  c3 = c3  c4 = c4
    e1 = e1
    e2 = e2
    Conns = {c1, c2, c3}
    Endpoints = {e1, e2}
    NoConn = NoConn
    NoEp = NoEp
    Unborn = Unborn
    Accepted = Accepted
    Detectors = {"reader", "writer"}
    AutoReconnect = TRUE
    ParentCancels = FALSE
    MaxCalls = 2
    MaxAccepts = 0
    MaxBreaks = 2
CHECK_DEADLOCK FALSE
INVARIANT
    ReconnectTargetsLostEndpoint
