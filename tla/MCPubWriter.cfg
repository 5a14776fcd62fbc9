SPECIFICATION FairSpec
CONSTANTS
    s1 = s1  s2 = s2
    c1 = c1
    Senders = {s1, s2}
    Conns = {c1}
    NoConn = NoConn
    Hwms = {0, 2}
    MaxMessages = 3
CHECK_DEADLOCK FALSE
INVARIANTS
    TypeOK
    NoSendOnClosedChannel
PROPERTIES
    SendReturns
    ImplementsFanout
