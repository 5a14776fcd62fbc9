SPECIFICATION FairSpec
CONSTANTS
    Workers = {w1}
    Conns = {c1, c2}
    NoConn = NoConn
    QueueSize = 1
    MaxRequests = 2
INVARIANTS
    NoMisroutedReply
    AnsweredOnceInOrder
PROPERTIES
    EveryRequestIsReceived
CHECK_DEADLOCK FALSE
