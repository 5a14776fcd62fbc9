SPECIFICATION FairSpec
CONSTANTS
    d1 = d1  d2 = d2  d3 = d3
    a1 = a1  a2 = a2
    Dialers = {d1, d2, d3}
    Pooled = {d1, d2}
    Addrs = {a1, a2}
    Endpoint <- MCEndpoint
    Served = {a1}
    MaxDials = 2
    NoAddr = NoAddr
    NoLink = NoLink
    NoDialer = NoDialer
    Backlog = 1
CHECK_DEADLOCK FALSE
INVARIANTS
    NoStreamLost
    OneLinkPerAddress
    NoSocketLeak
PROPERTIES
    
    StreamsReachTheSocket
    CloseEndsListener
