SPECIFICATION FairSpec
CONSTANTS
    Peers = {p1, p2}
    Senders = {s1}
    Topics = {k1}
    MaxMessages = 2
    MaxOptions = 2
INVARIANTS
    GoneStaysGone
    NoPeerForgotten
    NoDrift
PROPERTIES
    TopicsConverge
    LostPeerIsRemoved
    CloseEndsHandlers
CHECK_DEADLOCK FALSE
