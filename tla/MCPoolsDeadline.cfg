SPECIFICATION FairSpec
CONSTANTS
    Threads = {t1}
    Conns = {c1}
    Reaper = Reaper
    NoOne = NoOne
    Replay = Replay
    Parts = 2
    Window = 1
    QueueSize = 1
    MaxSends = 1
CHECK_DEADLOCK FALSE
PROPERTY
    EverySendReturns
