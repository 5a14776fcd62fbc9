SPECIFICATION Spec
CONSTANTS
    Threads = {t1, t2}
    Conns = {c1, c2}
    Reaper = Reaper
    NoOne = NoOne
    Replay = Replay
    Parts = 2
    Window = 1
    QueueSize = 1
    MaxSends = 2
CHECK_DEADLOCK FALSE
SYMMETRY Alike
INVARIANTS
    OnlySendMixes
    StuckOnlyOnPeers
    LossIsNoticed
