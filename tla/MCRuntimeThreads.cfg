CONSTANTS
    Parts = {"worker", "windows"}
    c1 = c1
    w1 = w1
    w2 = w2
    f1 = f1
    f2 = f2
    Clients <- MCOneClient
    Workers <- MCWorkers
    QueueCapacity = 1
    MaxTasks = 2
    FrameIds <- MCFrameIds
    Sizes = {1}
    Scales = {1, 2}
    MaxPending = 2
    MaxWindows = 3
SPECIFICATION USpec
SYMMETRY MCSymmetry
\* The worker runtime really stops: after close every worker returns and
\* the clients may make no further calls.
CHECK_DEADLOCK FALSE
INVARIANTS
    TypeOK
    CancelBeforeStartWins
    RunAtMostOnce
    WindowsTypeOK
    ReverseMapConsistent
PROPERTIES
    CancelledTaskSettles
    WorkersExitAfterClose
    DirtyUntilRendered
