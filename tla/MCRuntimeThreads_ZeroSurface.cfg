CONSTANTS
    Parts = {"windows"}
    c1 = c1
    w1 = w1
    w2 = w2
    f1 = f1
    f2 = f2
    Clients <- MCOneClient
    Workers <- MCWorkers
    QueueCapacity = 1
    MaxTasks = 2
    FrameIds <- MCFrameIds
    Sizes = {0, 1}
    Scales = {1, 2}
    MaxPending = 2
    MaxWindows = 3
SPECIFICATION USpec
SYMMETRY MCSymmetry
INVARIANTS
    SurfacesNonZero
