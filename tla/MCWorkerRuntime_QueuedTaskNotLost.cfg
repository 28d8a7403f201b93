CONSTANTS
    c1 = c1
    w1 = w1
    w2 = w2
    Clients <- MCOneClient
    Workers <- MCWorkers
    QueueCapacity = 1
    MaxTasks = 2
SPECIFICATION Spec
CHECK_DEADLOCK FALSE
INVARIANTS
    QueuedTaskNotLost
