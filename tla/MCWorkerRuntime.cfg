CONSTANTS
    c1 = c1
    w1 = w1
    w2 = w2
    Clients <- MCOneClient
    Workers <- MCWorkers
    QueueCapacity = 1
    MaxTasks = 2
SPECIFICATION Spec
\* The runtime really stops: after close every worker returns and the
\* clients may make no further calls.
CHECK_DEADLOCK FALSE
INVARIANTS
    TypeOK
    CancelBeforeStartWins
    RunAtMostOnce
PROPERTIES
    CancelledTaskSettles
    WorkersExitAfterClose
