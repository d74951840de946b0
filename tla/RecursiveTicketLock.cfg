SPECIFICATION RecursiveSpec
CONSTANTS
    Threads = {t1, t2, t3}
    TicketSpan = 3
    NoThread = NoThread
    MaxDepth = 3
    MaxSuspensions = 2
PROPERTIES
    IsFifoLock
    QueuedThreadEnters
INVARIANTS
    MutualExclusion
    TicketWindow
    RecursionIsBalanced
    OwnerIsInside
