\* A database that never fails, a queue that never fills.
SPECIFICATION Spec
CONSTANTS
    Order = {o1, o2, o3}
    QueueDepth = 6
    BatchSize = 2
    MaxRetries = 1
    MaxOutages = 0
INVARIANT FlushesEverything
