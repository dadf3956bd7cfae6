\* Three orders through a queue of three events, batches of two, one retry and
\* two outages: drops, refused batches and shutdown in the middle of a retry.
SPECIFICATION Spec
CONSTANTS
    Order = {o1, o2, o3}
    QueueDepth = 3
    BatchSize = 2
    MaxRetries = 1
    MaxOutages = 2
INVARIANTS
    TypeOK
    LossIsCounted
    RowsKeepUp
PROPERTIES
    StopDrains
