\* The engine around the book; snapshots show one level per side.
SPECIFICATION EngineSpec
CONSTANTS
    OrderId = {o1, o2, o3}
    Price = {1, 2}
    Quantity = {1, 2}
    Requests <- WellFormed
    None = None
    Symbols = {AAPL, XXXX}
    Listed = AAPL
    Submissions <- AnySubmission
    Depth = 1
    MaxReceived = 4
INVARIANTS
    ActiveIsResting
    FeedIsCurrent
    StatsReconcile
PROPERTIES
    ProtectsBook
    ImplementsMarket
