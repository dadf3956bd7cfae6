\* One symbol with one level, a queue of four events, one reconnection.
SPECIFICATION Spec
CONSTANTS
    AAPL = AAPL
    GOOGL = GOOGL
    Symbols <- OneSymbol
    Mine = AAPL
    Price = {1}
    MaxLevel = 1
    QueueDepth = 4
    MaxOps = 3
    MaxConnects = 2
    None = None
INVARIANTS
    ClientConverges
PROPERTIES
    DeltasNeverGoBack
    ClientCatchesUp
