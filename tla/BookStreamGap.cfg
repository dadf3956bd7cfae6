\* A queue of two events, which the order and the book update of one submit fill: the
\* update the client's snapshot contains is dropped.
SPECIFICATION Spec
CONSTANTS
    AAPL = AAPL
    GOOGL = GOOGL
    Symbols <- OneSymbol
    Mine = AAPL
    Price = {1}
    MaxLevel = 1
    QueueDepth = 2
    MaxOps = 3
    MaxConnects = 1
    None = None
PROPERTY GapHeals
