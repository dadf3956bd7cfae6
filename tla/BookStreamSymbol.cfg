\* Two registered symbols.
SPECIFICATION Spec
CONSTANTS
    AAPL = AAPL
    GOOGL = GOOGL
    Symbols <- TwoSymbols
    Mine = AAPL
    Price = {1}
    MaxLevel = 1
    QueueDepth = 2
    MaxOps = 3
    MaxConnects = 1
    None = None
INVARIANT ShowsItsSymbol
