\* The C++ backend; a uint32_t holds 0..15.
SPECIFICATION HALSpec
CONSTANTS
    o1 = o1  o2 = o2  o3 = o3  o4 = o4
    OrderId = {o1, o2, o3, o4}
    Unlisted = XXXX
    Price = {1, 2}
    None = None
    Span <- Narrow
    SixBytes <- Cut
    Symbols = {AAPL, XXXX}
    Listed = AAPL
    Submissions <- AnySubmission
    Depth = 1
    MaxReceived = 4
INVARIANTS
    ListsSound
    CacheIsNative
    WireExact
PROPERTIES
    MatchesPythonBook
