\* A quoting strategy and another one, three orders, a bus queue of three events.
SPECIFICATION Spec
CONSTANTS
    Strategy = {mm, alpha}
    Replacing = {mm}
    OrderId = {o1, o2, o3}
    Outside = Outside
    Proposals <- SomeProposals
    MaxOrderSize = 2
    MaxPosition = 2
    QueueDepth = 3
    MaxUpdates = 1
    None = None
SYMMETRY Symmetry
INVARIANTS
    TypeOK
    StoppedHasNoQuotes
    QuotesReplaced
    PositionExact
