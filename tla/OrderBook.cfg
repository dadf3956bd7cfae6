\* All kinds of orders on two price levels.
SPECIFICATION Spec
CONSTANTS
    OrderId = {o1, o2, o3, o4}
    Price = {1, 2}
    Quantity = {1, 2}
    Requests <- MixedRequests
    None = None
SYMMETRY Symmetry
INVARIANTS
    TypeOK
    BookNotCrossed
    LevelsInhabited
    CancelMapExact
    FifoByArrival
    RestingIsLive
    QuantitiesReconcile
PROPERTIES
    PriorityRespected
    
    TerminalIsFinal
