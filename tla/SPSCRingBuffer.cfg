\* Six puts into four slots: the producer laps the ring.
SPECIFICATION Spec
CONSTANTS
    Item = {x, y}
    Blank = Blank
    Capacity <- SlotCount
    MaxPuts = 6
INVARIANTS
    TypeOK
    OccupancyBounded
    DeliveredInOrder
    PeekShowsNext
PROPERTIES
    ImplementsFifo
