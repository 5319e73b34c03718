SPECIFICATION Spec
CONSTANTS
    LastOffset = 5
    batchSize = 2
    NoOne = NoOne
INVARIANTS
    HandedInOrder
    BufferBounded
    LostOnlyInWindow
PROPERTIES
    BufferDrains
    StopEnds
CHECK_DEADLOCK FALSE
