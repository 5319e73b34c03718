SPECIFICATION Spec
CONSTANTS
    Files <- MCFiles
    StatusTargets = {0, 5}
    LatencyTargets = {1}
    Malformed = Malformed
    Missing = Missing
    Unreadable = Unreadable
    NoPath = NoPath
    kBlockSize = 2
    kQueueCapacity = 2
INVARIANTS
    TypeOK
    RingCarriesEveryRow
    NoLostWakeup
    CountIsExact
    ConsumerFinishesLast
PROPERTIES
    QueryReturns
    ImplementsScan
