SPECIFICATION Spec
CONSTANTS
    Pushers = {"h"}
    Background = {"k"}
    Sessions = {"s", "q"}
    Batches <- MCBatches
    Matching <- MCMatching
    BadLabels = {"x"}
    batchSize = 2
INVARIANTS
    AckedIsStored
    TailExact
    TailComplete
PROPERTIES
    PushAnswered
CHECK_DEADLOCK FALSE
