SPECIFICATION Spec
CONSTANTS
    Batches <- MCBatches
    Predicates <- Supported
    Strings = {"x", "y", "z"}
    Missing = Missing
    NoString = NoString
    murmur_hash3 <- MCHash
    num_words = 2
    kU64Max = 3
    kWordBits = 2
    kByteBits = 2
    kBlockRows = 2
    kBlocks = 3
    TargetSlot = 2
    QueriesStaged = FALSE
    MaxAccesses = 2
INVARIANTS
    TypeOK
    PruningSound
    BlocksPresent
    PlanesHoldRows
CHECK_DEADLOCK FALSE
