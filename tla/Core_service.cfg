SPECIFICATION Spec
CONSTANTS
    h1 = h1
    h2 = h2
    Handlers = {h1, h2}
    AgbPaths = {"a"}
    TextPaths = {"t"}
    Lines = {"l"}
    MaxBlocks = 1
    MaxInodes = 2
    MaxRewrites = 1
    MaxRequests = 2
    NoOne = NoOne
INVARIANTS
    NoMappingLeaks
    PinBookkeeping
PROPERTIES
    PinSettles
    QueryAnswered
CHECK_DEADLOCK FALSE
