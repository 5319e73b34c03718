SPECIFICATION Spec
CONSTANTS
    h1 = h1
    h2 = h2
    Handlers = {h1}
    AgbPaths = {"a"}
    TextPaths = {"t"}
    Lines = {"l"}
    MaxBlocks = 2
    MaxInodes = 2
    MaxRewrites = 1
    MaxRequests = 2
    NoOne = NoOne
PROPERTIES
    AnswersCurrentFile
CHECK_DEADLOCK FALSE
