SPECIFICATION Spec
CONSTANTS
    Queries <- MCQueries
    EngineQueries <- MCEngineQueries
    Files <- MCFiles
    Chars <- MCChars
    None = None
    Missing = Missing
    BenchmarkLogs <- MCBenchmark
    kIntMax = 3
    kUint64Max = 7
    kBlockRows = 2
    kThreeColumnBytes = 96
    kReadLimit = 4
    kEventLimit = 2
INVARIANTS
    CountsExact
    SearchCountsLines
    SearchMaximal
    TailAgreesWithScan
    EventsAreLogged
CHECK_DEADLOCK FALSE
