SPECIFICATION CacheSpec
CONSTANTS
    Hashes = {1, 2, 3, 4}
    Funcs = {"f", "g"}
    capacity = 3
INVARIANTS
    MapListAgree
    KeepsMostRecent
    PlansCurrent
