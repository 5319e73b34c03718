SPECIFICATION Spec
CONSTANTS
    Requests = {"r1", "r2"}
    Uris <- MCUris
    generateCacheKey <- MCKeys
    SizeOf <- MCSizes
    MaxSize = 2
    limitBytes = 2
    MaxRequests = 3
    MaxRestarts = 1
    MaxMisread = 1
INVARIANTS
    FilesTracked
    HitsAreComplete
    CacheBounded
CHECK_DEADLOCK FALSE
