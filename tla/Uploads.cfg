SPECIFICATION FairSpec
CONSTANTS
    r1 = r1 r2 = r2
    File = {r1, r2}
    Reference = {r1, r2}
    Limit = 1
    MaxPuts = 2
    MaxInFlight = 2
    MaxFailures = 1
INVARIANTS OnlyDeletedIsMissing ReferencesAreLimited CleanedForGood
PROPERTIES RemovedIsFinal CleanupEnds
CHECK_DEADLOCK FALSE
