CONSTANTS
    Docs = {d1}
    Collection = Collection
    Targets = {d1, Collection}
    Nothing = Nothing
    MaxWrites = 2
    MaxRequests = 2
    MaxMessages = 2
    MaxFilters = 1
    MaxFailures = 1
    Failures = {"break", "kill", "filter"}
SPECIFICATION Spec
INVARIANTS TypeOK TokensEarned CacheIsHistory OwedIsUnderWay WatchAssertionsHold
CHECK_DEADLOCK FALSE
