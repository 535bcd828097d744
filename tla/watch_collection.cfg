CONSTANTS
    Docs = {d1, d2}
    Collection = Collection
    Targets = {Collection}
    Nothing = Nothing
    MaxWrites = 2
    MaxRequests = 2
    MaxMessages = 2
    MaxFilters = 1
    MaxFailures = 2
    Failures = {"break", "kill", "reset", "filter"}
SPECIFICATION FairSpec
INVARIANTS TokensEarned
PROPERTIES ListensCatchUp
CHECK_DEADLOCK FALSE
