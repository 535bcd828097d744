CONSTANTS
    Docs = {d1}
    Collection = Collection
    Targets = {Collection}
    Nothing = Nothing
    MaxWrites = 2
    MaxRequests = 2
    MaxMessages = 1
    MaxFilters = 1
    MaxFailures = 0
    Failures = {"filter"}
SPECIFICATION FairSpec
PROPERTIES DeletedLeaveView
CHECK_DEADLOCK FALSE
