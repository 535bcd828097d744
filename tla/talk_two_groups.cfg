CONSTANTS
    Devices = {d1}
    NumDocs = 2
    InitialGroups = {1}
    Absent = Absent
    Faults = {"kill", "offline"}
    MaxMessages = 2
    MaxCalls = 2
    MaxQueue = 2
    MaxListeners = 2
    UserOps = {"create", "leave"}
SPECIFICATION Spec
INVARIANTS ListenedGroupsCurrent QuietDetailOverWholeList RecordsUnderOwnId
 
CHECK_DEADLOCK FALSE
