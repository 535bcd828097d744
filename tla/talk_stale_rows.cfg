CONSTANTS
    Devices = {d1}
    NumDocs = 2
    InitialGroups = {1}
    Absent = Absent
    Faults = {}
    MaxMessages = 1
    MaxCalls = 2
    MaxQueue = 1
    MaxListeners = 1
    UserOps = {"create", "delete", "leave"}
SPECIFICATION Spec
PROPERTIES DisplayedGroupIsMeant
CHECK_DEADLOCK FALSE
