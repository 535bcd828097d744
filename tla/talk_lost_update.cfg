CONSTANTS
    Devices = {d1, d2}
    NumDocs = 1
    InitialGroups = {1}
    Absent = Absent
    Faults = {}
    MaxMessages = 2
    MaxCalls = 2
    MaxQueue = 1
    MaxListeners = 1
    UserOps = {}
SPECIFICATION Spec
PROPERTIES MessagesKept
CHECK_DEADLOCK FALSE
