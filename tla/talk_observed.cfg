CONSTANTS
    Devices = {d1, d2}
    NumDocs = 1
    InitialGroups = {1}
    Absent = Absent
    Faults = {"rejectedWrite", "readError", "offline"}
    MaxMessages = 2
    MaxCalls = 1
    MaxQueue = 1
    MaxListeners = 1
    UserOps = {"delete", "leave"}
SPECIFICATION Spec
INVARIANTS TypeOK TalksWellFormed ListenedGroupsCurrent
SYMMETRY DeviceSymmetry
CHECK_DEADLOCK FALSE
