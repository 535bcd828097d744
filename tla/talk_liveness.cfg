CONSTANTS
    Devices = {d1, d2}
    NumDocs = 1
    InitialGroups = {1}
    Absent = Absent
    Faults = {"kill", "lostAck"}
    MaxMessages = 1
    MaxCalls = 1
    MaxQueue = 1
    MaxListeners = 1
    UserOps = {"leave"}
SPECIFICATION FairSpec
PROPERTIES WritesLeaveDevice ListenedGroupsShown
CHECK_DEADLOCK FALSE
