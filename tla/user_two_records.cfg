CONSTANTS
    Devices = {d1,d2}
    NumDocs = 2
    Absent = Absent
    Faults = {}
    Users = {u1}
    Nobody = Nobody
    Blank = Blank
    MaxCalls = 2
    MaxQueue = 1
    MaxSignIns = 1
    MaxCodes = 1
    UserOps = {}
SPECIFICATION Spec
INVARIANT OneRecordPerUser
CHECK_DEADLOCK FALSE
