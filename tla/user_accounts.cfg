CONSTANTS
    Devices = {d1}
    NumDocs = 2
    Absent = Absent
    Faults = {"readError", "kill"}
    Users = {u1, u2}
    Nobody = Nobody
    Blank = Blank
    MaxCalls = 2
    MaxQueue = 1
    MaxSignIns = 1
    MaxCodes = 1
    UserOps = {"logout", "rename", "scan"}
SPECIFICATION FairSpec
INVARIANTS TypeOK NamesAreOwn 
PROPERTIES RecordsKeepOwner SignedInUsersAreRegistered
CHECK_DEADLOCK FALSE
