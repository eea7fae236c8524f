SPECIFICATION Spec
CONSTANTS
    Users = {u1}
    Servers = {s1, s2}
    Files <- RootAndFolder
    Folders = {"d"}
    Opcodes = {"CREATE", "DELETE", "MOVE", "WRITE", "CRASH", "LOST"}
    Capacity = 1
    MaxServersPerFile = 2
    Threshold = 0
    Width = 1
    MaxClock = 0
    MaxRecords = 3
    MaxLog = 2
    MaxLoaded = 2
INVARIANTS
    PrimaryHoldsFile
