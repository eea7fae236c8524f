SPECIFICATION Spec
CONSTANTS
    Users = {u1, u2}
    Servers = {s1}
    Files <- RootAndFolder
    Folders = {"d"}
    Opcodes = {"CREATE", "ACCESS", "REQUEST", "RESTART", "TORN"}
    Capacity = 1
    MaxServersPerFile = 2
    Threshold = 0
    Width = 2
    MaxClock = 0
    MaxRecords = 2
    MaxLog = 2
    MaxLoaded = 2
SYMMETRY UserSymmetry
INVARIANTS
    RightsOnDisk
PROPERTIES
    RestartGrantsNothing
