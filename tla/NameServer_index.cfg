SPECIFICATION Spec
CONSTANTS
    Users = {u1, u2}
    Servers = {s1}
    Files <- ThreeFiles
    Folders = {"d"}
    Opcodes = {"CREATE", "DELETE", "MOVE", "LOOKUP", "ACCESS", "REQUEST"}
    Capacity = 1
    MaxServersPerFile = 2
    Threshold = 0
    Width = 1
    MaxClock = 1
    MaxRecords = 3
    MaxLog = 2
    MaxLoaded = 3
SYMMETRY UserSymmetry
INVARIANTS
    TypeOK
    CacheCoherent
    CacheBounded
    SideFilesFollowIndex
