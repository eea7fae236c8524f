SPECIFICATION Spec
CONSTANTS
    Users = {u1, u2}
    Servers = {s1}
    Files <- OneFile
    Folders = {"d"}
    Opcodes = {"CREATE", "DELETE", "RESTART"}
    Capacity = 1
    MaxServersPerFile = 2
    Threshold = 0
    Width = 1
    MaxClock = 0
    MaxRecords = 2
    MaxLog = 2
    MaxLoaded = 1
PROPERTIES
    RecordsSurviveRestart
