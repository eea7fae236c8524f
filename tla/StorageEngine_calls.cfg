SPECIFICATION FairSpec
CONSTANTS
    Threads = {t1, t2}
    NoThread = NoThread
    Paths = {a, b}
    NoPath = NoPath
    Opcodes = {"CREATE", "READ", "WRITE", "UNDO", "CHECKPOINT", "REVERT", "IMPORT", "MOVE", "IOERR"}
    Orderly = FALSE
    MaxRecords = 3
    MaxCalls = 3
SYMMETRY PathSymmetry
PROPERTIES
    CallsReturn
CHECK_DEADLOCK FALSE
