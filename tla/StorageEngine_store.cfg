SPECIFICATION Spec
CONSTANTS
    Threads = {t1, t2}
    NoThread = NoThread
    Paths = {a, b}
    NoPath = NoPath
    Opcodes = {"CREATE", "READ", "WRITE", "UNDO", "CHECKPOINT", "REVERT", "IMPORT", "DELETE", "MOVE", "CRASH"}
    Orderly = TRUE
    MaxRecords = 2
    MaxCalls = 4
SYMMETRY ThreadAndPathSymmetry
INVARIANTS
    TypeOK
    MemoryOnDisk
PROPERTIES
    StoreImplemented
