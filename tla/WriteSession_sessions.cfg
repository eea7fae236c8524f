SPECIFICATION Spec
CONSTANTS
    Threads = {t1, t2}
    Files = {f1}
    NoFile = NoFile
    Opcodes = {"WRITE"}
    MaxSentence = 3
    MaxClock = 1
    MaxInbox = 1
    UpdateLimit = 1
SYMMETRY ThreadSymmetry
INVARIANTS
    TypeOK
    SentenceExclusion
    LockTableExact
    EngineLocksOwned
PROPERTIES
    LocksImplemented
