SPECIFICATION FairSpec
CONSTANTS
    Threads = {t1, t2}
    Files = {f1}
    NoFile = NoFile
    Opcodes = {"WRITE", "READ", "STREAM", "UNDO", "REVERT", "CHECKPOINT", "INFO", "DELETE"}
    MaxSentence = 1
    MaxClock = 0
    MaxInbox = 1
    UpdateLimit = 1
INVARIANTS
    LoadGauges
    
PROPERTIES
    OnlyOwnersChangeContent
    DisconnectReleasesLock
