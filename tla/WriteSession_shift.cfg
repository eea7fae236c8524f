SPECIFICATION Spec
CONSTANTS
    Threads = {t1, t2}
    Files = {f1}
    NoFile = NoFile
    Opcodes = {"WRITE"}
    MaxSentence = 2
    MaxClock = 0
    MaxInbox = 1
    UpdateLimit = 1
SYMMETRY ThreadSymmetry
PROPERTIES
    CommitEditsAckedSentence
