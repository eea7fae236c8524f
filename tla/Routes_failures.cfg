SPECIFICATION FairSpec
CONSTANTS
    Clients = {c1}
    s1 = s1
    s2 = s2
    ss_ids <- TwoServers
    None = None
    Broken = Broken
    Commands = {"READ", "WRITE", "STREAM", "UNDO", "INFO", "CHECKPOINT", "REVERTCHECKPOINT"}
    Interval = 1
    Threshold = 2
    OtherReaders = 1
INVARIANTS
    TypeOK
PROPERTIES
    UnreachableMeansDown
    ServedBySurvivors
    NoCommandHangs
