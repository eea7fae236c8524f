SPECIFICATION Spec
CONSTANTS
    Clients = {c1, c2}
    s1 = s1
    s2 = s2
    ss_ids <- TwoServers
    None = None
    Broken = Broken
    Commands = {"WRITE"}
    Interval = 1
    Threshold = 1
    OtherReaders = 0
INVARIANTS
    OneWriterPerSentence
