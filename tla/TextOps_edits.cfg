SPECIFICATION Spec
CONSTANTS
    Inputs <- Typed
    PayloadSize = 5
    FieldSize = 3
    SentenceSize = 6
    MaxLength = 8
    MaxUpdates = 2
INVARIANTS
    TypeOK
    SpansAreSentences
    AckCountsEngineWords
    AcceptedUpdatesApply
    CommitInserts
    CommitKeepsOtherSentences
