SPECIFICATION Spec
CONSTANTS
    NONE = NONE
    Sources <- MCSources
    ToolSets <- MCToolSets
    Pending = 1
INVARIANTS
    ThumbnailTruth
    NeverStoresMissing
    NoStaleMessage
    EmptyOnlyForCopies
    AnswersAssumed
