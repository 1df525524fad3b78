SPECIFICATION FairSpec
CONSTANTS
    Page = 2
    TailFetch = 1
    Skip = 1
    StreamSkip = 1
    Lens = {3}
    Wants = {1, 3}
    Eofs = {1}
    MaxChunk = 3
    RangeCalls <- SomeRanges
    Answers = {"range", "other"}
    Limit = 4
    NONE = NONE
PROPERTY CallReturns
INVARIANTS TypeOK StreamedBytesKept ReadsSourceBytes EndIsReal
CHECK_DEADLOCK FALSE
