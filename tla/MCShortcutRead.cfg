SPECIFICATION ThumbSpec
CONSTANTS
    Page = 2
    TailFetch = 3
    Skip = 1
    StreamSkip = 1
    Lens = {0, 3, 9}
    Wants = {1, 3}
    Eofs = {}
    MaxChunk = 3
    RangeCalls <- NoRanges
    Answers = {"range"}
    Limit = 10
    NONE = NONE
    Kinds = {"jpeg", "png", "tiff", "webp", "raw", "zip", "pdf", "mp3"}
    Files <- SomeFiles
    Header = 6
    RawHeader = 4
    IfdFetch = 2
    Dir = 2
    MaxSubs = 2
    MaxPreview = 2
    DimsReads <- SomeDims
    ExifTail = 6
    AudioFetch = 4
    Budget = 4
    ZipWindow = 3
    MetaBudget = 4
    Buf = 3
    TargetW = 250
    TargetH = 200
    Slack = 8
    PixelArt = 100
    Decodes <- SomeDecodes
INVARIANTS ReadAtLeavesSource ProgressivePrefix PreviewIsLongest DecodesNamedBytes ThumbnailPlaced
CHECK_DEADLOCK FALSE
