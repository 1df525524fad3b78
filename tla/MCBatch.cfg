SPECIFICATION FairSpec
CONSTANTS
    u1 = u1
    u2 = u2
    Urls = {u1, u2}
    ORIGIN = ORIGIN
    FailTtl = 1
    Ceiling = 2
    MaxInstant = 9
    MaxTime = 2
    N = 3
    BATCH_MAX_ITEMS = 2
    UrlOf <- MCUrlOf
    Ttls = {1, 3, 10}
    MaxProgress = 1
INVARIANTS GuardsHold LinesInOrder
PROPERTIES ImplementsAnswers BatchEnds
CHECK_DEADLOCK FALSE
