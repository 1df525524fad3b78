SPECIFICATION Spec
CONSTANTS
    k1 = k1
    k2 = k2
    i1 = i1
    i2 = i2
    s1 = s1
    s2 = s2
    Strings = {EMPTY, s1, s2}
    EMPTY = EMPTY
    N = 2
    Setups <- MCSetups
    Keys = {k1, k2}
    Cooks = {c1, c2}
    Ids = {i1, i2}
    Attempts = 2
    Candidate <- MCCandidate
    CacheTtl = 1
    MaxLost = 1
    NONE = NONE
SYMMETRY Symmetry
INVARIANTS CopiesNeverOutlive PinPromiseKept
PROPERTY ReplacedOnlyByRender ImplementsLeases
CHECK_DEADLOCK FALSE
