SPECIFICATION Spec
CONSTANTS
    Keys = {k1}
    Requests = {r1, r2, r3}
    Ids = {i1, i2, i3}
    Conds = {}
    Exps = {1, 2}
    NONE = NONE
SYMMETRY Symmetry
INVARIANTS SlotOwned NotModifiedHasCopy DeliveredByOwnLeader
PROPERTIES LastElectedPublishes SupersededOnlyByTimeout ImplementsCoalesce
CHECK_DEADLOCK FALSE
