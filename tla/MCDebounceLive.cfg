SPECIFICATION FairSpec
CONSTANTS
    Keys = {k1}
    Requests = {r1, r2, r3}
    Ids = {i1, i2, i3}
    Conds = {}
    Exps = {}
    NONE = NONE
PROPERTY LookupReturns
CHECK_DEADLOCK FALSE
