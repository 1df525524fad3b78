SPECIFICATION Spec
CONSTANTS
    Cooks = {c1, c2}
    Keepers = {c1}
    MaxVersion = 2
    Start = 2
    MaxTime = 4
    PinTtl = 1
    Policies <- SomePolicies
    LongestLife = 2
    DefaultTtl = 1
    RetainTtl = 1
    MaxTtl = 1
    NONE = NONE
INVARIANTS CopiesHonest ServedWithinGrant NotModifiedServesOwnRender
CHECK_DEADLOCK FALSE
