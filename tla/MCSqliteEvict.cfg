SPECIFICATION Spec
CONSTANTS
    Keys = {k1, k2, k3}
    Sizes = {1, 2, 3}
    Costs = {0, 1}
    Ttl = 2
    MaxBytes = 4
    MaxTime = 2
    NONE = NONE
SYMMETRY Symmetry
INVARIANT OvershootBounded
PROPERTY EvictsInOrder
