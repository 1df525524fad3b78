SPECIFICATION FairSpec
CONSTANTS
    Keys = {k1, k2}
    Requests = {r1, r2, r3}
    Configured = {2, 3}
    Routes = {1, 2, 3}
    MayAbort = TRUE
    NONE = NONE
INVARIANTS TypeOK SingleFlight LastTierAsked
PROPERTY ChainEnds
CHECK_DEADLOCK FALSE
