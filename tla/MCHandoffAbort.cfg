SPECIFICATION FairSpec
CONSTANTS
    Keys = {k1}
    Requests = {r1, r2}
    Configured = {2, 3}
    Routes = {1, 2, 3}
    MayAbort = TRUE
    NONE = NONE
PROPERTY JoinersResume
CHECK_DEADLOCK FALSE
