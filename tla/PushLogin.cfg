CONSTANTS
    Reqs = {r1}
    Users = {u1, u2}
    Keys = {k1, k2}
    Threads = {t1, t2}
    Adapter = "memory"
    StorageMayFail = TRUE
    PushTtl = 0
    MaxTime = 1
    None = None
SPECIFICATION Spec
SYMMETRY Fresh
INVARIANTS DuplicateIsReported TokenMatchesRequest
PROPERTIES ImplementsDeviceSessions DecisionStands PushKeyKeepsOwner
CHECK_DEADLOCK FALSE
