CONSTANTS
    Challenges = {c1, c2}
    Spellings = {w1, w2}
    Users = {u1, u2}
    Keys = {k1}
    Threads = {t1, t2}
    ChallengeTtl = 1
    MaxTime = 2
    StorageMayFail = TRUE
    None = None
SPECIFICATION Spec
SYMMETRY Fresh
INVARIANTS TypeOK StringUsedOnceWhileFresh
PROPERTY ImplementsDeviceSessions
