CONSTANTS
    Challenges = {c1}
    Spellings = {w1}
    Users = {u1}
    Keys = {k1}
    Threads = {t1, t2}
    ChallengeTtl = 1
    MaxTime = 3
    StorageMayFail = FALSE
    None = None
SPECIFICATION LifeSpec
INVARIANT SingleUse
CHECK_DEADLOCK FALSE
