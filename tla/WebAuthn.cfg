CONSTANTS
    Users = {u1, u2}
    Threads = {t1, t2}
    Creds = {c1}
    MaxCount = 2
    MaxLapses = 2
    StorageMayFail = TRUE
    None = None
SPECIFICATION Spec
SYMMETRY Fresh
INVARIANTS TokenNamesOwnCredential LockOutHasCause ReplayNeedsLapse
PROPERTY ImplementsDeviceSessions
