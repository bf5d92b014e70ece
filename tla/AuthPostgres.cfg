CONSTANTS
    t1 = t1  t2 = t2  n1 = n1  n2 = n2  u1 = u1  u2 = u2  u3 = u3
    e1 = e1  e2 = e2  e3 = e3  d1 = d1  d2 = d2  d3 = d3
    Threads = {t1, t2}
    Nonces = {n1, n2}
    Users = {u1, u2, u3}
    Emails = {e1, e2}
    Keys = {d1, d2}
    Devices <- AllDevices
    OtpDevice <- OtpDevices
    NilUser = u3
    None = None
    Adapter = "postgres"
    Ops = {"begin_registration", "complete_registration", "verify_session",
           "logout", "begin_add_device", "complete_add_device",
           "deactivate_user", "restart"}
    RevokeAllOnReset = TRUE
    StorageMayFail = TRUE
    MagicTtl = 0
    SessionTtl = 0
    ChallengeTtl = 0
    MaxTime = 1
    InitialUsers <- OneUser
    InitialDevices <- OneDevice
SPECIFICATION Spec
SYMMETRY ThreadsAndNonces
INVARIANT EmailUnique
PROPERTIES ImplementsRegistry AcceptedSessionWasLive AccountChangesNeedLink
