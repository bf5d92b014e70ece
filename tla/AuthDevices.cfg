CONSTANTS
    t1 = t1  t2 = t2  n1 = n1  n2 = n2  u1 = u1  u2 = u2  u3 = u3
    e1 = e1  e2 = e2  e3 = e3  d1 = d1  d2 = d2  d3 = d3
    Threads = {t1, t2}
    Nonces = {n1}
    Users = {u1, u2}
    Emails = {e1, e2, e3}
    Keys = {d1, d3}
    Devices <- AllDevices
    OtpDevice <- OtpDevices
    NilUser = u2
    None = None
    Adapter = "memory"
    Ops = {"begin_reset", "complete_reset", "revoke_device", "otp_login",
           "begin_login", "complete_login", "create_session"}
    RevokeAllOnReset = TRUE
    StorageMayFail = FALSE
    MagicTtl = 0
    SessionTtl = 0
    ChallengeTtl = 0
    MaxTime = 0
    InitialUsers <- TwoUsers
    InitialDevices <- TwoDevices
SPECIFICATION Spec
SYMMETRY ThreadsAndNonces
INVARIANTS SessionNamesOwnDevice ResetRevokedListed
PROPERTIES OnlyOwnerRevokes 
