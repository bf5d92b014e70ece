CONSTANTS
    Sids = {s1}
    Devices = {d1, d2}
    Threads = {t1, t2}
    Ips <- OneNetwork
    QrTtl = 1
    MaxTime = 2
    None = None
SPECIFICATION FairSpec
INVARIANT TypeOK
PROPERTIES LoginFollowsLastDecision RevokedApproverGetsNoLogin ApproverIsKept
    SessionsEnd
CHECK_DEADLOCK FALSE
