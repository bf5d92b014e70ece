CONSTANTS
    Ids = {a1}
    Ips = {p1}
    Tokens = {k1, k2, k3}
    MaxAttempts = 2
    LockoutSeconds = 2
    ExpirySeconds = 2
    RateLimitPerId = 2
    RateLimitPerIp = 1
    Window = 2
    MaxTime = 9
    NoKey = NoKey
SPECIFICATION OtpSpec
SYMMETRY Fresh
INVARIANTS OtpTypeOK GuessesLimited SentAtMostTwice
PROPERTY LockHolds
