CONSTANTS
    a1 = a1  a2 = a2
    Addrs = {a1, a2}
    Replicas = {r1, r2}
    Limit = 2
    Minute = 3
    PruneEvery = 15
    IdleAfter = 30
    Backoff = 2
    None = None
    ClientsOf <- TwoAndOne
SPECIFICATION Spec
PROPERTY SelfHeals
