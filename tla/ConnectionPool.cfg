CONSTANTS
    t1 = t1  t2 = t2  t3 = t3  t4 = t4
    Threads = {t1, t2, t3, t4}
    Main = t1
    Conns = {c1, c2}
    None = None
SPECIFICATION Spec
INVARIANTS NoConnectionLost NoLostWakeup
PROPERTIES CallsReturn OutagePasses
