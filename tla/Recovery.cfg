CONSTANTS
    Users = {u1}
    Threads = {t1, t2}
    Codes = {c1, c2, c3, c4, c5}
    CodeCount = 2
    StorageMayFail = FALSE
    None = None
SPECIFICATION Spec
SYMMETRY Symmetric
INVARIANT CodeOpensOneReset
INVARIANT ReplacedCodesDead
INVARIANT ListWorks
INVARIANT CodesBounded
