SPECIFICATION Spec
CONSTANTS
    User = {u1}
    Client = {c1, c2}
    Scopes <- MCOneScope
    Code = {k1}
    Token = {t1, t2, t3}
    Grant = {g1}
    Worker = {w1, w2}
    None = None
    MaxVersion = 1
    MayAbort = TRUE
    MayFail = FALSE
    Ops = {"authorize", "exchange", "refresh", "revoke", "expire", "cleanup"}
SYMMETRY Symmetry
INVARIANTS TypeOK AtMostOneLiveToken RedeemedOnce RotationChain HeldIsConsented
CHECK_DEADLOCK FALSE
