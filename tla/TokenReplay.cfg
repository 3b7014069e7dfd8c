SPECIFICATION FairSpec
CONSTANTS
    User = {u1}
    Client = {c1}
    Scopes <- MCOneScope
    Code = {k1}
    Token = {t1, t2, t3}
    Grant = {g1}
    Worker = {w1, w2}
    None = None
    MaxVersion = 2
    MayAbort = FALSE
    MayFail = FALSE
    Ops = {"authorize", "exchange", "refresh", "revoke", "logout", "app", "access"}
PROPERTY ReplayEndsFamily
CHECK_DEADLOCK FALSE
