SPECIFICATION Spec
CONSTANTS
    User = {u1}
    Client = {c1}
    Scopes <- MCOneScope
    Code = {k1}
    Token = {t1}
    Grant = {g1}
    Worker = {w1, w2}
    None = None
    MaxVersion = 1
    MayAbort = FALSE
    MayFail = FALSE
    Ops = {"authorize", "exchange", "consent"}
INVARIANT RevokedConsentEndsAccess
CHECK_DEADLOCK FALSE
