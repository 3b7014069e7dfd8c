SPECIFICATION Spec
CONSTANTS
    User = {u1}
    Client = {c1}
    Scopes <- MCOneScope
    Code = {k1}
    Token = {t1, t2}
    Grant = {g1}
    Worker = {w1, w2}
    None = None
    MaxVersion = 2
    MayAbort = FALSE
    MayFail = TRUE
    Ops = {"authorize", "exchange", "refresh", "consent", "cleanup", "account", "app", "logout"}
SYMMETRY Symmetry
INVARIANT IndInv
PROPERTY ImplementsLifecycle
CHECK_DEADLOCK FALSE
