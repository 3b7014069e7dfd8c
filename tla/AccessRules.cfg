SPECIFICATION Spec
CONSTANTS
    User = {u1}
    App = {a1}
    Group = {g1, g2}
    Family = {f1}
    Dev = {d1}
    Worker = {w1}
    None = None
    MaxVersion = 2
    MayAbort = TRUE
    Ops = {"bindings", "groups", "delete", "consent", "ban", "unban", "expire", "fail"}
SYMMETRY Symmetry
INVARIANTS TypeOK RuleChangeEndsTokens
CHECK_DEADLOCK FALSE
