SPECIFICATION Spec
CONSTANTS
    Purpose = {p1}
    Code = {c1, c2, c3}
    Worker = {w1, w2}
    None = None
    Limit = 2
    Cooldown = 2
    TTL = 1
    DayLength = 2
    MaxTime = 3
    Ops = {"public", "cleanup", "security", "fail"}
SYMMETRY Symmetry
INVARIANTS TypeOK StoredWithinLimit SpacedFromSeen
CHECK_DEADLOCK FALSE
