SPECIFICATION Spec
CONSTANTS
    User = {u1}
    Session = {s1}
    Worker = {w1, w2}
    None = None
    MaxVersion = 2
    MaxDay = 1
    Ops = {"profile", "phone", "deletion", "reset", "admin", "admin.delete", "logout", "cancel", "bind", "factor"}
SYMMETRY Symmetry
INVARIANTS TypeOK SettledEventEndsAuth SettledFreezeHolds SettledCancellationHolds
CHECK_DEADLOCK FALSE
