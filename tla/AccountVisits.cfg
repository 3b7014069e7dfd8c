SPECIFICATION Spec
CONSTANTS
    Account = {u1, u2}
    Item = {i1, i2}
    Section = {"profile", "bindings"}
    Slot = {s1, s2}
    None = None
    MaxSigns = 2
    MaxVisits = 2
    MaxOps = 2
    MaxTurns = 1
    MaxFails = 1
INVARIANTS TypeOK OwnContent  
SYMMETRY Symmetry
CHECK_DEADLOCK FALSE
