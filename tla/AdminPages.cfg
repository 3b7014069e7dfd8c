SPECIFICATION Spec
CONSTANTS
    PageType = {"users", "apps", "riskLogs", "settings"}
    Admin = {a1, a2}
    User = {u1, u2}
    SettingsTab = {"email", "site"}
    Slot = {s1, s2}
    None = None
    MaxRows = 3
    MaxOps = 2
    MaxTurns = 2
    MaxFails = 1
INVARIANTS TypeOK RowsFit NoEmptyPageLeft SavedPolicyWasRead AcceptedIsStored SecretKept
SYMMETRY Symmetry
CHECK_DEADLOCK FALSE
