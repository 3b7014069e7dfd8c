SPECIFICATION Spec
CONSTANTS
    Tab = {"apps", "users", "groupMembers"}
    Page = {1, 2}
    Group = {g1}
    Filter = {g1}
    None = None
    Slot = {1, 2}
    MaxOps = 2
    MaxTurns = 3
    MaxFails = 1
    Followed = {"accessApps", "users"}
INVARIANTS TypeOK ListsFit EditsAddUp
PROPERTIES SavedIsShown Settles
CHECK_DEADLOCK FALSE
