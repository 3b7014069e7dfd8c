CONSTANTS
    Account = {u1, u2}
    Tab = {t1, t2}
    None = None
    Anonymous = Anonymous
    MaxSigns = 3
    MaxVisits = 1
    MaxTurns = 2
    MaxFails = 1
SPECIFICATION Spec
INVARIANTS TypeOK MetaIsCookie ExchangeOnce
PROPERTY EntersAsItself
SYMMETRY Symmetry
CHECK_DEADLOCK FALSE
